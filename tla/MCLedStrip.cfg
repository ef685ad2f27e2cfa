CONSTANTS
    black = black
    nearly_black = nearly_black
    white = white
    dark = dark
    bright = bright
    NB_LEDS = 3
    Colors = {black, nearly_black, white}
    Black = black
    Levels = {dark, bright}
    Gamma <- MCGamma
    Reset = Reset
    MaxWrite = 3
SPECIFICATION FairSpec
CHECK_DEADLOCK FALSE
INVARIANTS WritesStayInTheBuffer BufferHoldsColors SentIsShown
PROPERTIES SendEnds
