CONSTANTS
    Width = 1
    Height = 3
    EPSILON = 1
    Endpoints <- MCEndpoints
    Listening = "127.0.0.1"
    MaxContours = 1
    MaxDescriptors = 2
    Conns = {c1, c2}
    Other <- MCOther
SPECIFICATION FairSpec
PROPERTIES CommandsAreNeverLate SentColorIsShown TrackerGoesOn
