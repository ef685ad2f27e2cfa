CONSTANTS
    NB_LEDS = 97
    MAX_COLORS = 4
    Stops = {0, 1, 4}
    PERIOD = 256
    permutation <- MCPermutation
    Depths = {0, 255}
    scale = 10
    CYCLE_DURATION = 5
    Memory <- MCMemory
    Dts = {1, 2}
SPECIFICATION FairSpec
INVARIANTS AccessesInBounds NoiseGoesAroundTheTable
PROPERTIES FadeCycles
