CONSTANTS
    f1 = f1
    f2 = f2
    b1 = b1
    b2 = b2
    Silence = Silence
    NoSound = NoSound
    UnknownName = UnknownName
    Foreground <- MCForeground
    Background <- MCBackground
    Unloadable <- MCUnloadable
    CROSSFADE_DURATION = 2
    Dts = {1, 2}
SPECIFICATION FairLibrarySpec
INVARIANTS LibraryTypeOK OnlyFadedSoundsPlay LoudnessBounded NoNullSound
PROPERTIES CompletedFadeIsHeard FadesComplete
