CONSTANTS
    e1 = e1
    e2 = e2
    e3 = e3
    e4 = e4
    f1 = f1
    b1 = b1
    Silence = Silence
    NoSound = NoSound
    UnknownName = UnknownName
    Foreground <- MCForeground
    Background <- MCBackground
    Unloadable = {}
    CROSSFADE_DURATION = 2
    Effects <- MCEffects3
    PlainBlack = PlainBlack
    FADE_DURATION = 2
    Dts = {1, 2}
    GRADIENTS = {"halloween", "nature", "fire", "ocean"}
    GradientNames = {"fire", "nature", "ocean", "halloween", "rainbow"}
    SoundNames <- MCNoSoundNames
    WithSounds = FALSE
SPECIFICATION Spec
CHECK_DEADLOCK FALSE
INVARIANTS TilesAreServed
