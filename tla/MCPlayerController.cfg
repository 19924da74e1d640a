SPECIFICATION Spec
CONSTANTS
    None = None
    Clip = {c1, c2}
    Length <- TwoUnits
    Content <- SilentAndMusic
    Correction = 1
    MaxTime = 2
    MaxCommands = 4
SYMMETRY Clips
CHECK_DEADLOCK FALSE
INVARIANTS
    ClipsAreAccountedFor
    FramesAreAccepted
PROPERTIES
    SegmentsGoForward
    SeekIsShown
