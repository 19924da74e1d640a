SPECIFICATION Spec
CONSTANTS
    None = None
    Clip = {c1, c2}
    Length <- TwoUnits
    Content <- LateMusic
    Correction = 0
    MaxTime = 2
    MaxCommands = 1
CHECK_DEADLOCK FALSE
INVARIANTS
    FirstFrameIsAccepted
