SPECIFICATION Spec
CONSTANTS
    long = long
    short = short
    Clip <- TwoClips
    Length <- Lengths
    TargetFrames = 3
    LowWater = 2
    DeviceBuffer = 1
    MaxCommands = 4
    MaxSilence = 5
    None = None
CHECK_DEADLOCK FALSE
INVARIANT
    NeverAheadOfDevice
