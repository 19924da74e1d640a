SPECIFICATION Spec
CONSTANTS
    None = None
    Clip = {c1, c2}
    Length <- TwoUnits
    Content <- SilentOnly
    Correction = 0
    MaxTime = 2
    MaxCommands = 3
CHECK_DEADLOCK FALSE
PROPERTIES
    PlayResumesWhatIsShown
