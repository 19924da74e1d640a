SPECIFICATION Spec
CONSTANTS
    c1 = c1
    c2 = c2
    Clock <- TwoClocks
    Reader = {r1}
    Position = {0, 1}
    MaxAttempts = 2
    MaxSubmits <- Submits
    None = None
INVARIANTS
    SnapshotsAreComplete
    QuietReadIsFresh
PROPERTIES
    NeverGoesBack
    SnapshotReturns
