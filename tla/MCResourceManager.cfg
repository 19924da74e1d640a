SPECIFICATION Spec
CONSTANTS
    Id = {a1, a2}
    FallbackId = fallback
    Lease = {l1, l2, l3}
    MaxIndex = 3
    MaxGeneration = 2
    MaxRevision = 2
    SweepDuringLoad = FALSE
    None = None
SYMMETRY Symmetry
CHECK_DEADLOCK FALSE
INVARIANTS
    ReferencesCountLeases
    UnleasedSlotIsEmpty
    ByIdFindsLiveSlots
    LeasedSlotKeepsResource
PROPERTIES
    StaleForever
    ImplementsLeaseTable
