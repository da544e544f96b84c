CONSTANTS
    Threads = {t1, t2, t3}
    Null = Null
    Count = 3
    MaxHeld = 3
    Conformance = {TRUE, FALSE}
    MayFailEnumerate = TRUE
    MayOverlap <- Harmless
SPECIFICATION Spec
INVARIANTS
    TypeOK
    VerdictExact
    RecordAgrees
PROPERTIES
    ImplementsSwapchain
SYMMETRY Symmetry
CHECK_DEADLOCK FALSE
