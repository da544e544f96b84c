CONSTANTS
    Threads = {t1, t2, t3}
    Null = Null
    MayOverlap <- Harmless
    AcceptsEarly = FALSE
    MaxFrames = 2
    MaxTime = 3
    MaxEvents = 2
SPECIFICATION Spec
INVARIANTS
    TypeOK
    NoFalseReport
    RecordAgrees
PROPERTIES
    ImplementsLifecycle
SYMMETRY Symmetry
CHECK_DEADLOCK FALSE
