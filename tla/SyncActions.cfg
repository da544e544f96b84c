CONSTANTS
    Threads = {t1, t2}
    Null = Null
    Rogue = TRUE
    MayOverlap <- PollDuringSync
    MaxEvents = 3
SPECIFICATION Spec
INVARIANTS
    TypeOK
    FlagAgrees
    SyncResultAgrees
    ReportsExplained
SYMMETRY Symmetry
