CONSTANTS
    Threads = {t1, t2, t3}
    Instances = {i1, i2}
    Messengers = {m1, m2, m3}
    Null = Null
    Files <- MCFiles
    FallbackConfigDirs <- MCFallbackConfigDirs
    SysConfDirs <- MCSysConfDirs
    FallbackDataDirs <- MCFallbackDataDirs
    Requests <- MCRequests
    RuntimeExtensions = {"x"}
    DebugUtils = "dbg"
    Unset = "unset"
SPECIFICATION Spec
INVARIANTS
    TypeOK
    NothingUsedGone
    QuiescentAgreement
    LayersAgree
    ReportedIsAccepted
SYMMETRY Symmetry
