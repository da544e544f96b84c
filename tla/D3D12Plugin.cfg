CONSTANTS
    Swapchains = {s1, s2}
    Null = Null
    MaxDevices = 2
    MaxLists = 5
    MaxMeshes = 2
    MaxObjects = 2
SPECIFICATION Spec
INVARIANTS
    TypeOK
    GpuReadsIntact
PROPERTIES
    NothingOverdue
    CallsReturn
