CONSTANTS
    Swapchains = {s1, s2}
    Null = Null
    MaxModels = 2
SPECIFICATION VulkanSpec
INVARIANTS
    TypeOK
    ListsIntact
PROPERTIES
    RefusesAfterTimeout
    CallsReturn
