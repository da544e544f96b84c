CONSTANTS
    MaxWindows = 3
    MaxMade = 2
    MaxData = 1
    MaxShutdowns = 2
SPECIFICATION Spec
INVARIANTS
    TypeOK
    WindowsAccounted
    ObjectsStayWithTheirDevice
