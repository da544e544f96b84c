CONSTANTS
    Sessions = {s1, s2}
    Others = {o1}
    Labels = {l1, l2, l3}
    Names = {n1}
    CountWidth = 3
    MaxObjects = 2
    DebugMessengers = {m1}
    CreateInfos <- MCCreateInfos
    Framework = framework
    None = None
SPECIFICATION LabelsSpec
PROPERTIES
    ImplementsLabels
    MessagesExplained
SYMMETRY Symmetry
