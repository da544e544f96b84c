CONSTANTS
    Threads = {t1, t2, t3}
    Instance = instance
    Sessions = {s1, s2}
    Leaves = {h1, h2}
    Objects = {o1, o2, o3, o4, o5}
    Null = Null
    EagerReuse = FALSE
SPECIFICATION Spec
INVARIANTS
    IInv
    NoFault
    UsableHandlesResolve
    QuiescentAgreement
PROPERTIES
    ImplementsTree
SYMMETRY Symmetry
CHECK_DEADLOCK FALSE
