SPECIFICATION Spec
CONSTANTS
    Tests = {"focused", "by_hand", "iterated", "helper", "manager", "cycle", "pipelined", "threads"}
    Graphics = {TRUE, FALSE}
    MaxEvents = 10
    FewEvents = 5
    FrameCount = 3
    Workers = {w1, w2}
    InvocationCount = 2
INVARIANTS
    CallsInOrder
    FailuresExplained
    ReadersSeeAll
    GivenBack
PROPERTIES
    EveryTestEnds
