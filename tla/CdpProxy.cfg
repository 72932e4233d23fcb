CONSTANTS
    c1 = c1
    c2 = c2
    c3 = c3
    c4 = c4
    c5 = c5
    Calls = {c1, c2, c3, c4, c5}
    Plan <- MCPlan
    Unmediated <- MCUnmediated
SPECIFICATION FairSpec
INVARIANTS
    TypeOK
    OneMediatedCommand
    TicketsMatchCalls
    NestedWaitsForItself
    MutexIsExact
PROPERTIES
    ServedInOrder
    SettlesUnlessStuck
CHECK_DEADLOCK FALSE
