CONSTANTS
    Gates = {g1}
    Calls = {a1, a2, a3}
SPECIFICATION FairGateSpec
INVARIANTS
    GateTypeOK
    DecisionReachesWaiter
    ActsOnGivenAnswer
PROPERTIES
    KeepsPromise
    WaitsEnd
CHECK_DEADLOCK FALSE
