CONSTANTS
    Gates = {g1}
    Calls = {a1, a2}
SPECIFICATION GateSpec
INVARIANT RecordedAsActed
CHECK_DEADLOCK FALSE
