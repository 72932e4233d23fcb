CONSTANTS
    Sockets = {s1, s2}
    MaxStops = 1
    Requests = {q1, q2}
    MaxConcurrent = 1
    None = None
SPECIFICATION FairSpec
INVARIANTS
    OneServedTunnel
    ConnectedIsReal
    RetryPending
    RequestsAnswered
PROPERTIES
    DeadTunnelNoticed
CHECK_DEADLOCK FALSE
