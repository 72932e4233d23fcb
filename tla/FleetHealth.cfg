CONSTANTS
    p1 = p1
    p2 = p2
    Profiles = {p1, p2}
    NoProfile = NoProfile
    SavedPort <- MCSavedPort
    DirHits <- MCDirHits
    MaxPort = 1
    Span = 1
    MaxConcurrent = 1
    MaxQueued = 1
    RetryLimit = 0
    MaxRestarts = 2
    Threshold = 2
    Windows = TRUE
    MaxSpawns = 2
    MaxEvents = 4
SPECIFICATION Spec
INVARIANTS
    OneSpawnPerProfileDir
    ClosedCircuitBelowThreshold
CHECK_DEADLOCK FALSE
