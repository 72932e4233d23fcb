CONSTANTS
    p1 = p1
    p2 = p2
    Profiles = {p1, p2}
    NoProfile = NoProfile
    SavedPort <- MCSavedPort
    DirHits <- MCDirHits
    MaxPort = 1
    Span = 1
    MaxConcurrent = 1
    MaxQueued = 1
    RetryLimit = 1
    MaxRestarts = 0
    Threshold = 1
    Windows = TRUE
    MaxSpawns = 3
    MaxEvents = 1
SPECIFICATION FairSpec
INVARIANTS
    TypeOK
    LockedWhileSpawning
    SlotsMatchLaunches
PROPERTIES
    SpawnSettles
CHECK_DEADLOCK FALSE
