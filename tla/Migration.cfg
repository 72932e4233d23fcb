\* Three migrations with every dependency order, two statements each, the
\* first without a way down; two faults and two rollbacks.
SPECIFICATION FairSpec
CONSTANTS
    N = 3
    Irreversible = {1}
    NSql = 2
    MaxFaults = 2
    MaxRollbacks = 2
INVARIANTS
    RecordsTellTruth
    DependenciesApplied
PROPERTY RetriesConverge
