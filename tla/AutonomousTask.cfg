CONSTANTS
    Runners = {r1, r2}
    First = r1
    Cancels = {c1}
    NSteps = 2
    Gated = {1}
    Critical = {2}
    IterationBudget = 5
    None = None
SPECIFICATION Spec
INVARIANTS
    GatedStepsWait
    NoZombieTask
PROPERTIES
    FinishedStepsStay
CHECK_DEADLOCK FALSE
