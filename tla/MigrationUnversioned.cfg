\* One migration and one fault.
SPECIFICATION Spec
CONSTANTS
    N = 1
    Irreversible = {}
    NSql = 2
    MaxFaults = 1
    MaxRollbacks = 0
INVARIANT RefusedPredatesVersioning
