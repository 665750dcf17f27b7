SPECIFICATION Spec
CONSTANTS
    Treatments = {t1}
    Procs = {p1, p2}
    Janitors = {j1}
    MaxAttempts = 2
    MaxParallel = 1
    JobFaults = {"evicted", "oom"}
    Hazards = {"read", "apply", "write", "decline", "slow"}
    MaxStarts = 2
    MaxJanitorRuns = 1
SYMMETRY Symmetry
INVARIANTS
    OutcomeTruthful
CHECK_DEADLOCK FALSE
