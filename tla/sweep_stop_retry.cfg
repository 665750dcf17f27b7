SPECIFICATION Spec
CONSTANTS
    Treatments = {t1}
    Procs = {p1}
    Janitors = {j1}
    MaxAttempts = 2
    MaxParallel = 1
    JobFaults = {"evicted", "oom"}
    Hazards = {}
    MaxStarts = 2
    MaxJanitorRuns = 1
PROPERTY
    StoppedStaysStopped
CHECK_DEADLOCK FALSE
