SPECIFICATION Spec
CONSTANTS
    Treatments = {t1}
    Procs = {p1}
    Janitors = {}
    MaxAttempts = 2
    MaxParallel = 1
    JobFaults = {"evicted", "oom"}
    Hazards = {"read"}
    MaxStarts = 2
    MaxJanitorRuns = 1
PROPERTY
    NoRetryOverLiveJob
CHECK_DEADLOCK FALSE
