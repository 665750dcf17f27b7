SPECIFICATION FairSpec
CONSTANTS
    Treatments = {t1, t2}
    Procs = {p1}
    Janitors = {}
    MaxAttempts = 2
    MaxParallel = 2
    JobFaults = {"evicted", "oom"}
    Hazards = {"decline", "slow"}
    MaxStarts = 3
    MaxJanitorRuns = 0
INVARIANTS
    TypeOK
    AttemptChain
    JobsAreMarked
PROPERTIES
    LedgerKept
    SweepCoversAll
    SweepEnds
\* Once MaxStarts sweeps are over nothing is left to do.
CHECK_DEADLOCK FALSE
