--------------------------- MODULE SweepOrchestrator ---------------------------
(***************************************************************************)
(* The benchmark orchestrator: sweeps of treatments run as Kubernetes Jobs  *)
(* (app/orchestrator/controller.py), their checkpoint ConfigMap             *)
(* (app/orchestrator/checkpoint.py) and the stop / cleanup tool that deletes *)
(* Jobs from another chat (app/tools/run/manage_runs.py).                   *)
(*                                                                          *)
(* A process p in Procs is one place from which orchestrate_sweep is called  *)
(* with the sweep id this module is about: a chat's turn, whose memory is    *)
(* lost when the turn is cancelled or the backend dies.  The cluster (the    *)
(* Jobs and the ConfigMap) survives.  Every await of the code is a step       *)
(* boundary; what runs between two awaits is one action.                     *)
(*                                                                          *)
(* Left out: log tailing and metrics (best-effort side channels that no      *)
(* guard reads), the manifest's contents beyond the Job's name, and the       *)
(* split of a live Job's phase into pending and active (nothing depends on   *)
(* it).                                                                      *)
(***************************************************************************)
EXTENDS Naturals, FiniteSets

CONSTANTS
    Treatments,      \* the sweep's treatments (their logical run ids)
    Procs,           \* callers of orchestrate_sweep with this sweep id
    Janitors,        \* callers of manage_orchestrated_runs(stop | cleanup)
    MaxAttempts,     \* max_attempts
    MaxParallel,     \* max_parallel
    JobFaults,       \* the fault kinds a Job may fail with
    Hazards,         \* what may go wrong around the orchestrator, see AllHazards
    MaxStarts,       \* bound: how often a sweep is started or resumed
    MaxJanitorRuns   \* bound: how often stop / cleanup is called

\* faults.py's kinds; a Job that failed with no pod-level signal is "unknown".
AllFaults == {"timeout", "oom", "unschedulable", "evicted", "image_error",
              "run_error", "unknown"}

\* "read":    a kubectl get fails or times out: its output parses to no items
\* "apply":   a kubectl apply / delete of a Job exits non-zero, which is ignored
\* "write":   the checkpoint's kubectl apply is declined or fails
\* "decline": the user declines the approval of a Job's apply / delete
\* "slow":    a Job may outlive the watch's max_wait
AllHazards == {"read", "apply", "write", "decline", "slow"}

ASSUME SweepAssumption ==
    /\ MaxAttempts \in Nat \ {0}
    /\ MaxParallel \in Nat
    /\ JobFaults \subseteq AllFaults
    /\ Hazards \subseteq AllHazards
    /\ MaxStarts \in Nat
    /\ MaxJanitorRuns \in Nat

Attempts  == 1..MaxAttempts
JobNames  == Treatments \X Attempts
JobPhases == {"absent", "running", "succeeded"} \cup JobFaults

\* DEFAULT_RETRYABLE: the transient faults, retried as a fresh Job.
Retryable == {"evicted", "unknown"}

\* A terminal outcome as the checkpoint records it: success, or the fault
\* kind of a dead-lettered treatment.
Outcomes == {"succeeded"} \cup AllFaults
\* A treatment's record in the checkpoint ("none": it has no record).
Records  == {"none", "in_flight"} \cup Outcomes
Stages   == {"queued", "entered", "marking", "submitting", "watching",
             "diagnosing", "concluded", "recording", "finished"}
\* What a treatment's coroutine knows of its current attempt, then its outcome.
Findings == {"unseen", "running", "failed"} \cup Outcomes

VARIABLES
    job,        \* cluster: the phase of each Job <<treatment, attempt>>
    ever,       \* history: the phases each Job name has been through
    cm,         \* cluster: the checkpoint ConfigMap, a record per treatment
    mode,       \* per process: is a sweep running
    ck,         \* per process: the in-memory SweepCheckpoint
    stage,      \* per process and treatment: where its coroutine (_one) stands
    att,        \* per process and treatment: the attempt number
    found,      \* per process and treatment: see Findings
    manifest,   \* per process and treatment: the rendered ConfigMap being applied
    todo,       \* per janitor: the Jobs its listing selected for deletion
    task,       \* per janitor: the tool call under way
    starts,     \* how often a sweep was started
    janitorRuns \* how often the janitors' tool was called

cluster == <<job, ever, cm>>
memory  == <<mode, ck, stage, att, found, manifest>>
janitor == <<todo, task, janitorRuns>>
vars    == <<cluster, memory, janitor, starts>>

NoRecords == [t \in Treatments |-> "none"]

TypeOK ==
    /\ job \in [JobNames -> JobPhases]
    /\ ever \in [JobNames -> SUBSET JobPhases]
    /\ cm \in [Treatments -> Records]
    /\ mode \in [Procs -> {"idle", "sweeping"}]
    /\ ck \in [Procs -> [Treatments -> Records]]
    /\ stage \in [Procs -> [Treatments -> Stages]]
    /\ att \in [Procs -> [Treatments -> Attempts]]
    /\ found \in [Procs -> [Treatments -> Findings]]
    /\ manifest \in [Procs -> [Treatments -> [Treatments -> Records]]]
    /\ todo \in [Janitors -> SUBSET JobNames]
    /\ task \in [Janitors -> {"none", "stop", "cleanup"}]
    /\ starts \in 0..MaxStarts
    /\ janitorRuns \in 0..MaxJanitorRuns

Init ==
    /\ job = [n \in JobNames |-> "absent"]
    /\ ever = [n \in JobNames |-> {}]
    /\ cm = NoRecords
    /\ mode = [p \in Procs |-> "idle"]
    /\ ck = [p \in Procs |-> NoRecords]
    /\ stage = [p \in Procs |-> [t \in Treatments |-> "queued"]]
    /\ att = [p \in Procs |-> [t \in Treatments |-> 1]]
    /\ found = [p \in Procs |-> [t \in Treatments |-> "unseen"]]
    /\ manifest = [p \in Procs |-> [t \in Treatments |-> NoRecords]]
    /\ todo = [j \in Janitors |-> {}]
    /\ task = [j \in Janitors |-> "none"]
    /\ starts = 0
    /\ janitorRuns = 0

-----------------------------------------------------------------------------
(* The cluster.                                                            *)

Terminal(phase) == phase \notin {"absent", "running"}

\* The phases a `kubectl get jobs` (or of its pods) may report for a Job: a
\* failed read parses to no items, which status() takes for ABSENT.
Reported(n) == {job[n]} \cup (IF "read" \in Hazards THEN {"absent"} ELSE {})

SetPhase(n, phase) ==
    /\ job' = [job EXCEPT ![n] = phase]
    /\ ever' = [ever EXCEPT ![n] = @ \cup {phase}]

\* Mutant of ApplyJob: a Job that has ended is replaced by a fresh one.
ApplyJobReplacing(n) ==
    IF job[n] # "running" THEN SetPhase(n, "running") ELSE UNCHANGED <<job, ever>>

\* kubectl apply of a Job manifest: creates the Job, leaves one that exists alone.
ApplyJob(n) ==
    IF job[n] = "absent" THEN SetPhase(n, "running") ELSE UNCHANGED <<job, ever>>

\* A Job's pod finishes: backoffLimit is 0, so a single failure is final.
JobEnds(n) ==
    /\ job[n] = "running"
    /\ \E phase \in {"succeeded"} \cup JobFaults : SetPhase(n, phase)
    /\ UNCHANGED <<cm, memory, janitor, starts>>

-----------------------------------------------------------------------------
(* The checkpoint.                                                         *)

\* TreatmentRecord.completed
Completed(rec) == rec \in Outcomes

\* record_in_flight: never downgrades a completed record.
InFlight(records, t) ==
    IF Completed(records[t]) THEN records ELSE [records EXCEPT ![t] = "in_flight"]

\* Mutant of LockFree: no ck_lock.
LockIgnored(p) == p \in Procs

\* ck_lock: at most one coroutine of a process mutates and applies at a time.
LockFree(p) == \A t \in Treatments : stage[p][t] \notin {"marking", "recording"}

\* CheckpointStore.load: what a start may read.  A failed read is an empty checkpoint.
Loaded == {cm} \cup (IF "read" \in Hazards THEN {NoRecords} ELSE {})

\* record_* in memory, then store.write renders it for the apply under way.
BeginWrite(p, t, records, next) ==
    /\ LockFree(p)
    /\ ck' = [ck EXCEPT ![p] = records]
    /\ manifest' = [manifest EXCEPT ![p][t] = records]
    /\ stage' = [stage EXCEPT ![p][t] = next]
    /\ UNCHANGED <<cluster, mode, att, found, janitor, starts>>

\* The end of store.write's apply, which is best effort, and of ck_lock.
EndWrite(p, t, from, next) ==
    /\ stage[p][t] = from
    /\ \/ cm' = manifest[p][t]
       \/ "write" \in Hazards /\ UNCHANGED cm
    /\ manifest' = [manifest EXCEPT ![p][t] = NoRecords]
    /\ stage' = [stage EXCEPT ![p][t] = next]
    /\ UNCHANGED <<job, ever, mode, ck, att, found, janitor, starts>>

-----------------------------------------------------------------------------
(* run_sweep: one process.                                                 *)

\* Coroutines inside `async with sem`.
Inside(p) == {t \in Treatments : stage[p][t] \notin {"queued", "finished"}}
\* asyncio.Semaphore(max(1, max_parallel))
Slots == IF MaxParallel < 1 THEN 1 ELSE MaxParallel

\* A sweep starts or resumes: the checkpoint is loaded, completed treatments
\* are skipped with their prior outcome, the rest is scheduled.
Start(p) ==
    /\ mode[p] = "idle"
    /\ starts < MaxStarts
    /\ starts' = starts + 1
    /\ mode' = [mode EXCEPT ![p] = "sweeping"]
    /\ \E records \in Loaded :
        /\ ck' = [ck EXCEPT ![p] = records]
        /\ stage' = [stage EXCEPT ![p] =
              [t \in Treatments |-> IF Completed(records[t]) THEN "finished" ELSE "queued"]]
        /\ found' = [found EXCEPT ![p] =
              [t \in Treatments |-> IF Completed(records[t]) THEN records[t] ELSE "unseen"]]
    /\ UNCHANGED <<cluster, att, manifest, janitor>>

\* A process' memory is gone; what it was doing is at an end.
Forget(p) ==
    /\ mode' = [mode EXCEPT ![p] = "idle"]
    /\ ck' = [ck EXCEPT ![p] = NoRecords]
    /\ stage' = [stage EXCEPT ![p] = [t \in Treatments |-> "queued"]]
    /\ att' = [att EXCEPT ![p] = [t \in Treatments |-> 1]]
    /\ found' = [found EXCEPT ![p] = [t \in Treatments |-> "unseen"]]
    /\ manifest' = [manifest EXCEPT ![p] = [t \in Treatments |-> NoRecords]]
    /\ UNCHANGED <<cluster, janitor, starts>>

\* gather returns and the merged outcomes are reported.
Finish(p) ==
    /\ mode[p] = "sweeping"
    /\ \A t \in Treatments : stage[p][t] = "finished"
    /\ Forget(p)

\* The turn is cancelled (CancelledError is not an Exception: nothing is
\* recorded) or the backend dies, at any await.
Crash(p) ==
    /\ mode[p] = "sweeping"
    /\ Forget(p)

Sweeping(p, t, s) == mode[p] = "sweeping" /\ stage[p][t] = s

\* _one takes a slot of the semaphore.
Enter(p, t) ==
    /\ Sweeping(p, t, "queued")
    /\ Cardinality(Inside(p)) < Slots
    /\ stage' = [stage EXCEPT ![p][t] = "entered"]
    /\ UNCHANGED <<cluster, mode, ck, att, found, manifest, janitor, starts>>

\* Mutant of MarkInFlight: the record is only made in memory.
MarkInMemory(p, t) ==
    /\ Sweeping(p, t, "entered")
    /\ ck' = [ck EXCEPT ![p] = InFlight(ck[p], t)]
    /\ stage' = [stage EXCEPT ![p][t] = "submitting"]
    /\ UNCHANGED <<cluster, mode, att, found, manifest, janitor, starts>>

\* _persist_in_flight
MarkInFlight(p, t) ==
    /\ Sweeping(p, t, "entered")
    /\ BeginWrite(p, t, InFlight(ck[p], t), "marking")

MarkedInFlight(p, t) == EndWrite(p, t, "marking", "submitting")

\* Mutant of RecordCompleted: the fault kind of a dead letter is not passed on.
RecordWithoutFault(p, t) ==
    /\ Sweeping(p, t, "concluded")
    /\ BeginWrite(p, t, [ck[p] EXCEPT ![t] =
           IF found[p][t] = "succeeded" THEN "succeeded" ELSE "unknown"], "recording")

\* _persist_completed
RecordCompleted(p, t) ==
    /\ Sweeping(p, t, "concluded")
    /\ BeginWrite(p, t, [ck[p] EXCEPT ![t] = found[p][t]], "recording")

RecordedCompleted(p, t) == EndWrite(p, t, "recording", "finished")

-----------------------------------------------------------------------------
(* run_with_retries: one treatment.                                        *)

Current(p, t) == <<t, att[p][t]>>

MoveTo(p, t, s, finding) ==
    /\ stage' = [stage EXCEPT ![p][t] = s]
    /\ found' = [found EXCEPT ![p][t] = finding]

Conclude(p, t, outcome) ==
    MoveTo(p, t, "concluded", outcome) /\ UNCHANGED att

\* Mutant of AttemptFailed: off by one in the budget.
AttemptFailedOverBudget(p, t, fault) ==
    IF att[p][t] <= MaxAttempts /\ fault \in Retryable
    THEN /\ att' = [att EXCEPT ![p][t] = @ + 1]
         /\ MoveTo(p, t, "submitting", "unseen")
    ELSE Conclude(p, t, fault)

\* A failed attempt: a transient fault is retried while the budget lasts,
\* anything else dead-letters the treatment.
AttemptFailed(p, t, fault) ==
    IF att[p][t] < MaxAttempts /\ fault \in Retryable
    THEN /\ att' = [att EXCEPT ![p][t] = @ + 1]
         /\ MoveTo(p, t, "submitting", "unseen")
    ELSE Conclude(p, t, fault)

\* submit: the Job's apply goes through, or exits non-zero unnoticed.
Submit(p, t) ==
    /\ Sweeping(p, t, "submitting")
    /\ \/ ApplyJob(Current(p, t))
       \/ "apply" \in Hazards /\ UNCHANGED <<job, ever>>
    /\ MoveTo(p, t, "watching", "unseen")
    /\ UNCHANGED <<cm, mode, ck, att, manifest, janitor, starts>>

\* submit raises (the approval is declined): _one turns the exception into a
\* dead letter.
SubmitDeclined(p, t) ==
    /\ Sweeping(p, t, "submitting")
    /\ "decline" \in Hazards
    /\ Conclude(p, t, "unknown")
    /\ UNCHANGED <<cluster, mode, ck, manifest, janitor, starts>>

\* Mutant of Poll: a Job that is gone is taken for one that completed.
PollGoneIsDone(p, t) ==
    /\ Sweeping(p, t, "watching")
    /\ \E phase \in Reported(Current(p, t)) :
        \/ phase = "running" /\ MoveTo(p, t, "watching", "running")
        \/ phase = "succeeded" /\ MoveTo(p, t, "concluded", "succeeded")
        \/ phase \in JobFaults /\ MoveTo(p, t, "diagnosing", "failed")
        \/ phase = "absent" /\ found[p][t] = "running" /\ MoveTo(p, t, "concluded", "succeeded")
    /\ UNCHANGED <<cluster, mode, ck, att, manifest, janitor, starts>>

\* One poll of watch().  A Job that was never seen is polled again.
Poll(p, t) ==
    /\ Sweeping(p, t, "watching")
    /\ \E phase \in Reported(Current(p, t)) :
        \/ /\ phase = "running"
           /\ MoveTo(p, t, "watching", "running")
           /\ UNCHANGED att
        \/ /\ phase = "succeeded"
           /\ Conclude(p, t, "succeeded")
        \/ /\ phase \in JobFaults
           /\ MoveTo(p, t, "diagnosing", IF phase = "timeout" THEN "timeout" ELSE "failed")
           /\ UNCHANGED att
        \/ /\ phase = "absent" /\ found[p][t] = "running"
           /\ AttemptFailed(p, t, "unknown")
    /\ UNCHANGED <<cluster, mode, ck, manifest, janitor, starts>>

\* Mutant of WatchTimesOut: max_wait only bounds the wait for the Job to appear.
WatchTimesOutUnseen(p, t) ==
    /\ Sweeping(p, t, "watching")
    /\ found[p][t] = "unseen" /\ job[Current(p, t)] = "absent"
    /\ AttemptFailed(p, t, "unknown")
    /\ UNCHANGED <<cluster, mode, ck, manifest, janitor, starts>>

\* The poll at which max_wait has elapsed: the Job still runs, or was never seen.
WatchTimesOut(p, t) ==
    /\ Sweeping(p, t, "watching")
    /\ \E phase \in Reported(Current(p, t)) :
        \/ phase = "running" /\ "slow" \in Hazards /\ AttemptFailed(p, t, "timeout")
        \/ phase = "absent" /\ found[p][t] = "unseen" /\ AttemptFailed(p, t, "unknown")
    /\ UNCHANGED <<cluster, mode, ck, manifest, janitor, starts>>

\* diagnose: the Job's own DeadlineExceeded, else what its pods tell, else unknown.
Diagnose(p, t) ==
    /\ Sweeping(p, t, "diagnosing")
    /\ \E phase \in Reported(Current(p, t)) :
        AttemptFailed(p, t, IF found[p][t] = "timeout" THEN "timeout"
                            ELSE IF phase \in JobFaults \ {"timeout"} THEN phase
                            ELSE "unknown")
    /\ UNCHANGED <<cluster, mode, ck, manifest, janitor, starts>>

-----------------------------------------------------------------------------
(* manage_orchestrated_runs, called from another chat.                     *)

Selected(action, phase) ==
    \/ action = "stop" /\ phase = "running"
    \/ action = "cleanup" /\ Terminal(phase)

\* reconstruct(): the listing the deletes then work from.
List(j, action) ==
    /\ task[j] = "none"
    /\ janitorRuns < MaxJanitorRuns
    /\ janitorRuns' = janitorRuns + 1
    /\ task' = [task EXCEPT ![j] = action]
    /\ \/ todo' = [todo EXCEPT ![j] = {n \in JobNames : Selected(action, job[n])}]
       \/ "read" \in Hazards /\ UNCHANGED todo
    /\ UNCHANGED <<cluster, memory, starts>>

\* One approved kubectl delete --ignore-not-found, or one that fails unnoticed.
Delete(j, n) ==
    /\ n \in todo[j]
    /\ todo' = [todo EXCEPT ![j] = @ \ {n}]
    /\ \/ job' = [job EXCEPT ![n] = "absent"]
       \/ "apply" \in Hazards /\ UNCHANGED job
    /\ UNCHANGED <<ever, cm, memory, task, janitorRuns, starts>>

\* The tool returns: every delete was issued, or a declined one ended the loop.
JanitorReturns(j) ==
    /\ task[j] # "none"
    /\ todo[j] = {} \/ "decline" \in Hazards
    /\ task' = [task EXCEPT ![j] = "none"]
    /\ todo' = [todo EXCEPT ![j] = {}]
    /\ UNCHANGED <<cluster, memory, janitorRuns, starts>>

-----------------------------------------------------------------------------
\* The steps of a process that is sweeping, and of one of its treatments.
TreatmentStep(p, t) ==
    \/ Enter(p, t)
    \/ MarkInFlight(p, t)
    \/ MarkedInFlight(p, t)
    \/ Submit(p, t)
    \/ SubmitDeclined(p, t)
    \/ Poll(p, t)
    \/ WatchTimesOut(p, t)
    \/ Diagnose(p, t)
    \/ RecordCompleted(p, t)
    \/ RecordedCompleted(p, t)

JanitorStep(j) ==
    \/ \E action \in {"stop", "cleanup"} : List(j, action)
    \/ \E n \in JobNames : Delete(j, n)
    \/ JanitorReturns(j)

Next ==
    \/ \E p \in Procs : Start(p) \/ Finish(p) \/ Crash(p)
    \/ \E p \in Procs, t \in Treatments : TreatmentStep(p, t)
    \/ \E j \in Janitors : JanitorStep(j)
    \/ \E n \in JobNames : JobEnds(n)

Spec == Init /\ [][Next]_vars

\* Under asyncio every ready coroutine runs, max_wait bounds a watch on the wall
\* clock, and the user answers approvals; nothing makes a process start or crash,
\* a Job end or another chat call its tool.
Fairness == \A p \in Procs :
    /\ WF_vars(Finish(p))
    /\ \A t \in Treatments : WF_vars(TreatmentStep(p, t))

FairSpec == Spec /\ Fairness

-----------------------------------------------------------------------------
(* What must hold.                                                         *)

\* Nothing happens to a Job behind the orchestrator's back.
ReliableCluster == Janitors = {} /\ Hazards \cap {"read", "apply"} = {}

Exists(n) == job[n] # "absent"

\* Attempts form a chain across every restart: a later attempt's Job exists only
\* if each earlier one failed with a transient fault.  So a treatment never has
\* two live Jobs, and neither a success nor a deterministic fault is retried
\* (run_with_retries; a resumed sweep adopts the Jobs it finds).
AttemptChain ==
    \A t \in Treatments : \A i, k \in Attempts :
        i < k /\ Exists(<<t, k>>) => job[<<t, i>>] \in Retryable

\* The outcome of treatment t is what one of its Jobs really came to; "unknown"
\* and "timeout" are also the watcher's own verdicts.
Justified(t, outcome) ==
    outcome \in {"timeout", "unknown"} \/ \E i \in Attempts : outcome \in ever[<<t, i>>]

\* Whatever fails around it, the checkpoint never claims an outcome that no Job
\* of the treatment had, nor does a sweep report one (record_completed, diagnose).
OutcomeTruthful ==
    \A t \in Treatments :
        /\ Completed(cm[t]) => Justified(t, cm[t])
        /\ \A p \in Procs :
            stage[p][t] \in {"concluded", "recording", "finished"} => Justified(t, found[p][t])

\* A Job in the cluster has a record in the checkpoint: an interruption mid-run
\* is visible there (_persist_in_flight runs before submit).
JobsAreMarked ==
    \A t \in Treatments, i \in Attempts : Exists(<<t, i>>) => cm[t] # "none"

\* When a sweep returns, the cluster holds the outcome of all its treatments and
\* it is the outcome reported (run_sweep's merged result covers all N).
SweepCoversAll ==
    [][\A p \in Procs : Finish(p) => \A t \in Treatments : cm[t] = found[p][t]]_vars

\* A sweep that is not interrupted returns: no slot, lock or attempt is held for
\* ever, whatever its Jobs do.
SweepEnds == \A p \in Procs : mode[p] = "sweeping" ~> mode[p] = "idle"

\* A completed record of the checkpoint is final: it is never marked in flight
\* again (checkpoint.py: "a completed treatment is never re-run").
CompletedStaysCompleted ==
    [][\A t \in Treatments : Completed(cm[t]) => cm'[t] = cm[t]]_vars

\* An attempt whose Job was seen running is not given up for a fresh one while that
\* Job runs: "vanished" means it was deleted, as watch()'s docstring says.
NoRetryOverLiveJob ==
    [][\A p \in Procs, t \in Treatments :
         (found[p][t] = "running" /\ att'[p][t] > att[p][t])
           => job[Current(p, t)] # "running"]_vars

\* A later attempt is launched only after the one before it came to an end by
\* itself: a Job that "stop" deleted is not started again under another name.
StoppedStaysStopped ==
    [][\A t \in Treatments, i \in Attempts :
         (i > 1 /\ ~Exists(<<t, i>>) /\ Exists(<<t, i>>)')
           => \E phase \in ever[<<t, i - 1>>] : Terminal(phase)]_vars

\* The sweep's promise, see SweepLedger.
ledger == INSTANCE SweepLedger WITH
    outcome  <- [t \in Treatments |-> IF Completed(cm[t]) THEN cm[t] ELSE "undecided"],
    launched <- {n \in JobNames : "running" \in ever[n]}
LedgerKept == ledger!Spec
=============================================================================
