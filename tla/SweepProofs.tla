------------------------------ MODULE SweepProofs ------------------------------
(* Theorems about SweepOrchestrator, for every value of its constants. *)
EXTENDS SweepOrchestrator, TLAPS

\* TypeOK is not inductive by itself: what _persist_completed records is a
\* terminal outcome only because a treatment concludes with one.
ConcludedFound ==
    \A p \in Procs, t \in Treatments : stage[p][t] = "concluded" => found[p][t] \in Outcomes
TypeInv == TypeOK /\ ConcludedFound

LEMMA TypeInit == Init => TypeInv
  BY SweepAssumption
     DEF Init, TypeInv, TypeOK, ConcludedFound, NoRecords, JobPhases, Records, Stages, Findings, Attempts

\* What the decision after a failed attempt does to a process' memory.
LEMMA AttemptFailedType ==
  ASSUME TypeInv, NEW p \in Procs, NEW t \in Treatments, NEW fault \in AllFaults,
         AttemptFailed(p, t, fault)
  PROVE  /\ stage' \in [Procs -> [Treatments -> Stages]]
         /\ found' \in [Procs -> [Treatments -> Findings]]
         /\ att' \in [Procs -> [Treatments -> Attempts]]
         /\ ConcludedFound'
<1> USE SweepAssumption DEF TypeInv, TypeOK
<1>1. CASE att[p][t] < MaxAttempts /\ fault \in Retryable
  <2>1. /\ att' = [att EXCEPT ![p][t] = att[p][t] + 1]
        /\ stage' = [stage EXCEPT ![p][t] = "submitting"]
        /\ found' = [found EXCEPT ![p][t] = "unseen"]
    BY <1>1 DEF AttemptFailed, MoveTo
  <2>2. att[p][t] + 1 \in Attempts
    BY <1>1 DEF Attempts
  <2>3. ConcludedFound'
    BY <2>1 DEF ConcludedFound
  <2> QED BY <2>1, <2>2, <2>3 DEF Stages, Findings
<1>2. CASE ~(att[p][t] < MaxAttempts /\ fault \in Retryable)
  <2>1. /\ UNCHANGED att
        /\ stage' = [stage EXCEPT ![p][t] = "concluded"]
        /\ found' = [found EXCEPT ![p][t] = fault]
    BY <1>2 DEF AttemptFailed, Conclude, MoveTo
  <2>2. fault \in Outcomes
    BY DEF Outcomes
  <2>3. ConcludedFound'
    BY <2>1, <2>2 DEF ConcludedFound
  <2> QED BY <2>1, <2>2, <2>3 DEF Stages, Findings
<1> QED BY <1>1, <1>2

LEMMA SetPhaseType ==
  ASSUME TypeOK, NEW n \in JobNames, NEW phase \in JobPhases, SetPhase(n, phase)
  PROVE  job' \in [JobNames -> JobPhases] /\ ever' \in [JobNames -> SUBSET JobPhases]
<1>1. job' \in [JobNames -> JobPhases]
  BY DEF SetPhase, TypeOK
<1>2. ever[n] \cup {phase} \in SUBSET JobPhases
  BY DEF TypeOK
<1> QED BY <1>1, <1>2 DEF SetPhase, TypeOK

LEMMA ApplyJobType ==
  ASSUME TypeOK, NEW n \in JobNames, ApplyJob(n) \/ UNCHANGED <<job, ever>>
  PROVE  job' \in [JobNames -> JobPhases] /\ ever' \in [JobNames -> SUBSET JobPhases]
<1>1. CASE SetPhase(n, "running")
  BY <1>1, SetPhaseType DEF JobPhases
<1>2. CASE UNCHANGED <<job, ever>>
  BY <1>2 DEF TypeOK
<1> QED BY <1>1, <1>2 DEF ApplyJob

LEMMA ReportedType ==
  ASSUME TypeOK, NEW n \in JobNames
  PROVE  Reported(n) \subseteq JobPhases
  BY DEF Reported, TypeOK, JobPhases

LEMMA CurrentName ==
  ASSUME TypeOK, NEW p \in Procs, NEW t \in Treatments
  PROVE  Current(p, t) \in JobNames
  BY DEF Current, JobNames, TypeOK

LEMMA TypeNext == TypeInv /\ [Next]_vars => TypeInv'
<1> SUFFICES ASSUME TypeInv, [Next]_vars PROVE TypeInv'
  OBVIOUS
<1> USE SweepAssumption DEF TypeInv, TypeOK
<1>1. ASSUME NEW p \in Procs, Start(p) PROVE TypeInv'
  <2>1. PICK records \in Loaded :
          /\ ck' = [ck EXCEPT ![p] = records]
          /\ stage' = [stage EXCEPT ![p] =
                [t \in Treatments |-> IF Completed(records[t]) THEN "finished" ELSE "queued"]]
          /\ found' = [found EXCEPT ![p] =
                [t \in Treatments |-> IF Completed(records[t]) THEN records[t] ELSE "unseen"]]
    BY <1>1 DEF Start
  <2>2. records \in [Treatments -> Records]
    BY DEF Loaded, NoRecords, Records
  <2>3. stage' \in [Procs -> [Treatments -> Stages]]
    BY <2>1 DEF Stages
  <2>4. found' \in [Procs -> [Treatments -> Findings]]
    BY <2>1, <2>2 DEF Findings, Completed
  <2>5. starts' \in 0..MaxStarts
    BY <1>1 DEF Start
  <2>6. mode' \in [Procs -> {"idle", "sweeping"}]
    BY <1>1 DEF Start
  <2>7. ConcludedFound'
    BY <2>1 DEF ConcludedFound
  <2> QED BY <1>1, <2>1, <2>2, <2>3, <2>4, <2>5, <2>6, <2>7 DEF Start, cluster, janitor
<1>2. ASSUME NEW p \in Procs, Forget(p) PROVE TypeInv'
  BY <1>2 DEF Forget, NoRecords, Stages, Findings, Records, Attempts, cluster, janitor, ConcludedFound
<1>3. ASSUME NEW p \in Procs, NEW t \in Treatments, Enter(p, t) PROVE TypeInv'
  BY <1>3 DEF Enter, Stages, cluster, janitor, ConcludedFound
<1>4. ASSUME NEW p \in Procs, NEW t \in Treatments, MarkInFlight(p, t) PROVE TypeInv'
  <2>1. InFlight(ck[p], t) \in [Treatments -> Records]
    BY DEF InFlight, Records
  <2> QED BY <1>4, <2>1 DEF MarkInFlight, BeginWrite, Stages, cluster, janitor, ConcludedFound
<1>5. ASSUME NEW p \in Procs, NEW t \in Treatments, RecordCompleted(p, t) PROVE TypeInv'
  <2>1. [ck[p] EXCEPT ![t] = found[p][t]] \in [Treatments -> Records]
    BY <1>5 DEF RecordCompleted, Sweeping, ConcludedFound, Records
  <2> QED BY <1>5, <2>1 DEF RecordCompleted, BeginWrite, Stages, cluster, janitor, ConcludedFound
<1>6. ASSUME NEW p \in Procs, NEW t \in Treatments, NEW from, NEW next \in {"submitting", "finished"},
             EndWrite(p, t, from, next)
      PROVE  TypeInv'
  BY <1>6 DEF EndWrite, Stages, NoRecords, Records, janitor, ConcludedFound
<1>7. ASSUME NEW p \in Procs, NEW t \in Treatments, Submit(p, t) PROVE TypeInv'
  <2>1. job' \in [JobNames -> JobPhases] /\ ever' \in [JobNames -> SUBSET JobPhases]
    BY <1>7, ApplyJobType, CurrentName DEF Submit
  <2> QED BY <1>7, <2>1 DEF Submit, MoveTo, Stages, Findings, janitor, ConcludedFound
<1>8. ASSUME NEW p \in Procs, NEW t \in Treatments, SubmitDeclined(p, t) PROVE TypeInv'
  BY <1>8 DEF SubmitDeclined, Conclude, MoveTo, Stages, Findings, Outcomes, AllFaults,
              cluster, janitor, ConcludedFound
<1>9. ASSUME NEW p \in Procs, NEW t \in Treatments, Poll(p, t) PROVE TypeInv'
  <2>1. PICK phase \in Reported(Current(p, t)) :
        \/ /\ phase = "running"
           /\ MoveTo(p, t, "watching", "running")
           /\ UNCHANGED att
        \/ /\ phase = "succeeded"
           /\ Conclude(p, t, "succeeded")
        \/ /\ phase \in JobFaults
           /\ MoveTo(p, t, "diagnosing", IF phase = "timeout" THEN "timeout" ELSE "failed")
           /\ UNCHANGED att
        \/ /\ phase = "absent" /\ found[p][t] = "running"
           /\ AttemptFailed(p, t, "unknown")
    BY <1>9 DEF Poll
  <2>2. CASE AttemptFailed(p, t, "unknown")
    <3>1. "unknown" \in AllFaults
      BY DEF AllFaults
    <3> QED BY <1>9, <2>2, <3>1, AttemptFailedType DEF Poll, cluster, janitor
  <2>3. CASE Conclude(p, t, "succeeded")
    BY <1>9, <2>3 DEF Poll, Conclude, MoveTo, Stages, Findings, Outcomes, cluster, janitor, ConcludedFound
  <2>4. ASSUME NEW s \in {"watching", "diagnosing"}, NEW f \in {"running", "failed", "timeout"},
               MoveTo(p, t, s, f), UNCHANGED att
        PROVE  TypeInv'
    BY <1>9, <2>4 DEF Poll, MoveTo, Stages, Findings, Outcomes, AllFaults, cluster, janitor, ConcludedFound
  <2> QED BY <2>1, <2>2, <2>3, <2>4
<1>10. ASSUME NEW p \in Procs, NEW t \in Treatments, WatchTimesOut(p, t) PROVE TypeInv'
  <2>1. PICK fault \in {"timeout", "unknown"} : AttemptFailed(p, t, fault)
    BY <1>10 DEF WatchTimesOut
  <2>2. fault \in AllFaults
    BY DEF AllFaults
  <2> QED BY <1>10, <2>1, <2>2, AttemptFailedType DEF WatchTimesOut, cluster, janitor
<1>11. ASSUME NEW p \in Procs, NEW t \in Treatments, Diagnose(p, t) PROVE TypeInv'
  <2>1. PICK fault \in AllFaults : AttemptFailed(p, t, fault)
    <3>1. PICK phase \in Reported(Current(p, t)) :
            AttemptFailed(p, t, IF found[p][t] = "timeout" THEN "timeout"
                                ELSE IF phase \in JobFaults \ {"timeout"} THEN phase
                                ELSE "unknown")
      BY <1>11 DEF Diagnose
    <3>2. (IF found[p][t] = "timeout" THEN "timeout"
           ELSE IF phase \in JobFaults \ {"timeout"} THEN phase ELSE "unknown") \in AllFaults
      BY DEF AllFaults
    <3> QED BY <3>1, <3>2
  <2> QED BY <1>11, <2>1, AttemptFailedType DEF Diagnose, cluster, janitor
<1>12. ASSUME NEW j \in Janitors, JanitorStep(j) PROVE TypeInv'
  <2>1. ASSUME NEW action \in {"stop", "cleanup"}, List(j, action) PROVE TypeInv'
    <3> DEFINE selection == {n \in JobNames : Selected(action, job[n])}
    <3>1. selection \in SUBSET JobNames
      OBVIOUS
    <3> HIDE DEF selection
    <3>2. todo' = [todo EXCEPT ![j] = selection] \/ UNCHANGED todo
      BY <2>1 DEF List, selection
    <3>3. todo' \in [Janitors -> SUBSET JobNames]
      BY <3>1, <3>2
    <3>4. janitorRuns' \in 0..MaxJanitorRuns
      BY <2>1 DEF List
    <3> QED BY <2>1, <3>3, <3>4 DEF List, cluster, memory, ConcludedFound
  <2>2. ASSUME NEW n \in JobNames, Delete(j, n) PROVE TypeInv'
    BY <2>2 DEF Delete, memory, JobPhases, ConcludedFound
  <2>3. CASE JanitorReturns(j)
    BY <2>3 DEF JanitorReturns, cluster, memory, ConcludedFound
  <2> QED BY <1>12, <2>1, <2>2, <2>3 DEF JanitorStep
<1>13. ASSUME NEW n \in JobNames, JobEnds(n) PROVE TypeInv'
  BY <1>13 DEF JobEnds, SetPhase, memory, janitor, JobPhases, ConcludedFound
<1>14. CASE UNCHANGED vars
  BY <1>14 DEF vars, cluster, memory, janitor, ConcludedFound
<1> QED
  BY <1>1, <1>2, <1>3, <1>4, <1>5, <1>6, <1>7, <1>8, <1>9, <1>10, <1>11, <1>12, <1>13, <1>14
     DEF Next, TreatmentStep, Finish, Crash, MarkedInFlight, RecordedCompleted

\* Every variable keeps its type, whatever the hazards.
THEOREM TypeCorrect == Spec => []TypeOK
<1>1. TypeInv => TypeOK
  BY DEF TypeInv
<1> QED BY <1>1, TypeInit, TypeNext, PTL DEF Spec

-----------------------------------------------------------------------------
(* Outcomes are truthful, whatever the hazards.                            *)

\* A Job's phase is in its history.
Names == \A n \in JobNames : Exists(n) => job[n] \in ever[n]
\* Every copy of a record (ConfigMap, memory, rendered manifest) and every
\* coroutine past its watch holds an outcome that a Job really had.
Config == \A t \in Treatments : Completed(cm[t]) => Justified(t, cm[t])
Memory ==
    \A p \in Procs, t \in Treatments :
        /\ Completed(ck[p][t]) => Justified(t, ck[p][t])
        /\ \A u \in Treatments :
             Completed(manifest[p][t][u]) => Justified(u, manifest[p][t][u])
Found ==
    \A p \in Procs, t \in Treatments :
        stage[p][t] \in {"concluded", "recording", "finished"} => Justified(t, found[p][t])

TruthInv == Names /\ Config /\ Memory /\ Found

LEMMA TruthInit == Init => TruthInv
  BY DEF Init, TruthInv, Names, Config, Memory, Found, NoRecords, Completed, Outcomes, AllFaults, Exists

\* The history of a Job name only grows, so a justified outcome stays justified.
LEMMA EverGrows ==
  ASSUME TypeOK, [Next]_vars
  PROVE  \A n \in JobNames : ever[n] \subseteq ever'[n]
<1>1. ASSUME NEW n \in JobNames, NEW phase, SetPhase(n, phase) PROVE ever'[n] = ever[n] \cup {phase} /\ \A m \in JobNames \ {n} : ever'[m] = ever[m]
  BY <1>1 DEF SetPhase, TypeOK
<1>2. ASSUME NEW n \in JobNames, JobEnds(n) PROVE \A m \in JobNames : ever[m] \subseteq ever'[m]
  BY <1>1, <1>2 DEF JobEnds
<1>3. ASSUME NEW p \in Procs, NEW t \in Treatments, Submit(p, t) PROVE \A m \in JobNames : ever[m] \subseteq ever'[m]
  BY <1>1, <1>3, CurrentName DEF Submit, ApplyJob
<1>4. ASSUME UNCHANGED ever PROVE \A m \in JobNames : ever[m] \subseteq ever'[m]
  BY <1>4
<1> QED
  BY <1>2, <1>3, <1>4
     DEF Next, TreatmentStep, JanitorStep, vars, cluster, Start, Finish, Crash, Forget, Enter, MarkInFlight,
         RecordCompleted, BeginWrite, MarkedInFlight, RecordedCompleted, EndWrite, SubmitDeclined, Poll,
         WatchTimesOut, Diagnose, List, Delete, JanitorReturns

LEMMA JustifiedStays ==
  ASSUME TypeOK, [Next]_vars, NEW t \in Treatments, NEW outcome, Justified(t, outcome)
  PROVE  Justified(t, outcome)'
  BY EverGrows DEF Justified, JobNames

\* What a failed attempt leaves behind is justified if the fault is.
LEMMA AttemptFailedTruth ==
  ASSUME TypeInv, TruthInv, [Next]_vars, NEW p \in Procs, NEW t \in Treatments, NEW fault,
         AttemptFailed(p, t, fault), Justified(t, fault)
  PROVE  Found'
<1> USE DEF TypeInv, TypeOK
<1>1. CASE /\ stage' = [stage EXCEPT ![p][t] = "submitting"]
           /\ found' = [found EXCEPT ![p][t] = "unseen"]
  BY <1>1, JustifiedStays DEF TruthInv, Found
<1>2. CASE /\ stage' = [stage EXCEPT ![p][t] = "concluded"]
           /\ found' = [found EXCEPT ![p][t] = fault]
  BY <1>2, JustifiedStays DEF TruthInv, Found
<1> QED BY <1>1, <1>2 DEF AttemptFailed, Conclude, MoveTo

LEMMA TruthNext == TypeInv /\ TruthInv /\ [Next]_vars => TruthInv'
<1> SUFFICES ASSUME TypeInv, TruthInv, [Next]_vars PROVE TruthInv'
  OBVIOUS
<1> USE DEF TypeInv, TypeOK
<1>0. Names /\ Config /\ Memory /\ Found
  BY DEF TruthInv
<1>a. UNCHANGED <<job, ever>> => Names'
  BY <1>0 DEF Names, Exists
<1>b. UNCHANGED cm => Config'
  BY <1>0, JustifiedStays DEF Config, Completed
<1>c. UNCHANGED <<ck, manifest>> => Memory'
  BY <1>0, JustifiedStays DEF Memory, Completed
<1>d. UNCHANGED <<stage, found>> => Found'
  BY <1>0, JustifiedStays DEF Found
<1>1. ASSUME NEW p \in Procs, Start(p) PROVE TruthInv'
  <2>1. PICK records \in Loaded :
          /\ ck' = [ck EXCEPT ![p] = records]
          /\ stage' = [stage EXCEPT ![p] =
                [t \in Treatments |-> IF Completed(records[t]) THEN "finished" ELSE "queued"]]
          /\ found' = [found EXCEPT ![p] =
                [t \in Treatments |-> IF Completed(records[t]) THEN records[t] ELSE "unseen"]]
    BY <1>1 DEF Start
  <2>2. \A t \in Treatments : Completed(records[t]) => Justified(t, records[t])'
    BY <1>0, JustifiedStays DEF Loaded, NoRecords, Completed, Outcomes, AllFaults, Config
  <2>3. Memory'
    BY <1>0, <1>1, <2>1, <2>2, JustifiedStays DEF Start, Memory
  <2>4. Found'
    BY <1>0, <2>1, <2>2, JustifiedStays DEF Found
  <2> QED BY <1>1, <1>a, <1>b, <2>3, <2>4 DEF TruthInv, Start, cluster
<1>2. ASSUME NEW p \in Procs, Forget(p) PROVE TruthInv'
  <2>1. Memory'
    BY <1>0, <1>2, JustifiedStays DEF Forget, Memory, NoRecords, Completed, Outcomes, AllFaults
  <2>2. Found'
    BY <1>0, <1>2, JustifiedStays DEF Forget, Found
  <2> QED BY <1>2, <1>a, <1>b, <2>1, <2>2 DEF TruthInv, Forget, cluster
<1>3. ASSUME NEW p \in Procs, NEW t \in Treatments, Enter(p, t) PROVE TruthInv'
  <2>1. Found'
    BY <1>0, <1>3, JustifiedStays DEF Enter, Found
  <2> QED BY <1>3, <1>a, <1>b, <1>c, <2>1 DEF TruthInv, Enter, cluster
<1>4. ASSUME NEW p \in Procs, NEW t \in Treatments, NEW records \in [Treatments -> Records],
             NEW next \in {"marking", "recording"}, BeginWrite(p, t, records, next),
             next = "recording" => stage[p][t] = "concluded",
             \A u \in Treatments : Completed(records[u]) => Justified(u, records[u])
      PROVE  TruthInv'
  <2>1. Memory'
    BY <1>0, <1>4, JustifiedStays DEF BeginWrite, Memory
  <2>2. Found'
    BY <1>0, <1>4, JustifiedStays DEF BeginWrite, Found
  <2> QED BY <1>4, <1>a, <1>b, <2>1, <2>2 DEF TruthInv, BeginWrite, cluster
<1>5. ASSUME NEW p \in Procs, NEW t \in Treatments, MarkInFlight(p, t) PROVE TruthInv'
  <2>1. InFlight(ck[p], t) \in [Treatments -> Records]
    BY DEF InFlight, Records
  <2>2. \A u \in Treatments : Completed(InFlight(ck[p], t)[u]) => Justified(u, InFlight(ck[p], t)[u])
    BY <1>0 DEF InFlight, Memory, Completed, Outcomes, AllFaults
  <2> QED BY <1>4, <1>5, <2>1, <2>2 DEF MarkInFlight
<1>6. ASSUME NEW p \in Procs, NEW t \in Treatments, RecordCompleted(p, t) PROVE TruthInv'
  <2> DEFINE records == [ck[p] EXCEPT ![t] = found[p][t]]
  <2>1. records \in [Treatments -> Records]
    BY <1>6 DEF RecordCompleted, Sweeping, ConcludedFound, Records
  <2>2. \A u \in Treatments : Completed(records[u]) => Justified(u, records[u])
    BY <1>0, <1>6 DEF RecordCompleted, Sweeping, Memory, Found
  <2> QED BY <1>4, <1>6, <2>1, <2>2 DEF RecordCompleted, Sweeping
<1>7. ASSUME NEW p \in Procs, NEW t \in Treatments, NEW from,
             NEW next \in {"submitting", "finished"}, EndWrite(p, t, from, next),
             next = "finished" => from = "recording"
      PROVE  TruthInv'
  <2>1. Config'
    BY <1>0, <1>7, JustifiedStays DEF EndWrite, Config, Memory
  <2>2. Memory'
    BY <1>0, <1>7, JustifiedStays DEF EndWrite, Memory, NoRecords, Completed, Outcomes, AllFaults
  <2>3. Found'
    BY <1>0, <1>7, JustifiedStays DEF EndWrite, Found
  <2> QED BY <1>7, <1>a, <2>1, <2>2, <2>3 DEF TruthInv, EndWrite
<1>8. ASSUME NEW n \in JobNames, NEW phase, SetPhase(n, phase) PROVE Names'
  BY <1>0, <1>8 DEF SetPhase, Names, Exists
<1>9. ASSUME NEW p \in Procs, NEW t \in Treatments, Submit(p, t) PROVE TruthInv'
  <2>1. Names'
    BY <1>8, <1>9, <1>a, CurrentName DEF Submit, ApplyJob
  <2>2. Found'
    BY <1>0, <1>9, JustifiedStays DEF Submit, MoveTo, Found
  <2> QED BY <1>9, <1>b, <1>c, <2>1, <2>2 DEF TruthInv, Submit
<1>10. ASSUME NEW p \in Procs, NEW t \in Treatments, SubmitDeclined(p, t) PROVE TruthInv'
  <2>1. Justified(t, "unknown")'
    BY DEF Justified
  <2>2. Found'
    BY <1>0, <1>10, <2>1, JustifiedStays DEF SubmitDeclined, Conclude, MoveTo, Found
  <2> QED BY <1>10, <1>a, <1>b, <1>c, <2>2 DEF TruthInv, SubmitDeclined, cluster
\* What a poll, a watch's end or a diagnosis reads of a Job is in its history.
<1>11. ASSUME NEW p \in Procs, NEW t \in Treatments, NEW phase \in Reported(Current(p, t)),
              phase # "absent"
       PROVE  Justified(t, phase)
  <2>1. Current(p, t) \in JobNames /\ att[p][t] \in Attempts
    BY CurrentName
  <2>2. phase \in ever[Current(p, t)]
    BY <1>0, <1>11, <2>1 DEF Reported, Names, Exists
  <2> QED BY <2>1, <2>2 DEF Justified, Current
<1>12. ASSUME NEW p \in Procs, NEW t \in Treatments, NEW fault, AttemptFailed(p, t, fault), Justified(t, fault)
       PROVE  Found'
  BY <1>12, AttemptFailedTruth
<1>13. ASSUME NEW p \in Procs, NEW t \in Treatments, Poll(p, t) PROVE TruthInv'
  <2>1. PICK phase \in Reported(Current(p, t)) :
        \/ /\ phase = "running"
           /\ MoveTo(p, t, "watching", "running")
           /\ UNCHANGED att
        \/ /\ phase = "succeeded"
           /\ Conclude(p, t, "succeeded")
        \/ /\ phase \in JobFaults
           /\ MoveTo(p, t, "diagnosing", IF phase = "timeout" THEN "timeout" ELSE "failed")
           /\ UNCHANGED att
        \/ /\ phase = "absent" /\ found[p][t] = "running"
           /\ AttemptFailed(p, t, "unknown")
    BY <1>13 DEF Poll
  <2>2. Found'
    <3>1. CASE AttemptFailed(p, t, "unknown")
      <4>1. Justified(t, "unknown")
        BY DEF Justified
      <4> QED BY <1>12, <3>1, <4>1
    <3>2. CASE phase = "succeeded" /\ Conclude(p, t, "succeeded")
      <4>1. Justified(t, "succeeded")'
        BY <1>11, <3>2, JustifiedStays
      <4> QED BY <1>0, <3>2, <4>1, JustifiedStays DEF Conclude, MoveTo, Found
    <3>3. ASSUME NEW s \in {"watching", "diagnosing"}, NEW f, MoveTo(p, t, s, f) PROVE Found'
      BY <1>0, <3>3, JustifiedStays DEF MoveTo, Found
    <3> QED BY <2>1, <3>1, <3>2, <3>3
  <2> QED BY <1>13, <1>a, <1>b, <1>c, <2>2 DEF TruthInv, Poll, cluster
<1>14. ASSUME NEW p \in Procs, NEW t \in Treatments, WatchTimesOut(p, t) PROVE TruthInv'
  <2>1. PICK fault \in {"timeout", "unknown"} : AttemptFailed(p, t, fault)
    BY <1>14 DEF WatchTimesOut
  <2>2. Justified(t, fault)
    BY DEF Justified
  <2> QED BY <1>12, <1>14, <1>a, <1>b, <1>c, <2>1, <2>2 DEF TruthInv, WatchTimesOut, cluster
<1>15. ASSUME NEW p \in Procs, NEW t \in Treatments, Diagnose(p, t) PROVE TruthInv'
  <2>1. PICK phase \in Reported(Current(p, t)) :
          AttemptFailed(p, t, IF found[p][t] = "timeout" THEN "timeout"
                              ELSE IF phase \in JobFaults \ {"timeout"} THEN phase
                              ELSE "unknown")
    BY <1>15 DEF Diagnose
  <2> DEFINE fault == IF found[p][t] = "timeout" THEN "timeout"
                      ELSE IF phase \in JobFaults \ {"timeout"} THEN phase
                      ELSE "unknown"
  <2>2. Justified(t, fault)
    BY <1>11, SweepAssumption DEF Justified, AllFaults
  <2>3. AttemptFailed(p, t, fault)
    BY <2>1
  <2> HIDE DEF fault
  <2> QED BY <1>12, <1>15, <1>a, <1>b, <1>c, <2>2, <2>3 DEF TruthInv, Diagnose, cluster
<1>16. ASSUME NEW j \in Janitors, JanitorStep(j) PROVE TruthInv'
  <2>1. ASSUME NEW n \in JobNames, Delete(j, n) PROVE TruthInv'
    <3>1. Names'
      BY <1>0, <2>1 DEF Delete, Names, Exists
    <3> QED BY <1>b, <1>c, <1>d, <2>1, <3>1 DEF TruthInv, Delete, memory
  <2>2. ASSUME UNCHANGED <<cluster, memory>> PROVE TruthInv'
    BY <1>0, <1>a, <1>b, <1>c, <1>d, <2>2 DEF TruthInv, cluster, memory
  <2> QED BY <1>16, <2>1, <2>2 DEF JanitorStep, List, JanitorReturns
<1>17. ASSUME NEW n \in JobNames, JobEnds(n) PROVE TruthInv'
  <2>1. Names'
    BY <1>8, <1>17 DEF JobEnds
  <2> QED BY <1>17, <1>b, <1>c, <1>d, <2>1 DEF TruthInv, JobEnds, memory
<1>18. CASE UNCHANGED vars
  BY <1>0, <1>18, <1>a, <1>b, <1>c, <1>d DEF TruthInv, vars, cluster, memory
<1> QED
  BY <1>1, <1>2, <1>3, <1>5, <1>6, <1>7, <1>9, <1>10, <1>13, <1>14, <1>15, <1>16, <1>17, <1>18
     DEF Next, TreatmentStep, Finish, Crash, MarkedInFlight, RecordedCompleted

\* No outcome is ever recorded or reported that no Job of the treatment had,
\* whatever the hazards, callers and janitors.
THEOREM OutcomesTruthful == Spec => []OutcomeTruthful
<1>1. TruthInv => OutcomeTruthful
  BY DEF TruthInv, Config, Found, OutcomeTruthful
<1> QED BY <1>1, TypeInit, TypeNext, TruthInit, TruthNext, PTL DEF Spec

-----------------------------------------------------------------------------
(* Attempts form a chain, if nothing happens behind the orchestrator's back. *)

\* Every earlier attempt of a coroutine failed with a transient fault.
Retried ==
    \A p \in Procs, t \in Treatments : \A i \in Attempts :
        i < att[p][t] => job[<<t, i>>] \in Retryable
\* What a coroutine watches exists.
Watched ==
    \A p \in Procs, t \in Treatments :
        stage[p][t] \in {"watching", "diagnosing"} => Exists(Current(p, t))
\* What a coroutine diagnoses failed, by its deadline or with a fault of its pods.
Failed ==
    \A p \in Procs, t \in Treatments :
        stage[p][t] = "diagnosing" =>
            IF found[p][t] = "timeout" THEN job[Current(p, t)] = "timeout"
            ELSE job[Current(p, t)] \in JobFaults \ {"timeout"}

ChainInv == AttemptChain /\ Retried /\ Watched /\ Failed

LEMMA ChainInit == Init => ChainInv
  BY DEF Init, ChainInv, AttemptChain, Retried, Watched, Failed, Exists, Attempts, JobNames

\* The decision after a failed attempt, when the fault is the Job's own.
LEMMA AttemptFailedChain ==
  ASSUME TypeInv, ChainInv, NEW p \in Procs, NEW t \in Treatments, NEW fault,
         AttemptFailed(p, t, fault), fault \in Retryable => job[Current(p, t)] = fault,
         UNCHANGED job
  PROVE  ChainInv'
<1> USE DEF TypeInv, TypeOK
<1>1. AttemptChain'
  BY DEF ChainInv, AttemptChain, Exists
<1>2. CASE att[p][t] < MaxAttempts /\ fault \in Retryable
  <2>1. /\ att' = [att EXCEPT ![p][t] = att[p][t] + 1]
        /\ stage' = [stage EXCEPT ![p][t] = "submitting"]
        /\ found' = [found EXCEPT ![p][t] = "unseen"]
    BY <1>2 DEF AttemptFailed, MoveTo
  <2>2. Retried'
    <3> SUFFICES ASSUME NEW q \in Procs, NEW u \in Treatments, NEW i \in Attempts,
                        i < att'[q][u]
                 PROVE  job[<<u, i>>] \in Retryable
      BY DEF Retried
    <3>1. CASE i < att[q][u]
      BY <3>1 DEF ChainInv, Retried
    <3>2. CASE q = p /\ u = t /\ i = att[p][t]
      BY <1>2, <3>2 DEF Current
    <3>3. att'[q][u] = IF q = p /\ u = t THEN att[p][t] + 1 ELSE att[q][u]
      BY <2>1
    <3>4. att[p][t] \in Nat /\ att[q][u] \in Nat /\ i \in Nat
      BY SweepAssumption DEF Attempts
    <3>5. i < att[q][u] \/ (q = p /\ u = t /\ i = att[p][t])
      <4>1. CASE q = p /\ u = t
        <5>1. i < att[p][t] + 1
          BY <3>3, <4>1
        <5>2. \A a, b \in Nat : b < a + 1 => b < a \/ b = a
          OBVIOUS
        <5>3. i < att[p][t] \/ i = att[p][t]
          BY <3>4, <5>1, <5>2
        <5> QED BY <4>1, <5>3
      <4>2. CASE ~(q = p /\ u = t)
        BY <3>3, <4>2
      <4> QED BY <4>1, <4>2
    <3> QED BY <3>1, <3>2, <3>5
  <2>3. Watched' /\ Failed'
    BY <2>1 DEF ChainInv, Watched, Failed, Current, Exists
  <2> QED BY <1>1, <2>2, <2>3 DEF ChainInv
<1>3. CASE ~(att[p][t] < MaxAttempts /\ fault \in Retryable)
  <2>1. /\ UNCHANGED att
        /\ stage' = [stage EXCEPT ![p][t] = "concluded"]
        /\ found' = [found EXCEPT ![p][t] = fault]
    BY <1>3 DEF AttemptFailed, Conclude, MoveTo
  <2>2. Retried' /\ Watched' /\ Failed'
    BY <2>1 DEF ChainInv, Retried, Watched, Failed, Current, Exists
  <2> QED BY <1>1, <2>2 DEF ChainInv
<1> QED BY <1>2, <1>3

\* A step that leaves the Jobs alone, and each coroutine either alone or in a
\* stage in which it watches nothing, on the same attempt or on its first.
LEMMA QuietChain ==
  ASSUME TypeInv, ChainInv, UNCHANGED job,
         \A q \in Procs, u \in Treatments :
            /\ att'[q][u] \in {att[q][u], 1}
            /\ \/ stage'[q][u] \notin {"watching", "diagnosing"}
               \/ /\ stage'[q][u] = stage[q][u] /\ found'[q][u] = found[q][u]
                  /\ att'[q][u] = att[q][u]
  PROVE  ChainInv'
<1> USE DEF TypeInv, TypeOK
<1>1. AttemptChain'
  BY DEF ChainInv, AttemptChain, Exists
<1>2. Retried'
  <2> SUFFICES ASSUME NEW q \in Procs, NEW u \in Treatments, NEW i \in Attempts,
                      i < att'[q][u]
               PROVE  job[<<u, i>>] \in Retryable
    BY DEF Retried
  <2>1. att'[q][u] = att[q][u]
    BY DEF Attempts
  <2> QED BY <2>1 DEF ChainInv, Retried
<1>3. Watched' /\ Failed'
  BY DEF ChainInv, Watched, Failed, Current, Exists
<1> QED BY <1>1, <1>2, <1>3 DEF ChainInv

LEMMA ChainNext ==
  ASSUME ReliableCluster, TypeInv, ChainInv, [Next]_vars
  PROVE  ChainInv'
<1> USE DEF TypeInv, TypeOK
<1>0. \A n \in JobNames : Reported(n) = {job[n]}
  BY DEF Reported, ReliableCluster
<1>1. ASSUME NEW p \in Procs, Start(p) \/ Forget(p) PROVE ChainInv'
  <2>1. \A q \in Procs, u \in Treatments :
            /\ att'[q][u] \in {att[q][u], 1}
            /\ \/ stage'[q][u] \notin {"watching", "diagnosing"}
               \/ /\ stage'[q][u] = stage[q][u] /\ found'[q][u] = found[q][u]
                  /\ att'[q][u] = att[q][u]
    <3>1. CASE Forget(p)
      BY <3>1 DEF Forget
    <3>2. CASE Start(p)
      BY <3>2 DEF Start
    <3> QED BY <1>1, <3>1, <3>2
  <2>2. UNCHANGED job
    BY <1>1 DEF Start, Forget, cluster
  <2> QED BY <2>1, <2>2, QuietChain
<1>2. ASSUME NEW p \in Procs, NEW t \in Treatments,
             \/ Enter(p, t) \/ MarkInFlight(p, t) \/ RecordCompleted(p, t)
             \/ MarkedInFlight(p, t) \/ RecordedCompleted(p, t)
      PROVE  ChainInv'
  <2>1. UNCHANGED <<job, att, found>>
    BY <1>2 DEF Enter, MarkInFlight, RecordCompleted, BeginWrite, MarkedInFlight,
                RecordedCompleted, EndWrite, cluster
  <2>2. \E s \in {"entered", "marking", "recording", "submitting", "finished"} :
           stage' = [stage EXCEPT ![p][t] = s]
    BY <1>2 DEF Enter, MarkInFlight, RecordCompleted, BeginWrite, MarkedInFlight,
                RecordedCompleted, EndWrite
  <2> QED BY <2>1, <2>2, QuietChain
<1>3. ASSUME NEW p \in Procs, NEW t \in Treatments, Submit(p, t) PROVE ChainInv'
  <2> DEFINE n == Current(p, t)
  <2>1. n \in JobNames /\ n = <<t, att[p][t]>> /\ att[p][t] \in Attempts
    BY CurrentName DEF Current
  <2>2. /\ ApplyJob(n)
        /\ stage' = [stage EXCEPT ![p][t] = "watching"]
        /\ UNCHANGED att
    BY <1>3 DEF Submit, MoveTo, ReliableCluster
  <2>3. job'[n] # "absent" /\ \A m \in JobNames : Exists(m) => job'[m] = job[m]
    BY <2>1, <2>2 DEF ApplyJob, SetPhase, Exists
  <2>4. \A m \in JobNames : job'[m] # "absent" => Exists(m) \/ m = n
    BY <2>1, <2>2 DEF ApplyJob, SetPhase, Exists
  <2>5. \A i \in Attempts : i < att[p][t] => job[<<t, i>>] \in Retryable
    BY DEF ChainInv, Retried
  <2>6. \A m \in JobNames : job[m] \in Retryable => job'[m] = job[m]
    BY <2>3 DEF Retryable, Exists
  <2>7. AttemptChain'
    <3> SUFFICES ASSUME NEW u \in Treatments, NEW i \in Attempts, NEW k \in Attempts,
                        i < k, Exists(<<u, k>>)'
                 PROVE  job'[<<u, i>>] \in Retryable
      BY DEF AttemptChain
    <3>1. <<u, i>> \in JobNames /\ <<u, k>> \in JobNames
      BY DEF JobNames
    <3>2. CASE Exists(<<u, k>>)
      BY <2>6, <3>1, <3>2 DEF ChainInv, AttemptChain
    <3>3. CASE <<u, k>> = n
      BY <2>1, <2>5, <2>6, <3>1, <3>3
    <3> QED BY <2>4, <3>1, <3>2, <3>3 DEF Exists
  <2>8. Retried'
    BY <2>2, <2>6 DEF ChainInv, Retried, JobNames
  <2>9. Watched'
    <3> SUFFICES ASSUME NEW q \in Procs, NEW u \in Treatments,
                        stage'[q][u] \in {"watching", "diagnosing"}
                 PROVE  Exists(Current(q, u))'
      BY DEF Watched
    <3>1. Current(q, u)' = Current(q, u) /\ Current(q, u) \in JobNames
      BY <2>2, CurrentName DEF Current
    <3>2. CASE q = p /\ u = t
      BY <2>3, <3>1, <3>2 DEF Exists
    <3>3. CASE ~(q = p /\ u = t)
      <4>1. stage'[q][u] = stage[q][u]
        BY <2>2, <3>3
      <4>2. Exists(Current(q, u))
        BY <4>1 DEF ChainInv, Watched
      <4> QED BY <2>3, <3>1, <4>2 DEF Exists
    <3> QED BY <3>2, <3>3
  <2>10. Failed'
    <3> SUFFICES ASSUME NEW q \in Procs, NEW u \in Treatments, stage'[q][u] = "diagnosing"
                 PROVE  IF found'[q][u] = "timeout" THEN job'[Current(q, u)'] = "timeout"
                        ELSE job'[Current(q, u)'] \in JobFaults \ {"timeout"}
      BY DEF Failed
    <3>1. Current(q, u)' = Current(q, u) /\ Current(q, u) \in JobNames
      BY <2>2, CurrentName DEF Current
    <3>2. stage[q][u] = "diagnosing" /\ found'[q][u] = found[q][u]
      BY <1>3, <2>2 DEF Submit, MoveTo
    <3>3. Exists(Current(q, u))
      BY <3>2 DEF ChainInv, Watched
    <3> QED BY <2>3, <3>1, <3>2, <3>3 DEF ChainInv, Failed
  <2> QED BY <2>7, <2>8, <2>9, <2>10 DEF ChainInv
<1>4. ASSUME NEW p \in Procs, NEW t \in Treatments, SubmitDeclined(p, t) PROVE ChainInv'
  <2>1. UNCHANGED <<job, att>> /\ MoveTo(p, t, "concluded", "unknown")
    BY <1>4 DEF SubmitDeclined, Conclude, cluster
  <2> QED BY <2>1, QuietChain DEF MoveTo
<1>5. ASSUME NEW p \in Procs, NEW t \in Treatments, Poll(p, t) PROVE ChainInv'
  <2>1. Current(p, t) \in JobNames /\ job[Current(p, t)] # "absent" /\ UNCHANGED job
    BY <1>5, CurrentName DEF Poll, Sweeping, ChainInv, Watched, Exists, cluster
  <2> DEFINE phase == job[Current(p, t)]
  <2>2. \/ phase = "running" /\ MoveTo(p, t, "watching", "running") /\ UNCHANGED att
        \/ Conclude(p, t, "succeeded")
        \/ /\ phase \in JobFaults
           /\ MoveTo(p, t, "diagnosing", IF phase = "timeout" THEN "timeout" ELSE "failed")
           /\ UNCHANGED att
    BY <1>0, <1>5, <2>1 DEF Poll
  <2>3. CASE Conclude(p, t, "succeeded")
    BY <2>1, <2>3, QuietChain DEF Conclude, MoveTo
  <2>4. ASSUME NEW s \in {"watching", "diagnosing"}, NEW f, MoveTo(p, t, s, f), UNCHANGED att,
               s = "diagnosing" => /\ phase \in JobFaults
                                   /\ f = (IF phase = "timeout" THEN "timeout" ELSE "failed")
        PROVE  ChainInv'
    <3>1. AttemptChain' /\ Retried'
      BY <2>1, <2>4 DEF ChainInv, AttemptChain, Retried, Exists
    <3>2. Watched'
      BY <2>1, <2>4 DEF ChainInv, Watched, MoveTo, Current, Exists
    <3>3. Failed'
      <4> SUFFICES ASSUME NEW q \in Procs, NEW u \in Treatments, stage'[q][u] = "diagnosing"
                   PROVE  IF found'[q][u] = "timeout" THEN job'[Current(q, u)'] = "timeout"
                          ELSE job'[Current(q, u)'] \in JobFaults \ {"timeout"}
        BY DEF Failed
      <4>1. job'[Current(q, u)'] = job[Current(q, u)]
        BY <2>1, <2>4 DEF Current
      <4>2. CASE q = p /\ u = t
        <5>1. stage'[p][t] = s /\ found'[p][t] = f
          BY <2>4 DEF MoveTo, TypeOK
        <5> QED BY <2>4, <4>1, <4>2, <5>1
      <4>3. CASE ~(q = p /\ u = t)
        <5>1. stage'[q][u] = stage[q][u] /\ found'[q][u] = found[q][u]
          BY <2>4, <4>3 DEF MoveTo, TypeOK
        <5> QED BY <4>1, <5>1 DEF ChainInv, Failed
      <4> QED BY <4>2, <4>3
    <3> QED BY <3>1, <3>2, <3>3 DEF ChainInv
  <2> QED BY <2>2, <2>3, <2>4
<1>6. ASSUME NEW p \in Procs, NEW t \in Treatments, WatchTimesOut(p, t) PROVE ChainInv'
  <2>1. Current(p, t) \in JobNames /\ job[Current(p, t)] # "absent" /\ UNCHANGED job
    BY <1>6, CurrentName DEF WatchTimesOut, Sweeping, ChainInv, Watched, Exists, cluster
  <2>2. AttemptFailed(p, t, "timeout")
    BY <1>0, <1>6, <2>1 DEF WatchTimesOut
  <2> QED BY <2>1, <2>2, AttemptFailedChain DEF Retryable
<1>7. ASSUME NEW p \in Procs, NEW t \in Treatments, Diagnose(p, t) PROVE ChainInv'
  <2> DEFINE phase == job[Current(p, t)]
             fault == IF found[p][t] = "timeout" THEN "timeout"
                      ELSE IF phase \in JobFaults \ {"timeout"} THEN phase
                      ELSE "unknown"
  <2>1. AttemptFailed(p, t, fault) /\ UNCHANGED job
    BY <1>0, <1>7, CurrentName DEF Diagnose, cluster
  <2>2. fault \in Retryable => phase = fault
    BY <1>7 DEF Diagnose, Sweeping, ChainInv, Failed, Retryable
  <2> HIDE DEF fault
  <2> QED BY <2>1, <2>2, AttemptFailedChain
<1>8. ASSUME NEW n \in JobNames, JobEnds(n) PROVE ChainInv'
  <2>1. /\ job[n] = "running"
        /\ \A m \in JobNames : Exists(m)' <=> Exists(m)
        /\ \A m \in JobNames \ {n} : job'[m] = job[m]
        /\ UNCHANGED <<stage, att, found>>
    BY <1>8, SweepAssumption DEF JobEnds, SetPhase, Exists, memory, AllFaults
  <2>2. \A m \in JobNames : job[m] # "running" => job'[m] = job[m]
    BY <2>1
  <2>3. AttemptChain' /\ Retried'
    BY <2>1, <2>2 DEF ChainInv, AttemptChain, Retried, Retryable, JobNames
  <2>4. \A q \in Procs, u \in Treatments : Current(q, u)' = Current(q, u) /\ Current(q, u) \in JobNames
    BY <2>1, CurrentName DEF Current
  <2>5. Watched'
    BY <2>1, <2>4 DEF ChainInv, Watched, Exists
  <2>6. Failed'
    <3> SUFFICES ASSUME NEW q \in Procs, NEW u \in Treatments, stage'[q][u] = "diagnosing"
                 PROVE  IF found'[q][u] = "timeout" THEN job'[Current(q, u)'] = "timeout"
                        ELSE job'[Current(q, u)'] \in JobFaults \ {"timeout"}
      BY DEF Failed
    <3>1. job[Current(q, u)] # "running"
      BY <2>1, SweepAssumption DEF ChainInv, Failed, AllFaults
    <3> QED BY <2>1, <2>2, <2>4, <3>1 DEF ChainInv, Failed
  <2> QED BY <2>3, <2>5, <2>6 DEF ChainInv
<1>9. CASE UNCHANGED vars
  BY <1>9, QuietChain DEF vars, cluster, memory
<1> QED
  BY <1>1, <1>2, <1>3, <1>4, <1>5, <1>6, <1>7, <1>8, <1>9
     DEF Next, TreatmentStep, Finish, Crash, ReliableCluster

\* In a cluster that answers and that nobody else deletes from, a later attempt's
\* Job exists only if each earlier one failed with a transient fault, however
\* many callers run the sweep and however often they are interrupted.
THEOREM AttemptsChain ==
  ASSUME ReliableCluster PROVE Spec => []AttemptChain
<1>1. ChainInv => AttemptChain
  BY DEF ChainInv
<1>2. TypeInv /\ ChainInv /\ [Next]_vars => ChainInv'
  BY ChainNext
<1> QED BY <1>1, <1>2, TypeInit, TypeNext, ChainInit, PTL DEF Spec

-----------------------------------------------------------------------------
(* A Job that runs is not given up for a fresh one, if reads do not fail.   *)

\* What a coroutine is diagnosing it has seen fail.
SeenFailed ==
    \A p \in Procs, t \in Treatments :
        stage[p][t] = "diagnosing" => found[p][t] \in {"timeout", "failed"}

LEMMA SeenFailedNext == TypeInv /\ SeenFailed /\ [Next]_vars => SeenFailed'
<1> SUFFICES ASSUME TypeInv, SeenFailed, [Next]_vars PROVE SeenFailed'
  OBVIOUS
<1> USE DEF TypeInv, TypeOK
<1>1. ASSUME NEW p \in Procs, Start(p) \/ Forget(p) PROVE SeenFailed'
  <2>1. \A q \in Procs, u \in Treatments :
           \/ stage'[q][u] # "diagnosing"
           \/ stage'[q][u] = stage[q][u] /\ found'[q][u] = found[q][u]
    <3>1. CASE Start(p)
      BY <3>1 DEF Start
    <3>2. CASE Forget(p)
      BY <3>2 DEF Forget
    <3> QED BY <1>1, <3>1, <3>2
  <2> QED BY <2>1 DEF SeenFailed
<1>2. ASSUME NEW p \in Procs, NEW t \in Treatments, NEW s, s # "diagnosing",
             stage' = [stage EXCEPT ![p][t] = s],
             \A q \in Procs, u \in Treatments : ~(q = p /\ u = t) => found'[q][u] = found[q][u]
      PROVE  SeenFailed'
  BY <1>2 DEF SeenFailed
<1>3. ASSUME NEW p \in Procs, NEW t \in Treatments,
             \/ Enter(p, t) \/ MarkInFlight(p, t) \/ RecordCompleted(p, t)
             \/ MarkedInFlight(p, t) \/ RecordedCompleted(p, t)
      PROVE  SeenFailed'
  <2>1. UNCHANGED found
    BY <1>3 DEF Enter, MarkInFlight, RecordCompleted, BeginWrite, MarkedInFlight,
                RecordedCompleted, EndWrite
  <2>2. \E s \in {"entered", "marking", "recording", "submitting", "finished"} :
           stage' = [stage EXCEPT ![p][t] = s]
    BY <1>3 DEF Enter, MarkInFlight, RecordCompleted, BeginWrite, MarkedInFlight,
                RecordedCompleted, EndWrite
  <2> QED BY <1>2, <2>1, <2>2
<1>4. ASSUME NEW p \in Procs, NEW t \in Treatments, NEW s, NEW f, MoveTo(p, t, s, f),
             s = "diagnosing" => f \in {"timeout", "failed"}
      PROVE  SeenFailed'
  BY <1>4 DEF MoveTo, SeenFailed
<1>5. ASSUME NEW p \in Procs, NEW t \in Treatments, NEW fault, AttemptFailed(p, t, fault)
      PROVE  SeenFailed'
  BY <1>4, <1>5 DEF AttemptFailed, Conclude
<1>6. ASSUME NEW p \in Procs, NEW t \in Treatments, Submit(p, t) \/ SubmitDeclined(p, t)
      PROVE  SeenFailed'
  BY <1>4, <1>6 DEF Submit, SubmitDeclined, Conclude
<1>7. ASSUME NEW p \in Procs, NEW t \in Treatments, Poll(p, t) PROVE SeenFailed'
  BY <1>4, <1>5, <1>7 DEF Poll, Conclude
<1>8. ASSUME NEW p \in Procs, NEW t \in Treatments, WatchTimesOut(p, t) \/ Diagnose(p, t)
      PROVE  SeenFailed'
  BY <1>5, <1>8 DEF WatchTimesOut, Diagnose
<1>9. ASSUME UNCHANGED <<stage, found>> PROVE SeenFailed'
  BY <1>9 DEF SeenFailed
<1> QED
  BY <1>1, <1>3, <1>6, <1>7, <1>8, <1>9
     DEF Next, TreatmentStep, Finish, Crash, JanitorStep, List, Delete, JanitorReturns, JobEnds,
         vars, memory

\* Only a failed attempt starts another one.
LEMMA AttemptAdvances ==
  ASSUME TypeInv, SeenFailed, "read" \notin Hazards, [Next]_vars, NEW p \in Procs, NEW t \in Treatments,
         found[p][t] = "running", att'[p][t] > att[p][t]
  PROVE  job[Current(p, t)] # "running"
<1> USE DEF TypeInv, TypeOK
<1>1. \A q \in Procs, u \in Treatments : Reported(Current(q, u)) = {job[Current(q, u)]}
  BY DEF Reported
<1>2. att[p][t] \in Nat /\ ~(att[p][t] > att[p][t]) /\ ~(1 > att[p][t])
  BY SweepAssumption DEF Attempts
<1>3. ASSUME att'[p][t] = att[p][t] PROVE FALSE
  BY <1>2, <1>3
<1>4. ASSUME NEW q \in Procs, Forget(q) PROVE FALSE
  BY <1>2, <1>4 DEF Forget
<1>5. ASSUME NEW q \in Procs, NEW u \in Treatments, NEW fault, AttemptFailed(q, u, fault)
      PROVE  q = p /\ u = t /\ fault \in Retryable
  <2>1. \/ UNCHANGED att
        \/ fault \in Retryable /\ att' = [att EXCEPT ![q][u] = att[q][u] + 1]
    BY <1>5 DEF AttemptFailed, Conclude
  <2>2. CASE ~(q = p /\ u = t)
    <3>1. CASE att' = [att EXCEPT ![q][u] = att[q][u] + 1]
      <4>1. att \in [Procs -> [Treatments -> Attempts]]
        OBVIOUS
      <4> HIDE DEF TypeInv, TypeOK
      <4>2. att'[p][t] = att[p][t]
        BY <2>2, <3>1, <4>1
      <4> QED BY <1>3, <4>2
    <3> QED BY <1>3, <2>1, <3>1
  <2> QED BY <1>3, <2>1, <2>2
<1>6. ASSUME NEW q \in Procs, NEW u \in Treatments, Poll(q, u) PROVE job[Current(p, t)] # "running"
  <2>1. \/ UNCHANGED att
        \/ job[Current(q, u)] = "absent" /\ AttemptFailed(q, u, "unknown")
    BY <1>1, <1>6 DEF Poll, Conclude
  <2> QED BY <1>3, <1>5, <2>1
<1>7. ASSUME NEW q \in Procs, NEW u \in Treatments, WatchTimesOut(q, u) PROVE FALSE
  <2>1. AttemptFailed(q, u, "timeout") \/ (found[q][u] = "unseen" /\ AttemptFailed(q, u, "unknown"))
    BY <1>7 DEF WatchTimesOut
  <2>2. ASSUME AttemptFailed(q, u, "timeout") PROVE FALSE
    <3>1. "timeout" \in Retryable
      BY <1>5, <2>2
    <3> QED BY <3>1 DEF Retryable
  <2>3. ASSUME found[q][u] = "unseen", AttemptFailed(q, u, "unknown") PROVE FALSE
    BY <1>5, <2>3
  <2> QED BY <2>1, <2>2, <2>3
<1>8. ASSUME NEW q \in Procs, NEW u \in Treatments, Diagnose(q, u) PROVE FALSE
  <2>1. PICK fault : AttemptFailed(q, u, fault)
    BY <1>8 DEF Diagnose
  <2> QED BY <1>5, <1>8, <2>1 DEF Diagnose, Sweeping, SeenFailed
<1>9. ASSUME NEW q \in Procs, NEW u \in Treatments,
             \/ Enter(q, u) \/ MarkInFlight(q, u) \/ MarkedInFlight(q, u) \/ Submit(q, u)
             \/ SubmitDeclined(q, u) \/ RecordCompleted(q, u) \/ RecordedCompleted(q, u)
      PROVE  UNCHANGED att
  BY <1>9 DEF Enter, MarkInFlight, RecordCompleted, BeginWrite, MarkedInFlight,
              RecordedCompleted, EndWrite, Submit, SubmitDeclined, Conclude
<1> QED
  BY <1>3, <1>4, <1>6, <1>7, <1>8, <1>9
     DEF Next, TreatmentStep, Start, Finish, Crash, JanitorStep, List, Delete, JanitorReturns,
         JobEnds, vars, memory

\* An attempt whose Job was seen running is given up for a fresh one only when that Job is
\* gone, whoever deletes Jobs and whatever else fails; one read that fails is enough to break
\* it (sweep_failed_poll).
THEOREM LiveJobsAreKept ==
  ASSUME "read" \notin Hazards PROVE Spec => NoRetryOverLiveJob
<1>1. Init => SeenFailed
  BY DEF Init, SeenFailed
<1>2. TypeInv /\ SeenFailed /\ [Next]_vars
        => [\A p \in Procs, t \in Treatments :
              (found[p][t] = "running" /\ att'[p][t] > att[p][t])
                => job[Current(p, t)] # "running"]_vars
  BY AttemptAdvances
<1> QED BY <1>1, <1>2, TypeInit, TypeNext, SeenFailedNext, PTL DEF Spec, NoRetryOverLiveJob
-----------------------------------------------------------------------------
(* What the checkpoint promises: the refinement of the ledger, and what a ConfigMap that *)
(* can be read and written holds.                                                        *)

\* The sweep id is run from one place at a time.
OneCaller == \A p, q \in Procs : p = q

\* The Jobs there are, are the Jobs ever launched.
HistoryInv ==
    \A n \in JobNames :
        /\ Exists(n) <=> "running" \in ever[n]
        /\ ever[n] # {} => "running" \in ever[n]

Writing(p, t) == stage[p][t] \in {"marking", "recording"}

\* A sweep knows what the ConfigMap has decided.
CheckpointKnown ==
    \A p \in Procs, t \in Treatments :
        mode[p] = "sweeping" /\ Completed(cm[t]) => ck[p][t] = cm[t]
\* A treatment that is decided in memory is past its attempts.
DecidedIsOver ==
    \A p \in Procs, t \in Treatments :
        Completed(ck[p][t]) => stage[p][t] \in {"recording", "finished"}
\* What is being applied is what is in memory, since ck_lock admits one writer.
ManifestCurrent ==
    \A p \in Procs, t \in Treatments :
        Writing(p, t) => /\ manifest[p][t] = ck[p]
                         /\ \A u \in Treatments : Writing(p, u) => u = t

\* Only a sweep writes.
WriterSweeps == \A p \in Procs, t \in Treatments : Writing(p, t) => mode[p] = "sweeping"

MemoryInv == CheckpointKnown /\ DecidedIsOver /\ ManifestCurrent /\ WriterSweeps

LedgerInv == HistoryInv /\ MemoryInv

LEMMA LedgerInvInit == Init => LedgerInv
  BY DEF Init, LedgerInv, MemoryInv, HistoryInv, CheckpointKnown, DecidedIsOver, ManifestCurrent,
         WriterSweeps, Writing, NoRecords, Completed, Outcomes, AllFaults, Exists

LEMMA HistoryNext ==
  ASSUME ReliableCluster, TypeOK, HistoryInv, [Next]_vars
  PROVE  HistoryInv'
<1> USE DEF TypeOK
<1>1. ASSUME UNCHANGED <<job, ever>> PROVE HistoryInv'
  BY <1>1 DEF HistoryInv, Exists
<1>2. ASSUME NEW n \in JobNames, job[n] = "absent", SetPhase(n, "running") PROVE HistoryInv'
  BY <1>2 DEF HistoryInv, Exists, SetPhase
<1>3. ASSUME NEW n \in JobNames, JobEnds(n) PROVE HistoryInv'
  <2>1. PICK phase \in {"succeeded"} \cup JobFaults : SetPhase(n, phase)
    BY <1>3 DEF JobEnds
  <2>2. phase # "absent" /\ phase # "running" /\ job[n] = "running"
    BY <1>3, SweepAssumption DEF JobEnds, AllFaults
  <2> QED BY <2>1, <2>2 DEF HistoryInv, Exists, SetPhase
<1>4. ASSUME NEW p \in Procs, NEW t \in Treatments, Submit(p, t) PROVE HistoryInv'
  BY <1>1, <1>2, <1>4, CurrentName DEF Submit, ApplyJob
<1> QED
  BY <1>1, <1>3, <1>4
     DEF Next, TreatmentStep, vars, cluster, Start, Finish, Crash, Forget, Enter, MarkInFlight,
         RecordCompleted, BeginWrite, MarkedInFlight, RecordedCompleted, EndWrite, SubmitDeclined,
         Poll, WatchTimesOut, Diagnose, ReliableCluster

\* A step of a treatment that is not a write: it was not decided, and is not.
LEMMA AttemptMemory ==
  ASSUME TypeOK, MemoryInv, NEW p \in Procs, NEW t \in Treatments,
         UNCHANGED <<cm, mode, ck, manifest>>,
         stage[p][t] \notin {"marking", "recording", "finished"},
         NEW s \in Stages \ {"marking", "recording"},
         stage' = [stage EXCEPT ![p][t] = s]
  PROVE  MemoryInv'
<1> USE DEF TypeOK
<1>1. CheckpointKnown'
  BY DEF MemoryInv, CheckpointKnown, Completed
<1>2. DecidedIsOver'
  BY DEF MemoryInv, DecidedIsOver, Completed
<1>3. \A q \in Procs, u \in Treatments : Writing(q, u)' => Writing(q, u)
  BY DEF Writing
<1>4. ManifestCurrent'
  BY <1>3 DEF MemoryInv, ManifestCurrent
<1>5. WriterSweeps'
  BY <1>3 DEF MemoryInv, WriterSweeps
<1> QED BY <1>1, <1>2, <1>4, <1>5 DEF MemoryInv

LEMMA MemoryNext ==
  ASSUME "read" \notin Hazards, OneCaller, TypeInv, MemoryInv, [Next]_vars
  PROVE  MemoryInv'
<1> USE DEF TypeInv, TypeOK
<1>1. ASSUME NEW p \in Procs, Start(p) PROVE MemoryInv'
  <2>1. /\ ck' = [ck EXCEPT ![p] = cm]
        /\ stage' = [stage EXCEPT ![p] =
              [t \in Treatments |-> IF Completed(cm[t]) THEN "finished" ELSE "queued"]]
        /\ UNCHANGED <<cm, manifest>>
    BY <1>1 DEF Start, Loaded, cluster
  <2>2. \A q \in Procs : q = p
    BY DEF OneCaller
  <2> QED BY <2>1, <2>2 DEF MemoryInv, CheckpointKnown, DecidedIsOver, ManifestCurrent,
        WriterSweeps, Writing
<1>2. ASSUME NEW p \in Procs, Forget(p) PROVE MemoryInv'
  <2>1. \A q \in Procs : q = p
    BY DEF OneCaller
  <2> QED
    BY <1>2, <2>1 DEF Forget, cluster, MemoryInv, CheckpointKnown, DecidedIsOver, ManifestCurrent,
                      WriterSweeps, Writing, NoRecords, Completed, Outcomes, AllFaults
<1>3. ASSUME NEW p \in Procs, NEW t \in Treatments, NEW s \in Stages \ {"marking", "recording"},
             UNCHANGED <<cm, mode, ck, manifest>>,
             \E from \in {"queued", "submitting", "watching", "diagnosing"} : Sweeping(p, t, from),
             stage' = [stage EXCEPT ![p][t] = s]
      PROVE  MemoryInv'
  BY <1>3, AttemptMemory DEF Sweeping
<1>4. ASSUME NEW p \in Procs, NEW t \in Treatments, NEW next \in {"marking", "recording"},
             NEW records, BeginWrite(p, t, records, next), mode[p] = "sweeping",
             stage[p][t] \notin {"recording", "finished"},
             \A u \in Treatments \ {t} : records[u] = ck[p][u],
             next = "marking" => ~Completed(records[t])
      PROVE  MemoryInv'
  <2>1. /\ ck' = [ck EXCEPT ![p] = records]
        /\ manifest' = [manifest EXCEPT ![p][t] = records]
        /\ stage' = [stage EXCEPT ![p][t] = next]
        /\ UNCHANGED <<cm, mode>>
        /\ \A u \in Treatments : ~Writing(p, u)
    BY <1>4 DEF BeginWrite, LockFree, Writing, cluster
  <2>2. \A q \in Procs : q = p
    BY DEF OneCaller
  <2>3. ~Completed(ck[p][t])
    BY <1>4 DEF MemoryInv, DecidedIsOver
  <2>4. CheckpointKnown'
    <3> SUFFICES ASSUME NEW u \in Treatments, mode[p] = "sweeping", Completed(cm[u])
                 PROVE  records[u] = cm[u]
      BY <2>1, <2>2 DEF CheckpointKnown, Completed
    <3>1. ck[p][u] = cm[u]
      BY DEF MemoryInv, CheckpointKnown
    <3> QED BY <1>4, <2>3, <3>1
  <2>5. DecidedIsOver'
    <3> SUFFICES ASSUME NEW u \in Treatments, Completed(records[u])
                 PROVE  stage'[p][u] \in {"recording", "finished"}
      BY <2>1, <2>2 DEF DecidedIsOver, Completed
    <3>1. CASE u = t
      BY <1>4, <2>1, <3>1
    <3>2. CASE u # t
      BY <1>4, <2>1, <3>2 DEF MemoryInv, DecidedIsOver
    <3> QED BY <3>1, <3>2
  <2>6. ManifestCurrent'
    <3>1. \A u \in Treatments : Writing(p, u)' => u = t
      BY <2>1 DEF Writing
    <3> QED BY <2>1, <2>2, <3>1 DEF ManifestCurrent
  <2>7. WriterSweeps'
    BY <1>4, <2>1, <2>2 DEF WriterSweeps
  <2> QED BY <2>4, <2>5, <2>6, <2>7 DEF MemoryInv
<1>5. ASSUME NEW p \in Procs, NEW t \in Treatments, MarkInFlight(p, t) PROVE MemoryInv'
  <2>1. ~Completed(ck[p][t])
    BY <1>5 DEF MarkInFlight, Sweeping, MemoryInv, DecidedIsOver
  <2>2. ~Completed(InFlight(ck[p], t)[t]) /\ \A u \in Treatments \ {t} : InFlight(ck[p], t)[u] = ck[p][u]
    BY <2>1 DEF InFlight, Completed, Outcomes, AllFaults
  <2>3. BeginWrite(p, t, InFlight(ck[p], t), "marking") /\ stage[p][t] = "entered" /\ mode[p] = "sweeping"
    BY <1>5 DEF MarkInFlight, Sweeping
  <2> DEFINE records == InFlight(ck[p], t)
  <2>4. /\ BeginWrite(p, t, records, "marking")
        /\ ~Completed(records[t])
        /\ \A u \in Treatments \ {t} : records[u] = ck[p][u]
        /\ stage[p][t] \notin {"recording", "finished"}
    BY <2>2, <2>3
  <2> HIDE DEF records, TypeInv, TypeOK
  <2> QED BY <1>4, <2>3, <2>4
<1>6. ASSUME NEW p \in Procs, NEW t \in Treatments, RecordCompleted(p, t) PROVE MemoryInv'
  <2> DEFINE records == [ck[p] EXCEPT ![t] = found[p][t]]
  <2>1. BeginWrite(p, t, records, "recording") /\ stage[p][t] = "concluded" /\ mode[p] = "sweeping"
    BY <1>6 DEF RecordCompleted, Sweeping
  <2>2. \A u \in Treatments \ {t} : records[u] = ck[p][u]
    OBVIOUS
  <2> HIDE DEF records, TypeInv, TypeOK
  <2> QED BY <1>4, <2>1, <2>2
<1>7. ASSUME NEW p \in Procs, NEW t \in Treatments, NEW from \in {"marking", "recording"},
             NEW next \in {"submitting", "finished"}, EndWrite(p, t, from, next),
             from = "recording" => next = "finished"
      PROVE  MemoryInv'
  <2>1. /\ cm' = ck[p] \/ UNCHANGED cm
        /\ manifest' = [manifest EXCEPT ![p][t] = NoRecords]
        /\ stage' = [stage EXCEPT ![p][t] = next]
        /\ UNCHANGED <<mode, ck>>
    BY <1>7 DEF EndWrite, MemoryInv, ManifestCurrent, Writing
  <2>2. \A q \in Procs : q = p
    BY DEF OneCaller
  <2>3. CheckpointKnown'
    BY <2>1, <2>2 DEF MemoryInv, CheckpointKnown, Completed
  <2>4. DecidedIsOver'
    <3> SUFFICES ASSUME NEW u \in Treatments, Completed(ck[p][u])
                 PROVE  stage'[p][u] \in {"recording", "finished"}
      BY <2>1, <2>2 DEF DecidedIsOver, Completed
    <3>1. stage[p][u] \in {"recording", "finished"}
      BY DEF MemoryInv, DecidedIsOver
    <3> QED BY <1>7, <2>1, <3>1 DEF EndWrite
  <2>5. ManifestCurrent'
    <3>1. \A u \in Treatments : Writing(p, u)' => Writing(p, u) /\ u # t
      BY <2>1 DEF Writing
    <3>2. \A u \in Treatments : ~Writing(p, u)'
      BY <1>7, <3>1 DEF EndWrite, MemoryInv, ManifestCurrent, Writing
    <3> QED BY <2>2, <3>2 DEF ManifestCurrent
  <2>6. WriterSweeps'
    BY <2>1, <2>2 DEF MemoryInv, WriterSweeps, Writing
  <2> QED BY <2>3, <2>4, <2>5, <2>6 DEF MemoryInv
<1>8. ASSUME NEW p \in Procs, NEW t \in Treatments,
             \/ Enter(p, t) \/ Submit(p, t) \/ SubmitDeclined(p, t)
             \/ Poll(p, t) \/ WatchTimesOut(p, t) \/ Diagnose(p, t)
      PROVE  MemoryInv'
  <2>1. UNCHANGED <<cm, mode, ck, manifest>>
    BY <1>8 DEF Enter, Submit, SubmitDeclined, Poll, WatchTimesOut, Diagnose, cluster
  <2>2. \E from \in {"queued", "submitting", "watching", "diagnosing"} : Sweeping(p, t, from)
    BY <1>8 DEF Enter, Submit, SubmitDeclined, Poll, WatchTimesOut, Diagnose
  <2>3. ASSUME NEW fault, AttemptFailed(p, t, fault)
        PROVE  \E s \in Stages \ {"marking", "recording"} : stage' = [stage EXCEPT ![p][t] = s]
    BY <2>3 DEF AttemptFailed, Conclude, MoveTo, Stages
  <2>4. \E s \in Stages \ {"marking", "recording"} : stage' = [stage EXCEPT ![p][t] = s]
    <3>1. CASE Enter(p, t) \/ Submit(p, t) \/ SubmitDeclined(p, t)
      BY <3>1 DEF Enter, Submit, SubmitDeclined, Conclude, MoveTo, Stages
    <3>2. CASE Poll(p, t)
      BY <2>3, <3>2 DEF Poll, Conclude, MoveTo, Stages
    <3>3. CASE WatchTimesOut(p, t) \/ Diagnose(p, t)
      BY <2>3, <3>3 DEF WatchTimesOut, Diagnose
    <3> QED BY <1>8, <3>1, <3>2, <3>3
  <2> QED BY <1>3, <2>1, <2>2, <2>4
<1>9. ASSUME UNCHANGED <<cm, mode, ck, stage, manifest>> PROVE MemoryInv'
  BY <1>9 DEF MemoryInv, CheckpointKnown, DecidedIsOver, ManifestCurrent,
        WriterSweeps, Writing
<1>10. ASSUME NEW n \in JobNames, JobEnds(n) PROVE MemoryInv'
  BY <1>9, <1>10 DEF JobEnds, memory
<1>11. ASSUME NEW j \in Janitors, JanitorStep(j) PROVE MemoryInv'
  BY <1>9, <1>11 DEF JanitorStep, List, Delete, JanitorReturns, cluster, memory
<1> QED
  BY <1>1, <1>2, <1>5, <1>6, <1>7, <1>8, <1>9, <1>10, <1>11
     DEF Next, TreatmentStep, MarkedInFlight, RecordedCompleted, Finish, Crash, vars, cluster, memory

\* The ledger's state, as the instance maps it.
Decided   == [t \in Treatments |-> IF Completed(cm[t]) THEN cm[t] ELSE "undecided"]
LaunchedJobs == {n \in JobNames : "running" \in ever[n]}

LEMMA LedgerInit == Init => ledger!Init
  BY DEF Init, ledger!Init, NoRecords, Completed, Outcomes, AllFaults

\* Every step of the orchestrator is a step of its ledger, or none.
LEMMA LedgerStep ==
  ASSUME ReliableCluster, OneCaller, TypeInv, TruthInv, ChainInv, LedgerInv, [Next]_vars
  PROVE  [ledger!Next]_(ledger!Ledger)
<1> USE DEF TypeInv, TypeOK
<1>1. ASSUME UNCHANGED <<ever, cm>> PROVE UNCHANGED ledger!Ledger
  BY <1>1 DEF ledger!Ledger, Completed
<1>2. ASSUME NEW n \in JobNames, JobEnds(n) PROVE UNCHANGED ledger!Ledger
  <2>1. PICK phase \in {"succeeded"} \cup JobFaults : SetPhase(n, phase)
    BY <1>2 DEF JobEnds
  <2>2. phase # "running"
    BY SweepAssumption DEF AllFaults
  <2>3. \A m \in JobNames : "running" \in ever'[m] <=> "running" \in ever[m]
    BY <2>1, <2>2 DEF SetPhase
  <2> QED BY <1>2, <2>3 DEF JobEnds, ledger!Ledger, Completed
<1>3. ASSUME NEW p \in Procs, NEW t \in Treatments, Submit(p, t) PROVE [ledger!Next]_(ledger!Ledger)
  <2> DEFINE n == <<t, att[p][t]>>
  <2>1. n \in JobNames /\ att[p][t] \in Attempts
    BY CurrentName DEF Current
  <2>2. CASE UNCHANGED ever
    BY <1>1, <1>3, <2>2 DEF Submit
  <2>3. CASE job[n] = "absent" /\ SetPhase(n, "running")
    <3>1. ~Completed(cm[t])
      <4>1. ~Completed(ck[p][t]) /\ mode[p] = "sweeping"
        BY <1>3 DEF Submit, Sweeping, LedgerInv, MemoryInv, DecidedIsOver
      <4> QED BY <4>1 DEF LedgerInv, MemoryInv, CheckpointKnown
    <3>2. n \notin LaunchedJobs
      BY <2>1, <2>3 DEF LedgerInv, HistoryInv, Exists, LaunchedJobs
    <3>3. \A k \in 1..(att[p][t] - 1) : <<t, k>> \in LaunchedJobs
      <4> SUFFICES ASSUME NEW k \in 1..(att[p][t] - 1) PROVE <<t, k>> \in LaunchedJobs
        OBVIOUS
      <4>1. k \in Attempts /\ k < att[p][t]
        BY <2>1, SweepAssumption DEF Attempts
      <4>2. <<t, k>> \in JobNames /\ Exists(<<t, k>>)
        BY <4>1 DEF JobNames, ChainInv, Retried, Retryable, Exists
      <4> QED BY <4>2 DEF LedgerInv, HistoryInv, LaunchedJobs
    <3>4. LaunchedJobs' = LaunchedJobs \cup {n}
      BY <2>1, <2>3 DEF SetPhase, LaunchedJobs
    <3>5. Decided' = Decided
      BY <1>3 DEF Submit, Decided, Completed
    <3>6. Decided[t] = "undecided"
      BY <3>1 DEF Decided
    <3>7. PICK i \in 1..MaxAttempts : i = att[p][t]
      BY <2>1 DEF Attempts
    <3>8. ledger!Launch(t, i)
      <4> HIDE DEF TypeInv, TypeOK
      <4>1. Decided[t] = "undecided" /\ <<t, i>> \notin LaunchedJobs
        BY <3>2, <3>6, <3>7
      <4>2. LaunchedJobs' = LaunchedJobs \cup {<<t, i>>}
        BY <3>4, <3>7
      <4>3. \A k \in 1..(i - 1) : <<t, k>> \in LaunchedJobs
        BY <3>3, <3>7
      <4> QED BY <3>5, <4>1, <4>2, <4>3 DEF ledger!Launch, Decided, LaunchedJobs
    <3> QED BY <3>8 DEF ledger!Next
  <2> QED BY <1>3, <2>2, <2>3 DEF Submit, ApplyJob, Current
<1>4. ASSUME NEW p \in Procs, NEW t \in Treatments, NEW from \in {"marking", "recording"},
             NEW next, EndWrite(p, t, from, next)
      PROVE  [ledger!Next]_(ledger!Ledger)
  <2>1. CASE UNCHANGED cm
    BY <1>1, <1>4, <2>1 DEF EndWrite
  <2>2. CASE cm' = ck[p]
    <3>1. Decided' \in [Treatments -> Outcomes \cup {"undecided"}]
      BY <2>2 DEF Decided, Completed
    <3>2. \A u \in Treatments : Decided[u] # "undecided" => Decided'[u] = Decided[u]
      <4> SUFFICES ASSUME NEW u \in Treatments, Completed(cm[u]) PROVE cm'[u] = cm[u]
        BY DEF Decided, Completed
      <4>1. mode[p] = "sweeping" => ck[p][u] = cm[u]
        BY DEF LedgerInv, MemoryInv, CheckpointKnown
      <4>2. mode[p] = "sweeping"
        BY <1>4 DEF EndWrite, LedgerInv, MemoryInv, WriterSweeps, Writing
      <4> QED BY <2>2, <4>1, <4>2
    <3>3. \A u \in Treatments :
             Decided'[u] = "succeeded" => \E i \in 1..MaxAttempts : <<u, i>> \in LaunchedJobs
      <4> SUFFICES ASSUME NEW u \in Treatments, ck[p][u] = "succeeded"
                   PROVE  \E i \in 1..MaxAttempts : <<u, i>> \in LaunchedJobs
        BY <2>2 DEF Decided, Completed
      <4>1. Completed(ck[p][u])
        BY DEF Completed, Outcomes
      <4>0. Justified(u, "succeeded")
        BY <4>1 DEF TruthInv, Memory
      <4>2. PICK i \in Attempts : "succeeded" \in ever[<<u, i>>]
        BY <4>0 DEF Justified
      <4>3. <<u, i>> \in LaunchedJobs
        BY <4>2 DEF LedgerInv, HistoryInv, LaunchedJobs, JobNames
      <4> QED BY <4>3 DEF Attempts
    <3>4. LaunchedJobs' = LaunchedJobs
      BY <1>4 DEF EndWrite, LaunchedJobs
    <3>5. ledger!Decide
      BY <3>1, <3>2, <3>3, <3>4 DEF ledger!Decide, Decided, LaunchedJobs
    <3> QED BY <3>5 DEF ledger!Next
  <2>3. manifest[p][t] = ck[p]
    BY <1>4 DEF EndWrite, LedgerInv, MemoryInv, ManifestCurrent, Writing
  <2> QED BY <1>4, <2>1, <2>2, <2>3 DEF EndWrite
<1> QED
  BY <1>1, <1>2, <1>3, <1>4
     DEF Next, TreatmentStep, vars, cluster, Start, Finish, Crash, Forget, Enter, MarkInFlight,
         RecordCompleted, BeginWrite, MarkedInFlight, RecordedCompleted, SubmitDeclined,
         Poll, WatchTimesOut, Diagnose, ReliableCluster

\* Run from one place at a time, in a cluster that answers and that nobody else
\* deletes from, a sweep keeps its ledger: whatever interrupts it, a decided
\* treatment stays decided and no attempt is launched twice, out of order or after
\* the decision.
THEOREM SweepImplementsLedger ==
  ASSUME ReliableCluster, OneCaller PROVE Spec => LedgerKept
<1> DEFINE Inv == TypeInv /\ TruthInv /\ ChainInv /\ LedgerInv
<1>1. Init => Inv
  BY TypeInit, TruthInit, ChainInit, LedgerInvInit
<1>2. Inv /\ [Next]_vars => Inv'
  BY TypeNext, TruthNext, ChainNext, HistoryNext, MemoryNext DEF LedgerInv, TypeInv, ReliableCluster
<1>3. Inv /\ [Next]_vars => [ledger!Next]_(ledger!Ledger)
  BY LedgerStep
<1> HIDE DEF Inv
<1> QED BY <1>1, <1>2, <1>3, LedgerInit, PTL DEF Spec, LedgerKept, ledger!Spec

-----------------------------------------------------------------------------
(* The checkpoint in the cluster, when it can be read and written.         *)

\* The checkpoint can be read, so that a resumed sweep starts from what it holds, ...
CheckpointReads == "read" \notin Hazards
\* ... and every write of it lands.
CheckpointLands == Hazards \cap {"read", "write"} = {}

\* A completed record is never overwritten: the only writer knows it (InFlight never
\* downgrades it) and has nothing else to say of that treatment.
LEMMA CompletedStays ==
  ASSUME CheckpointReads, OneCaller, TypeInv, MemoryInv, [Next]_vars,
         NEW t \in Treatments, Completed(cm[t])
  PROVE  cm'[t] = cm[t]
<1>1. CASE UNCHANGED cm
  BY <1>1
<1>2. ASSUME NEW p \in Procs, NEW u \in Treatments, MarkedInFlight(p, u) \/ RecordedCompleted(p, u)
      PROVE  cm'[t] = cm[t]
  <2>1. Writing(p, u) /\ (cm' = manifest[p][u] \/ UNCHANGED cm)
    BY <1>2 DEF MarkedInFlight, RecordedCompleted, EndWrite, Writing
  <2>2. manifest[p][u] = ck[p] /\ ck[p][t] = cm[t]
    BY <2>1 DEF MemoryInv, ManifestCurrent, WriterSweeps, CheckpointKnown
  <2> QED BY <2>1, <2>2
<1>3. ASSUME NEW p \in Procs, NEW u \in Treatments,
             \/ Enter(p, u) \/ MarkInFlight(p, u) \/ RecordCompleted(p, u) \/ Submit(p, u)
             \/ SubmitDeclined(p, u) \/ Poll(p, u) \/ WatchTimesOut(p, u) \/ Diagnose(p, u)
      PROVE  UNCHANGED cm
  BY <1>3 DEF Enter, MarkInFlight, RecordCompleted, BeginWrite, Submit, SubmitDeclined, Poll,
              WatchTimesOut, Diagnose, cluster
<1>4. ASSUME NEW p \in Procs, Start(p) \/ Finish(p) \/ Crash(p) PROVE UNCHANGED cm
  BY <1>4 DEF Start, Finish, Crash, Forget, cluster
<1>5. ASSUME NEW j \in Janitors, JanitorStep(j) PROVE UNCHANGED cm
  BY <1>5 DEF JanitorStep, List, Delete, JanitorReturns, cluster
<1>6. ASSUME NEW n \in JobNames, JobEnds(n) PROVE UNCHANGED cm
  BY <1>6 DEF JobEnds
<1> QED BY <1>1, <1>2, <1>3, <1>4, <1>5, <1>6 DEF Next, TreatmentStep, vars, cluster

\* A completed treatment is never marked in flight again, whatever fails to be written or
\* applied and whoever deletes Jobs; a start whose read of the checkpoint fails breaks it
\* (sweep_failed_load).
THEOREM CompletedIsFinal ==
  ASSUME CheckpointReads, OneCaller PROVE Spec => CompletedStaysCompleted
<1>1. Init => TypeInv /\ MemoryInv
  BY TypeInit, LedgerInvInit DEF LedgerInv
<1>2. TypeInv /\ MemoryInv /\ [Next]_vars => (TypeInv /\ MemoryInv)'
  BY TypeNext, MemoryNext DEF CheckpointReads
<1>3. TypeInv /\ MemoryInv /\ [Next]_vars
        => [\A t \in Treatments : Completed(cm[t]) => cm'[t] = cm[t]]_vars
  BY CompletedStays
<1> QED BY <1>1, <1>2, <1>3, PTL DEF Spec, CompletedStaysCompleted

-----------------------------------------------------------------------------
\* Where a coroutine stands once its treatment is in the checkpoint of its process.
InHand ==
    \A p \in Procs, t \in Treatments :
        mode[p] = "sweeping" /\ stage[p][t] \notin {"queued", "entered"} => ck[p][t] # "none"
\* A process knows every record of the ConfigMap.
RecordsKnown ==
    \A p \in Procs, t \in Treatments :
        mode[p] = "sweeping" /\ cm[t] # "none" => ck[p][t] # "none"
\* An attempt is made only of a treatment the ConfigMap has in flight.
AttemptsMarked ==
    \A p \in Procs, t \in Treatments :
        stage[p][t] \in {"submitting", "watching", "diagnosing"} => cm[t] # "none"
\* What a coroutine found is on its way to the ConfigMap, and is there when it is over.
FoundLands ==
    \A p \in Procs, t \in Treatments :
        /\ stage[p][t] = "recording" => ck[p][t] = found[p][t]
        /\ stage[p][t] = "finished" => ck[p][t] = found[p][t] /\ cm[t] = found[p][t]
\* Only a sweeping process has coroutines.
IdleQueued == \A p \in Procs, t \in Treatments : mode[p] = "idle" => stage[p][t] = "queued"

LandedInv == InHand /\ RecordsKnown /\ AttemptsMarked /\ FoundLands /\ IdleQueued /\ JobsAreMarked

LEMMA LandedInit == Init => LandedInv
<1> SUFFICES ASSUME Init PROVE LandedInv
  OBVIOUS
<1>1. \A t \in Treatments, i \in Attempts : <<t, i>> \in JobNames
  BY DEF JobNames
<1> QED BY <1>1 DEF Init, LandedInv, InHand, RecordsKnown, AttemptsMarked, FoundLands, IdleQueued,
                   JobsAreMarked, Exists, NoRecords

\* A step of a coroutine that is no write: it stays on the side of the mark where it is.
LEMMA CoroutineLands ==
  ASSUME TypeOK, LandedInv, UNCHANGED <<cm, mode, ck>>, NEW p \in Procs, NEW t \in Treatments,
         mode[p] = "sweeping", NEW s \in Stages, stage' = [stage EXCEPT ![p][t] = s],
         \A q \in Procs, u \in Treatments : ~(q = p /\ u = t) => found'[q][u] = found[q][u],
         \/ stage[p][t] = "queued" /\ s = "entered"
         \/ /\ stage[p][t] \in {"submitting", "watching", "diagnosing"}
            /\ s \in {"submitting", "watching", "diagnosing", "concluded"},
         \A u \in Treatments, i \in Attempts :
            Exists(<<u, i>>)' => Exists(<<u, i>>) \/ (u = t /\ stage[p][t] = "submitting")
  PROVE  LandedInv'
<1> USE DEF TypeOK
<1>1. /\ stage'[p][t] = s
      /\ \A q \in Procs, u \in Treatments : ~(q = p /\ u = t) => stage'[q][u] = stage[q][u]
  OBVIOUS
<1>2. InHand'
  BY <1>1 DEF LandedInv, InHand
<1>3. RecordsKnown'
  BY DEF LandedInv, RecordsKnown
<1>4. AttemptsMarked'
  BY <1>1 DEF LandedInv, AttemptsMarked
<1>5. FoundLands'
  BY <1>1 DEF LandedInv, FoundLands
<1>6. IdleQueued'
  BY <1>1 DEF LandedInv, IdleQueued
<1>7. JobsAreMarked'
  BY DEF LandedInv, JobsAreMarked, AttemptsMarked
<1> QED BY <1>2, <1>3, <1>4, <1>5, <1>6, <1>7 DEF LandedInv

LEMMA LandedNext ==
  ASSUME CheckpointLands, OneCaller, TypeInv, MemoryInv, LandedInv, [Next]_vars
  PROVE  LandedInv'
<1> USE DEF TypeInv, TypeOK
<1>0. CheckpointReads
  BY DEF CheckpointLands, CheckpointReads
<1>1. ASSUME UNCHANGED <<cm, mode, ck, stage, found>>, \A n \in JobNames : Exists(n)' => Exists(n)
      PROVE  LandedInv'
  <2>1. JobsAreMarked'
    BY <1>1 DEF LandedInv, JobsAreMarked, JobNames
  <2> QED BY <1>1, <2>1 DEF LandedInv, InHand, RecordsKnown, AttemptsMarked, FoundLands, IdleQueued
<1>2. ASSUME NEW p \in Procs, Start(p) PROVE LandedInv'
  <2>1. /\ ck' = [ck EXCEPT ![p] = cm] /\ UNCHANGED <<cm, job>>
        /\ stage' = [stage EXCEPT ![p] =
              [t \in Treatments |-> IF Completed(cm[t]) THEN "finished" ELSE "queued"]]
        /\ found' = [found EXCEPT ![p] =
              [t \in Treatments |-> IF Completed(cm[t]) THEN cm[t] ELSE "unseen"]]
        /\ mode' = [mode EXCEPT ![p] = "sweeping"]
    BY <1>0, <1>2 DEF Start, Loaded, CheckpointReads, cluster
  <2>2. \A q \in Procs : q = p
    BY DEF OneCaller
  <2>3. \A t \in Treatments : Completed(cm[t]) => cm[t] # "none"
    BY DEF Completed, Outcomes, AllFaults
  <2>4. InHand' /\ RecordsKnown' /\ AttemptsMarked'
    BY <2>1, <2>2, <2>3 DEF InHand, RecordsKnown, AttemptsMarked
  <2>5. FoundLands' /\ IdleQueued'
    BY <2>1, <2>2 DEF FoundLands, IdleQueued
  <2>6. JobsAreMarked'
    BY <2>1 DEF LandedInv, JobsAreMarked, Exists
  <2> QED BY <2>4, <2>5, <2>6 DEF LandedInv
<1>3. ASSUME NEW p \in Procs, Forget(p) PROVE LandedInv'
  <2>1. \A q \in Procs : q = p
    BY DEF OneCaller
  <2>2. /\ \A q \in Procs, t \in Treatments : stage'[q][t] = "queued"
        /\ \A q \in Procs : mode'[q] = "idle"
        /\ UNCHANGED <<cm, job>>
    BY <1>3, <2>1 DEF Forget, cluster
  <2>3. JobsAreMarked'
    BY <2>2 DEF LandedInv, JobsAreMarked, Exists
  <2> QED BY <2>2, <2>3 DEF LandedInv, InHand, RecordsKnown, AttemptsMarked, FoundLands, IdleQueued
<1>4. ASSUME NEW p \in Procs, NEW t \in Treatments, NEW next \in {"marking", "recording"},
             NEW records, BeginWrite(p, t, records, next), mode[p] = "sweeping",
             stage[p][t] \in {"entered", "concluded"},
             \A u \in Treatments \ {t} : records[u] = ck[p][u], records[t] # "none",
             next = "recording" => records[t] = found[p][t]
      PROVE  LandedInv'
  <2>1. /\ ck' = [ck EXCEPT ![p] = records] /\ stage' = [stage EXCEPT ![p][t] = next]
        /\ UNCHANGED <<cm, job, mode, found>>
    BY <1>4 DEF BeginWrite, cluster
  <2>2. \A q \in Procs : q = p
    BY DEF OneCaller
  <2>3. /\ ck'[p] = records /\ records[t] # "none"
        /\ \A u \in Treatments \ {t} : ck'[p][u] = ck[p][u] /\ stage'[p][u] = stage[p][u]
    BY <1>4, <2>1
  <2>7. InHand'
    <3> SUFFICES ASSUME NEW u \in Treatments, u # t, stage[p][u] \notin {"queued", "entered"}
                 PROVE  ck[p][u] # "none"
      BY <1>4, <2>1, <2>2, <2>3 DEF InHand
    <3> QED BY <1>4 DEF LandedInv, InHand
  <2>8. RecordsKnown'
    <3> SUFFICES ASSUME NEW q \in Procs, NEW u \in Treatments, mode'[q] = "sweeping", cm'[u] # "none"
                 PROVE  ck'[q][u] # "none"
      BY DEF RecordsKnown
    <3>1. q = p /\ ck[p][u] # "none"
      BY <1>4, <2>1, <2>2 DEF LandedInv, RecordsKnown
    <3>2. CASE u = t
      BY <1>4, <2>3, <3>1, <3>2
    <3>3. CASE u # t
      BY <2>3, <3>1, <3>3
    <3> QED BY <3>2, <3>3
  <2>4. AttemptsMarked' /\ IdleQueued'
    BY <1>4, <2>1, <2>2 DEF LandedInv, AttemptsMarked, IdleQueued
  <2>5. FoundLands'
    BY <1>4, <2>1, <2>2 DEF LandedInv, FoundLands
  <2>6. JobsAreMarked'
    BY <2>1 DEF LandedInv, JobsAreMarked, Exists
  <2> QED BY <2>4, <2>5, <2>6, <2>7, <2>8 DEF LandedInv
<1>5. ASSUME NEW p \in Procs, NEW t \in Treatments, MarkInFlight(p, t) PROVE LandedInv'
  <2> DEFINE records == InFlight(ck[p], t)
  <2>1. records[t] # "none" /\ \A u \in Treatments \ {t} : records[u] = ck[p][u]
    BY DEF InFlight, Completed, Outcomes, AllFaults
  <2>2. BeginWrite(p, t, records, "marking") /\ stage[p][t] = "entered" /\ mode[p] = "sweeping"
    BY <1>5 DEF MarkInFlight, Sweeping
  <2> HIDE DEF records, TypeInv, TypeOK
  <2> QED BY <1>4, <2>1, <2>2
<1>6. ASSUME NEW p \in Procs, NEW t \in Treatments, RecordCompleted(p, t) PROVE LandedInv'
  <2> DEFINE records == [ck[p] EXCEPT ![t] = found[p][t]]
  <2>1. BeginWrite(p, t, records, "recording") /\ stage[p][t] = "concluded" /\ mode[p] = "sweeping"
    BY <1>6 DEF RecordCompleted, Sweeping
  <2>2. records[t] = found[p][t] /\ \A u \in Treatments \ {t} : records[u] = ck[p][u]
    OBVIOUS
  <2>3. found[p][t] # "none"
    BY <2>1 DEF ConcludedFound, Outcomes, AllFaults
  <2> HIDE DEF records, TypeInv, TypeOK
  <2> QED BY <1>4, <2>1, <2>2, <2>3
<1>7. ASSUME NEW p \in Procs, NEW t \in Treatments, NEW from \in {"marking", "recording"},
             NEW next \in {"submitting", "finished"}, EndWrite(p, t, from, next),
             from = "marking" <=> next = "submitting"
      PROVE  LandedInv'
  <2>1. /\ cm' = ck[p] /\ stage[p][t] = from /\ mode[p] = "sweeping"
        /\ stage' = [stage EXCEPT ![p][t] = next] /\ UNCHANGED <<job, mode, ck, found>>
    BY <1>7 DEF EndWrite, MemoryInv, ManifestCurrent, WriterSweeps, Writing, CheckpointLands
  <2>2. \A q \in Procs : q = p
    BY DEF OneCaller
  <2>3. /\ stage'[p][t] = next
        /\ \A u \in Treatments \ {t} : stage'[p][u] = stage[p][u]
    BY <2>1
  <2>4. InHand' /\ RecordsKnown'
    BY <1>7, <2>1, <2>2, <2>3 DEF LandedInv, InHand, RecordsKnown
  <2>5. AttemptsMarked'
    <3>1. ck[p][t] # "none"
      BY <1>7, <2>1 DEF LandedInv, InHand
    <3>2. ASSUME NEW u \in Treatments, u # t,
                 stage[p][u] \in {"submitting", "watching", "diagnosing"}
          PROVE  ck[p][u] # "none"
      BY <2>1, <3>2 DEF LandedInv, InHand
    <3> QED BY <2>1, <2>2, <2>3, <3>1, <3>2 DEF AttemptsMarked
  <2>8. IdleQueued'
    BY <2>1, <2>2 DEF IdleQueued
  <2>6. FoundLands'
    BY <1>7, <2>1, <2>2, <2>3 DEF LandedInv, FoundLands
  <2>7. JobsAreMarked'
    BY <2>1 DEF LandedInv, JobsAreMarked, RecordsKnown, Exists
  <2> QED BY <2>4, <2>5, <2>6, <2>7, <2>8 DEF LandedInv
<1>8. ASSUME NEW p \in Procs, NEW t \in Treatments, Enter(p, t) PROVE LandedInv'
  <2>1. /\ UNCHANGED <<cm, mode, ck, job, found>> /\ mode[p] = "sweeping" /\ stage[p][t] = "queued"
        /\ stage' = [stage EXCEPT ![p][t] = "entered"]
    BY <1>8 DEF Enter, Sweeping, cluster
  <2> QED BY <2>1, CoroutineLands DEF Stages, Exists
<1>9. ASSUME NEW p \in Procs, NEW t \in Treatments, Submit(p, t) PROVE LandedInv'
  <2>1. /\ UNCHANGED <<cm, mode, ck>> /\ mode[p] = "sweeping" /\ stage[p][t] = "submitting"
        /\ stage' = [stage EXCEPT ![p][t] = "watching"] /\ found' = [found EXCEPT ![p][t] = "unseen"]
        /\ UNCHANGED job \/ job' = [job EXCEPT ![<<t, att[p][t]>>] = "running"]
    BY <1>9 DEF Submit, Sweeping, MoveTo, ApplyJob, SetPhase, Current
  <2>2. \A u \in Treatments, i \in Attempts : Exists(<<u, i>>)' => Exists(<<u, i>>) \/ u = t
    <3> SUFFICES ASSUME NEW u \in Treatments, NEW i \in Attempts, u # t
                 PROVE  job'[<<u, i>>] = job[<<u, i>>]
      BY DEF Exists
    <3>1. <<u, i>> \in JobNames /\ <<u, i>> # <<t, att[p][t]>>
      BY DEF JobNames
    <3> QED BY <2>1, <3>1
  <2> QED BY <2>1, <2>2, CoroutineLands DEF Stages
<1>10. ASSUME NEW p \in Procs, NEW t \in Treatments,
              SubmitDeclined(p, t) \/ Poll(p, t) \/ WatchTimesOut(p, t) \/ Diagnose(p, t)
       PROVE  LandedInv'
  <2>1. /\ UNCHANGED <<cm, mode, ck, job>> /\ mode[p] = "sweeping"
        /\ stage[p][t] \in {"submitting", "watching", "diagnosing"}
    BY <1>10 DEF SubmitDeclined, Poll, WatchTimesOut, Diagnose, Sweeping, cluster
  <2>2. ASSUME NEW fault, AttemptFailed(p, t, fault)
        PROVE  \E f : \E s \in {"submitting", "watching", "diagnosing", "concluded"} : MoveTo(p, t, s, f)
    BY <2>2 DEF AttemptFailed, Conclude
  <2>3. \E f : \E s \in {"submitting", "watching", "diagnosing", "concluded"} : MoveTo(p, t, s, f)
    <3>1. CASE SubmitDeclined(p, t) \/ Poll(p, t)
      BY <2>2, <3>1 DEF SubmitDeclined, Poll, Conclude
    <3>2. CASE WatchTimesOut(p, t) \/ Diagnose(p, t)
      BY <2>2, <3>2 DEF WatchTimesOut, Diagnose
    <3> QED BY <1>10, <3>1, <3>2
  <2>4. PICK f : \E s \in {"submitting", "watching", "diagnosing", "concluded"} : MoveTo(p, t, s, f)
    BY <2>3
  <2>5. PICK s \in {"submitting", "watching", "diagnosing", "concluded"} : MoveTo(p, t, s, f)
    BY <2>4
  <2>6. /\ stage' = [stage EXCEPT ![p][t] = s] /\ s \in Stages
        /\ \A q \in Procs, u \in Treatments : ~(q = p /\ u = t) => found'[q][u] = found[q][u]
    BY <2>5 DEF MoveTo, Stages
  <2> QED BY <2>1, <2>6, CoroutineLands DEF Exists
<1>11. ASSUME NEW j \in Janitors, JanitorStep(j) PROVE LandedInv'
  <2>1. UNCHANGED <<cm, mode, ck, stage, found>>
    BY <1>11 DEF JanitorStep, List, Delete, JanitorReturns, cluster, memory
  <2>2. \A n \in JobNames : Exists(n)' => Exists(n)
    <3>1. UNCHANGED job \/ \E n \in JobNames : job' = [job EXCEPT ![n] = "absent"]
      BY <1>11 DEF JanitorStep, List, Delete, JanitorReturns, cluster
    <3> QED BY <3>1 DEF Exists
  <2> QED BY <1>1, <2>1, <2>2
<1>12. ASSUME NEW n \in JobNames, JobEnds(n) PROVE LandedInv'
  <2>1. UNCHANGED <<cm, mode, ck, stage, found>> /\ \A m \in JobNames : Exists(m)' => Exists(m)
    BY <1>12 DEF JobEnds, SetPhase, Exists, memory
  <2> QED BY <1>1, <2>1
<1>13. CASE UNCHANGED vars
  <2>1. UNCHANGED <<cm, mode, ck, stage, found>> /\ \A m \in JobNames : Exists(m)' => Exists(m)
    BY <1>13 DEF vars, cluster, memory, Exists
  <2> QED BY <1>1, <2>1
<1> QED
  BY <1>2, <1>3, <1>5, <1>6, <1>7, <1>8, <1>9, <1>10, <1>11, <1>12, <1>13
     DEF Next, TreatmentStep, MarkedInFlight, RecordedCompleted, Finish, Crash

LEMMA LandedAlways ==
  ASSUME CheckpointLands, OneCaller
  PROVE  Spec => [](TypeInv /\ MemoryInv /\ LandedInv)
<1>1. Init => TypeInv /\ MemoryInv /\ LandedInv
  BY TypeInit, LedgerInvInit, LandedInit DEF LedgerInv
<1>2. TypeInv /\ MemoryInv /\ LandedInv /\ [Next]_vars => (TypeInv /\ MemoryInv /\ LandedInv)'
  BY TypeNext, MemoryNext, LandedNext DEF CheckpointLands
<1> HIDE DEF TypeInv, MemoryInv, LandedInv
<1> QED BY <1>1, <1>2, PTL DEF Spec

\* An interruption mid-run is visible in the checkpoint: whatever stops or crashes the sweep,
\* declines or loses its applies or deletes its Jobs, a Job in the cluster has a record there.
THEOREM EveryJobIsMarked ==
  ASSUME CheckpointLands, OneCaller PROVE Spec => []JobsAreMarked
<1>1. LandedInv => JobsAreMarked
  BY DEF LandedInv
<1> QED BY <1>1, LandedAlways, PTL

\* run_sweep's merged result covers all N: when a sweep returns, the cluster holds the
\* outcome of every treatment, and it is the outcome reported.
THEOREM SweepsCoverAll ==
  ASSUME CheckpointLands, OneCaller PROVE Spec => SweepCoversAll
<1>1. LandedInv /\ [Next]_vars
        => [\A p \in Procs : Finish(p) => \A t \in Treatments : cm[t] = found[p][t]]_vars
  BY DEF LandedInv, FoundLands, Finish
<1> QED BY <1>1, LandedAlways, PTL DEF Spec, SweepCoversAll
=============================================================================
