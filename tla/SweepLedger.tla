------------------------------ MODULE SweepLedger ------------------------------
(***************************************************************************)
(* What a sweep id promises, whoever calls orchestrate_sweep with it and      *)
(* however often it is interrupted: a treatment's outcome is decided once     *)
(* and for all, its attempts are launched in order, each at most once, and    *)
(* none is launched after the decision ("a completed treatment is never       *)
(* re-run", app/orchestrator/checkpoint.py).                                  *)
(***************************************************************************)
EXTENDS Naturals

CONSTANTS Treatments, MaxAttempts, Outcomes

VARIABLES
    outcome,  \* per treatment: its outcome, or "undecided"
    launched  \* the attempts <<treatment, number>> launched so far

Ledger == <<outcome, launched>>

Init ==
    /\ outcome = [t \in Treatments |-> "undecided"]
    /\ launched = {}

Launch(t, i) ==
    /\ outcome[t] = "undecided"
    /\ <<t, i>> \notin launched
    /\ \A k \in 1..(i - 1) : <<t, k>> \in launched
    /\ launched' = launched \cup {<<t, i>>}
    /\ UNCHANGED outcome

\* One publication may decide several treatments: a completion whose own
\* publication was lost is published with a later one.
Decide ==
    /\ outcome' \in [Treatments -> Outcomes \cup {"undecided"}]
    /\ \A t \in Treatments : outcome[t] # "undecided" => outcome'[t] = outcome[t]
    /\ \A t \in Treatments :
         outcome'[t] = "succeeded" => \E i \in 1..MaxAttempts : <<t, i>> \in launched
    /\ UNCHANGED launched

Next ==
    \/ \E t \in Treatments, i \in 1..MaxAttempts : Launch(t, i)
    \/ Decide

Spec == Init /\ [][Next]_Ledger
=============================================================================
