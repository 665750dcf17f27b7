----------------------------- MODULE Preflight -----------------------------
(***************************************************************************)
(* The two questions asked before a benchmark: will the deployment fit     *)
(* (app/capacity/planner.py, app/tools/setup/capacity.py), and is the      *)
(* inference endpoint serving (app/readiness/diagnostics.py,               *)
(* app/readiness/probes.py). The planner of the benchmark repository is    *)
(* external: it sizes each deployment method and reports a list of lines,  *)
(* of which the code reads only the wording. A line is [says, tag]. A      *)
(* verdict or condition is "true", "false" or "none".                      *)
(***************************************************************************)
EXTENDS Integers, Sequences, FiniteSets, SequencesExt, FiniteSetsExt

Methods == {"decode", "prefill"}

\* External. What becomes of a method when the planner sizes it: `fits`, `wont_fit`,
\* `shortfall` (fewer GPUs than a replica needs: the planner goes on sizing as if
\* they were there), `threw` (the sizing raised), `unknown` (the memory of the GPU
\* or the model's architecture is not known) or `idle` (no replicas).
Outcomes == {"fits", "wont_fit", "shortfall", "threw", "unknown", "idle"}
Sayings(outcome) ==
  CASE outcome = "fits"      -> <<"gpu_summary", "sized">>
    [] outcome = "wont_fit"  -> <<"gpu_summary", "will_fail">>
    [] outcome = "shortfall" -> <<"gpus_required", "gpu_summary", "sized">>
    [] outcome = "threw"     -> <<"gpu_summary", "cannot_estimate">>
    [] outcome = "unknown"   -> <<"skipping_memory">>
    [] outcome = "idle"      -> <<"skipping_replicas">>
Informational == {"gpu_summary", "sized", "skipping_replicas", "skipping_fma"}
Tagged(sayings, enforce) ==
  [n \in DOMAIN sayings |->
     [says |-> sayings[n],
      tag  |-> IF sayings[n] \in Informational THEN "info" ELSE IF enforce THEN "ERROR" ELSE "WARNING"]]
PlannerLines(outcomes, fma, enforce) ==
  Tagged(IF fma THEN <<"skipping_fma">>
         ELSE Sayings(outcomes["decode"]) \o Sayings(outcomes["prefill"]), enforce)
-----------------------------------------------------------------------------
(* Capacity. *)

Says(lines, what) == \E n \in DOMAIN lines : lines[n].says \in what

WillFail(lines) == Says(lines, {"will_fail", "gpus_required"})

\* Bug: a sizing that raised is only a warning.
BypassedUnlessThrown(lines) ==
  \/ Says(lines, {"skipping_fma", "skipping_memory"})
  \/ Says(lines, {"skipping_replicas"}) /\ ~Says(lines, {"sized"})

\* Bypassed only on positive evidence; a method without replicas is no bypass if
\* another one was sized.
Bypassed(lines) ==
  \/ Says(lines, {"skipping_fma", "skipping_memory", "cannot_estimate"})
  \/ Says(lines, {"skipping_replicas"}) /\ ~Says(lines, {"sized"})

\* classify_diagnostics: an error is authoritative; a clean run that was not sized
\* is inconclusive.
Feasible3(lines) ==
  IF WillFail(lines) \/ \E n \in DOMAIN lines : lines[n].tag = "ERROR" THEN "false"
  ELSE IF Bypassed(lines) THEN "none" ELSE "true"

\* A plan is a function from <<section, key>> to values; "" is a bare key.
\* _deep_merge: a bare key does not clobber what it is laid over.
Merge(base, over) ==
  [p \in DOMAIN base \cup DOMAIN over |->
     IF p \in DOMAIN over /\ (over[p] # "" \/ p \notin DOMAIN base) THEN over[p] ELSE base[p]]

\* _expand_common: a shared key seeds the methods whose defaults own it and that do
\* not set it themselves, and lands at the root.
ExpandCommon(values, defaults) ==
  LET common == {p[2] : p \in {p \in DOMAIN values : p[1] = "common"}}
      seeded == {p \in DOMAIN defaults : p[1] \in Methods /\ p[2] \in common \ {"enabled"}} \ DOMAIN values
      own    == {p \in DOMAIN values : p[1] # "common"}
      root   == {<<"root", k>> : k \in common}
  IN  [p \in own \cup seeded \cup root |->
         IF p \in own /\ p \notin root THEN values[p] ELSE values[<<"common", p[2]>>]]

\* apply_overrides: a model asked for replaces both spellings of the model's name,
\* unless the caller gives the other one too.
ApplyOverrides(plan, overrides) ==
  LET named == IF <<"model", "name">> \in DOMAIN overrides /\ <<"model", "hf">> \notin DOMAIN overrides
               THEN [p \in {<<"model", "hf">>} |-> overrides[<<"model", "name">>]] ELSE <<>>
  IN  Merge(Merge(plan, overrides), named)

\* plan_config_for_spec: defaults, shared layer, scenario, then the overrides.
PlanConfig(defaults, shared, scenario, overrides) ==
  ApplyOverrides(Merge(Merge(defaults, ExpandCommon(shared, defaults)), ExpandCommon(scenario, defaults)),
                 overrides)

\* check_capacity: the verdict, and the model it is recorded for. Nothing is
\* recorded when the bridge does not answer.
CheckCapacity(answers, lines, plan) ==
  IF ~answers THEN [ran |-> FALSE, feasible |-> "none", model |-> ""]
  ELSE [ran |-> TRUE, feasible |-> Feasible3(lines), model |-> plan[<<"model", "name">>]]

\* The planner and the gated-access check read hf before name.
EvaluatedModel(plan) ==
  IF plan[<<"model", "hf">>] # "" THEN plan[<<"model", "hf">>] ELSE plan[<<"model", "name">>]
-----------------------------------------------------------------------------
(* Readiness. A cluster is [reachable, services, responds, gateways, classes, pools]:
   services is a sequence of [name, ready, notReady], responds the ports that answer
   an HTTP probe, gateways the Programmed condition of each Gateway, pools for each
   InferencePool its conditions, over its parents, as [type, status]. Of several
   services, gateways or conditions the first one in the listing counts. *)

Inference(c) == {n \in DOMAIN c.services : c.services[n].name # "kubernetes"}
ReadyServices(c) == {n \in Inference(c) : c.services[n].ready > 0}

\* Bug: a service whose pods are merely there counts.
EndpointReasonByPresence(c) ==
  IF ~c.reachable THEN "cluster_unreachable"
  ELSE IF Inference(c) # {} THEN "endpoints_ready" ELSE "no_endpoints"

\* analyze_endpoints: the API server's own service is never an inference endpoint.
EndpointReason(c) ==
  IF ~c.reachable THEN "cluster_unreachable"
  ELSE IF ReadyServices(c) # {} THEN "endpoints_ready"
  ELSE IF Inference(c) # {} THEN "endpoints_not_ready" ELSE "no_endpoints"

\* The first stamped condition of a type counts.
ConditionStatus(conditions, type) ==
  LET of == {n \in DOMAIN conditions : conditions[n].type = type}
  IN  IF of = {} THEN "none" ELSE conditions[Min(of)].status

\* analyze_gateway: a Gateway that carries a verdict is preferred.
Programmed(c) ==
  LET stamped == {n \in DOMAIN c.gateways : c.gateways[n] # "none"}
  IN  IF stamped = {} THEN "none" ELSE c.gateways[Min(stamped)]

PoolsResolved(c) ==
  c.pools # <<>> /\ \A n \in DOMAIN c.pools : ConditionStatus(c.pools[n], "ResolvedRefs") = "true"

\* The first gap of the control plane.
GatewayReason(c) ==
  IF c.classes = 0 THEN "gatewayclass_missing"
  ELSE IF Programmed(c) # "true" THEN "gateway_not_programmed"
  ELSE IF ~PoolsResolved(c) THEN "inferencepool_unresolved" ELSE "none"

\* _serving_readiness: the port that answers, the standalone one first; the facts of
\* the last port asked stand when neither does.
ProbedPort(c) == IF 8000 \in c.responds THEN 8000 ELSE 8200

\* check_endpoint_readiness: serving facts are gathered for a service that is there
\* and not serving; a stack is suggested, never stood up; the gateway's gap is
\* pointed out even when the endpoints are ready.
CheckReadiness(c, checkGateway) ==
  LET reason == EndpointReason(c)
  IN  [ready |-> reason = "endpoints_ready", reason |-> reason,
       target |-> IF reason = "endpoints_not_ready" THEN {c.services[Min(Inference(c))].name} ELSE {},
       facts |-> IF reason = "endpoints_not_ready"
                 THEN {[port |-> ProbedPort(c), reachable |-> ProbedPort(c) \in c.responds]} ELSE {},
       suggest |-> reason # "endpoints_ready",
       guidance |-> IF checkGateway THEN GatewayReason(c) ELSE "none"]
-----------------------------------------------------------------------------
(* What the answers are held against. *)

\* The classifier sees only words; "feasible" must mean that the planner sized every
\* method that has replicas and that they fit, and "infeasible" that one cannot deploy
\* or, where the caller asked for the strict reading, could not be sized.
VerdictTrue(outcomes, fma, enforce, feasible) ==
  LET active == {m \in Methods : outcomes[m] # "idle"}
  IN  /\ feasible = "true" => ~fma /\ active # {} /\ \A m \in active : outcomes[m] = "fits"
      /\ feasible = "false" => ~fma /\ \E m \in active : outcomes[m] # "fits"
      /\ ~fma /\ (\E m \in active : outcomes[m] \in {"wont_fit", "shortfall"}) => feasible = "false"

\* The model that is sized, the one whose access is recorded and the one the user
\* asked for are the same, whatever the specification's own model is.
ModelEvaluated(plan, overrides) ==
  LET name == <<"model", "name">>
      asked == name \in DOMAIN overrides /\ <<"model", "hf">> \notin DOMAIN overrides
  IN  asked /\ overrides[name] # "" =>
        EvaluatedModel(plan) = overrides[name] /\ plan[name] = overrides[name]

\* A benchmark is let through only where traffic has an address to go to; a stack that
\* cannot be reached is never passed over in silence.
TrafficReaches(c, checkGateway, answer) ==
  LET addresses == {n \in DOMAIN c.services : c.services[n].name # "kubernetes" /\ c.services[n].ready > 0}
      wired == c.classes > 0 /\ Programmed(c) = "true" /\ PoolsResolved(c)
  IN  /\ answer.ready <=> c.reachable /\ addresses # {}
      /\ answer.ready \/ answer.suggest
      /\ checkGateway /\ ~wired <=> answer.guidance # "none"
      /\ answer.facts # {} => answer.target # {} /\ \A f \in answer.facts : c.responds # {} => f.reachable
=============================================================================
