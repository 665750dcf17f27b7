---------------------------- MODULE RunVerdicts ----------------------------
(***************************************************************************)
(* What the analyzer concludes from validated runs                         *)
(* (app/validation/analysis.py, app/tools/analyze/analyze.py): the verdict *)
(* of a run against service-level targets, its goodput estimated from the  *)
(* percentiles the report carries, the Pareto frontier of a sweep and the  *)
(* ranked next steps. A metric is [units, stats] with stats a function     *)
(* from the statistics reported to their values; a run is                  *)
(* [metrics, standard, success], metrics and standard being functions from *)
(* the names of the metrics present. Fractions are in hundredths of a      *)
(* percent, the resolution the estimate is rounded to.                     *)
(***************************************************************************)
EXTENDS Integers, Sequences, FiniteSets, SequencesExt, FiniteSetsExt

Nothing == -1

\* The percentile ladder, and the share of the requests at or below each rung.
Share == [p0p1 |-> 10, p1 |-> 100, p5 |-> 500, p10 |-> 1000, p25 |-> 2500, p50 |-> 5000,
          p75 |-> 7500, p90 |-> 9000, p95 |-> 9500, p99 |-> 9900, p99p9 |-> 9990]
Preference == <<"mean", "p50", "p90", "p95", "p99">>
Factor == [ms |-> 1, s |-> 1000, tokens_s |-> 1]

Objective(name, better, family) == [name |-> name, better |-> better, family |-> family]
Objectives == <<
  Objective("ttft", "min", "latency"), Objective("tpot", "min", "latency"),
  Objective("itl", "min", "latency"), Objective("request_latency", "min", "latency"),
  Objective("output_token_rate", "max", "throughput"),
  Objective("total_token_rate", "max", "throughput"),
  Objective("request_rate", "max", "throughput") >>
-----------------------------------------------------------------------------
(* One run against its targets. *)

\* A value without units is taken as canonical; in unknown units it is not a value.
Convert(value, units) ==
  IF units = "none" THEN value
  ELSE IF units \in DOMAIN Factor THEN value * Factor[units] ELSE Nothing

Stat(metric, stat) ==
  IF stat \in DOMAIN metric.stats THEN Convert(metric.stats[stat], metric.units) ELSE Nothing

\* The first and the last of some rungs, where `lat` maps the rungs that are there to
\* latencies: those that share a latency stay in the order of their shares.
UpTo(lat, j, k) == lat[j] < lat[k] \/ (lat[j] = lat[k] /\ Share[j] <= Share[k])
Lowest(lat, rungs)  == CHOOSE k \in rungs : \A j \in rungs : UpTo(lat, k, j)
Highest(lat, rungs) == CHOOSE k \in rungs : \A j \in rungs : UpTo(lat, j, k)

\* Between two rungs, rounded.
Interpolated(lat, low, high, target) ==
  LET span == lat[high] - lat[low]
  IN  Share[low] + (2 * (target - lat[low]) * (Share[high] - Share[low]) + span) \div (2 * span)

\* The share of the requests within the target, between the two rungs that bracket it.
ShareWithin(lat, target) ==
  LET rungs == DOMAIN lat
      first == Lowest(lat, rungs)
      last  == Highest(lat, rungs)
  IN  IF rungs = {} THEN Nothing
      ELSE IF target < lat[first] THEN 0
      ELSE IF target = lat[first] THEN Share[first]
      ELSE IF target >= lat[last] THEN Share[last]
      ELSE Interpolated(lat, Highest(lat, {k \in rungs : lat[k] < target}),
                             Lowest(lat, {k \in rungs : lat[k] >= target}), target)

\* Bug: the latencies are taken in the units they were reported in.
GoodputUnconverted(metric, target) ==
  ShareWithin([k \in DOMAIN metric.stats \cap DOMAIN Share |-> metric.stats[k]], target)

\* _goodput_for_latency.
Goodput(metric, target) ==
  LET rungs == {k \in DOMAIN metric.stats \cap DOMAIN Share : Stat(metric, k) # Nothing}
  IN  ShareWithin([k \in rungs |-> Stat(metric, k)], target)

\* Targets are [at, latency, floor, success]: the percentile judged at, the maximum
\* of each latency that has one, the token-rate floor and the success rate or Nothing.
Limited(run, slo) == DOMAIN slo.latency \cap DOMAIN run.metrics
Rate(run) ==
  IF "output_token_rate" \in DOMAIN run.metrics THEN Stat(run.metrics["output_token_rate"], "mean")
  ELSE Nothing

LatencyGates(run, slo) ==
  {Stat(run.metrics[k], slo.at) <= slo.latency[k] :
     k \in {k \in Limited(run, slo) : Stat(run.metrics[k], slo.at) # Nothing}}
FloorGates(value, floor) == IF floor = Nothing \/ value = Nothing THEN {} ELSE {value >= floor}

\* evaluate_slo: a target whose metric the report lacks is no gate; without any
\* gate the run does not count as meeting its targets.
Gates(run, slo) ==
  LatencyGates(run, slo) \cup FloorGates(Rate(run), slo.floor) \cup FloorGates(run.success, slo.success)
OverallMet(run, slo) == Gates(run, slo) = {TRUE}

Estimate(run, slo) ==
  LET shares == {Goodput(run.metrics[k], slo.latency[k]) : k \in Limited(run, slo)} \ {Nothing}
  IN  IF shares = {} THEN Nothing ELSE Min(shares)
-----------------------------------------------------------------------------
(* A sweep. *)

\* _objective_value: the first preferred statistic, in the units it was reported in.
Representative(stats) ==
  LET present == {n \in DOMAIN Preference : Preference[n] \in DOMAIN stats}
  IN  IF present = {} THEN Nothing ELSE stats[Preference[Min(present)]]
ValueOf(metrics, name) ==
  IF name \in DOMAIN metrics THEN Representative(metrics[name].stats) ELSE Nothing
Value(run, o) == ValueOf(run.metrics, o.name)

\* The places of the objectives that two runs carry.
Counted(runs) ==
  {n \in DOMAIN Objectives :
     Cardinality({i \in DOMAIN runs : Value(runs[i], Objectives[n]) # Nothing}) >= 2}

\* Of each family the first of them decides.
Deciding(runs) ==
  LET first(n) == \A m \in Counted(runs) : m < n => Objectives[m].family # Objectives[n].family
  IN  {Objectives[n] : n \in {n \in Counted(runs) : first(n)}}

Placeable(run, deciding) == \A o \in deciding : Value(run, o) # Nothing

Better(a, b, o) == IF o.better = "min" THEN Value(a, o) < Value(b, o) ELSE Value(a, o) > Value(b, o)

\* Bug: a run that is better on one axis dominates one it is worse than on the other.
DominatesOnOne(a, b, deciding) ==
  Placeable(a, deciding) /\ Placeable(b, deciding) /\ \E o \in deciding : Better(a, b, o)

Dominates(a, b, deciding) ==
  /\ Placeable(a, deciding) /\ Placeable(b, deciding)
  /\ \A o \in deciding : ~Better(b, a, o)
  /\ \E o \in deciding : Better(a, b, o)

\* _frontier_labels, over the runs of `among`.
Frontier(runs, among) ==
  LET deciding == Deciding(runs)
  IN  IF deciding = {} THEN {}
      ELSE {i \in among : /\ Placeable(runs[i], deciding)
                          /\ \A j \in among \ {i} : ~Dominates(runs[j], runs[i], deciding)}

Feasible(runs, slo) == {i \in DOMAIN runs : OverallMet(runs[i], slo)}

\* pareto_analysis.
Pareto(runs, slo) ==
  LET placeable(among) == {i \in among : Placeable(runs[i], Deciding(runs))}
      degenerate(among) == Frontier(runs, among) = placeable(among) /\ Cardinality(placeable(among)) > 1
  IN  [frontier |-> Frontier(runs, DOMAIN runs), degenerate |-> degenerate(DOMAIN runs),
       feasible |-> Feasible(runs, slo), sloFrontier |-> Frontier(runs, Feasible(runs, slo)),
       sloDegenerate |-> degenerate(Feasible(runs, slo))]

\* The run that leads an informational metric: the first one with the best value.
Leader(runs, o) ==
  LET value(i) == ValueOf(runs[i].standard, o.name)
      present == {i \in DOMAIN runs : value(i) # Nothing}
      best == IF o.better = "max" THEN Max({value(i) : i \in present}) ELSE Min({value(i) : i \in present})
  IN  IF present = {} THEN 0 ELSE Min({i \in present : value(i) = best})
-----------------------------------------------------------------------------
(* What to offer next. *)

\* _history_context: is one of the runs saved, and how many other saved runs are of
\* their models. A saved record is [uid, model], an analyzed run likewise.
AlreadyStored(analyzed, records) == \E a \in analyzed, r \in records : a.uid = r.uid
ComparablePrior(analyzed, records) ==
  Cardinality({r \in records : /\ \E a \in analyzed : a.model = r.model
                               /\ \A a \in analyzed : a.uid # r.uid})

When(condition, step) == IF condition THEN <<step>> ELSE <<>>

\* recommend_next_steps, best first. `missed`: targets were given and none was met.
NextSteps(n, missed, stored, prior) ==
  When(~stored, "save_baseline")
  \o When(n = 1 /\ prior >= 1, "compare_to_baseline")
  \o When(n # 1 \/ prior >= 1, "trend_metric")
  \o When(n = 1, IF missed THEN "run_again" ELSE "run_sweep")
  \o <<"analyze_with_plots", "teardown">>
-----------------------------------------------------------------------------
(* What the answers are held against. *)

\* The verdict at a percentile and the estimate, which are computed apart, never
\* contradict each other. (A target that equals a rung shared by several
\* percentiles is the exception: the estimate then takes the lowest of them.)
VerdictsAgree(run, slo) ==
  \A k \in Limited(run, slo) :
    LET judged == Stat(run.metrics[k], slo.at)
        share  == Goodput(run.metrics[k], slo.latency[k])
    IN  (slo.at \in DOMAIN Share /\ judged # Nothing) =>
          /\ judged > slo.latency[k] => share <= Share[slo.at] /\ ~OverallMet(run, slo)
          /\ judged < slo.latency[k] => share >= Share[slo.at]

\* A looser target never lowers the estimate.
EstimateMonotone(metric, targets) ==
  \A s, t \in targets : s <= t => Goodput(metric, s) <= Goodput(metric, t)

\* Whatever is left out is beaten by a run that is starred, nothing starred beats
\* anything starred, and the two frontiers are consistent.
FrontierCovers(runs, among, starred) ==
  LET deciding == Deciding(runs)
      placed == {i \in among : deciding # {} /\ Placeable(runs[i], deciding)}
  IN  /\ starred \subseteq placed
      /\ \A i \in placed \ starred : \E j \in starred : Dominates(runs[j], runs[i], deciding)
      /\ \A i, j \in starred :
           (\E o \in deciding : Better(runs[i], runs[j], o)) =>
              \E o \in deciding : Better(runs[j], runs[i], o)
=============================================================================
