------------------------------ MODULE Verdicts ------------------------------
(***************************************************************************)
(* The tools that only compute: each action is one tool answering one      *)
(* question, a state of reports, clusters, plans or requests that the      *)
(* instance enumerates. The answers are held against what they promise,    *)
(* which is stated apart from how they are computed.                       *)
(***************************************************************************)
EXTENDS ReportCompare, Retention, Preflight, CommandPolicy, SweepDesign, LoadEstimate

CONSTANT Questions   \* the questions that may be put on each topic

Asked(t) == IF t \in DOMAIN Questions THEN Questions[t] ELSE {}

\* Reports carry numbers, and the percentiles of one metric do not fall.
Measured(stats) == \A k \in DOMAIN stats : stats[k] \in Nat
Rising(stats) ==
  \A j, k \in DOMAIN Share \cap DOMAIN stats : Share[j] <= Share[k] => stats[j] <= stats[k]
IsRun(run) == \A m \in DOMAIN run.metrics : Measured(run.metrics[m].stats)
IsTarget(slo) ==
  /\ \A m \in DOMAIN slo.latency : slo.latency[m] \in Nat
  /\ slo.floor \in Nat \cup {Nothing} /\ slo.success \in Nat \cup {Nothing}

\* No rate is given in seconds; a report of an input has a time of its own.
IsReport(r) ==
  /\ IsRun(r) /\ r.mtime \in Nat
  /\ \A o \in ToSet(Objectives) :
       o.name \in DOMAIN r.metrics /\ o.family # "latency" => r.metrics[o.name].units # "s"
AreInputs(reports) ==
  /\ IsFiniteSet(reports) /\ \A r \in reports : IsReport(r)
  /\ \A r, s \in reports : r.mtime = s.mtime => r = s

\* Whatever block of a report is read, it carries numbers.
IsReadable(r) ==
  /\ DOMAIN r.components \subseteq Nat
  /\ \A c \in DOMAIN r.components : \A f \in DOMAIN r.components[c] : Measured(r.components[c][f])
  /\ \A k \in DOMAIN r.native :
       /\ DOMAIN r.native[k].components \subseteq Nat
       /\ \A b \in {r.native[k].aggregated} \cup Range(r.native[k].components) :
            \A stats \in b : Measured(stats)

\* The repository's defaults name a model and an accelerator, and what a caller may
\* override is no shared section of a plan.
IsPlanned(q) ==
  /\ \A layer \in {q.defaults, q.shared, q.scenario, q.overrides} : \A p \in DOMAIN layer : p = <<p[1], p[2]>>
  /\ q.fma \in BOOLEAN /\ q.enforce \in BOOLEAN /\ q.outcomes \in [Methods -> Outcomes]
  /\ {<<"model", "name">>, <<"model", "hf">>, <<"decode", "accel">>} \subseteq DOMAIN q.defaults
  /\ <<"common", "accel">> \notin DOMAIN q.overrides

\* A probe asks two ports.
IsCluster(c) ==
  /\ c.reachable \in BOOLEAN /\ c.classes \in Nat /\ c.responds \subseteq {8000, 8200}
  /\ \A n \in DOMAIN c.services : c.services[n].ready \in Nat

\* The items of an area have distinct names and times; a cap that is not set is 0.
AreItems(q) ==
  /\ IsFiniteSet(q.items) /\ q.now \in Nat /\ q.caps \in [age : Nat, items : Nat, bytes : Nat]
  /\ \A i \in q.items : i.mtime \in Nat /\ i.size \in Nat /\ i.active \in BOOLEAN
  /\ \A i, j \in q.items : i.id = j.id \/ i.mtime = j.mtime => i = j

\* A number of a profile is there once or missing; the harnesses are the known ones.
IsOptional(v) == v \subseteq Nat /\ \A x, y \in v : x = y
IsNumberList(s) == s \in Seq(Range(s)) /\ Range(s) \subseteq Nat
IsBenchmark(b, spec) ==
  /\ \A k \in {<<"rates">>, <<"streams">>} \cap DOMAIN b : IsNumberList(b[k])
  /\ \A i \in DOMAIN spec.constraints :
       <<i, "seconds">> \in DOMAIN b => IsOptional(b[<<i, "seconds">>])
IsProfile(p) ==
  /\ p.layout \in {"spec", "flat"}
  /\ p.layout = "spec" =>
       /\ IsNumberList(p.spec.rates) /\ IsNumberList(p.spec.streams)
       /\ \A i \in DOMAIN p.spec.constraints : IsOptional(p.spec.constraints[i].seconds)
       /\ p.benchmarks \in Seq(Range(p.benchmarks))
       /\ \A n \in DOMAIN p.benchmarks : IsBenchmark(p.benchmarks[n], p.spec)
  /\ p.layout = "flat" =>
       /\ p.stages \in Seq(Range(p.stages)) /\ IsNumberList(p.rates)
       /\ \A n \in DOMAIN p.stages : IsOptional(p.stages[n].rate) /\ IsOptional(p.stages[n].duration)
       /\ IsOptional(p.maxSeconds) /\ IsOptional(p.prompts) /\ IsOptional(p.requests)

\* The factors of a design have lists of levels; the knobs of a scenario are finitely many.
AreFactors(factors) ==
  /\ factors \in Seq(Range(factors))
  /\ \A n \in DOMAIN factors : factors[n].levels \in Seq(Range(factors[n].levels))
AreKnobs(content) == IsFiniteSet(DOMAIN content) /\ \A p \in DOMAIN content : p \in Seq(Range(p)) /\ p # <<>>

\* No option is given for a name, or passed through where an option expects its value.
NoneForValue(tokens) ==
  \A n \in DOMAIN tokens : tokens[n] \in Valued /\ n + 1 \in DOMAIN tokens => tokens[n + 1] \notin Options
IsStoreRequest(store) ==
  /\ store.command \in DOMAIN StoreCommands
  /\ {store.action, store.name, store.uri, store.remote, store.uid, store.path} \cap Options = {}
  /\ store.paths \in Seq(Range(store.paths)) /\ Range(store.paths) \cap Options = {}
IsRequest(q) ==
  /\ q.sub \in DOMAIN Subcommands /\ {q.spec, q.harness, q.workload} \cap Options = {}
  /\ q.extra \in Seq(Range(q.extra)) /\ NoneForValue(q.extra)
  /\ q.sub = "results" => IsStoreRequest(q.store)

\* A catalog lists something of each kind.
IsCatalog(c) ==
  /\ c.specs # {} /\ c.harnesses # {} /\ c.workloads # {}
  /\ \A h \in DOMAIN c.byHarness : c.byHarness[h] # {} /\ c.byHarness[h] \subseteq c.workloads

ASSUME QuestionsAssumption ==
  /\ \A q \in Asked("run") :
       /\ IsRun(q.run) /\ IsTarget(q.slo) /\ q.targets \subseteq Nat
       /\ \A m \in DOMAIN q.run.metrics : Rising(q.run.metrics[m].stats)
       /\ q.run.total \in Nat /\ q.run.failures \in 0..q.run.total
  /\ \A q \in Asked("sweep") :
       IsFiniteSet(DOMAIN q.runs) /\ \A n \in DOMAIN q.runs : IsRun(q.runs[n])
  /\ \A q \in Asked("summary") :
       /\ q.reports \in Seq(Range(q.reports)) /\ DOMAIN q.fields \subseteq Nat /\ DOMAIN q.keys \subseteq Nat
       /\ \A n \in DOMAIN q.reports : IsReadable(q.reports[n])
  /\ \A q \in Asked("compare") :
       /\ q.sources \in Seq(Range(q.sources)) /\ AreInputs(q.experiment)
       /\ \A n \in DOMAIN q.sources : AreInputs(q.sources[n])
  /\ \A q \in Asked("retention") : AreItems(q)
  /\ \A q \in Asked("capacity") : IsPlanned(q)
  /\ \A q \in Asked("command") : IsRequest(q.request) /\ IsCatalog(q.catalog)
  /\ \A q \in Asked("design") : AreFactors(q.setup) /\ AreFactors(q.run)
  /\ \A q \in Asked("scenario") : AreKnobs(q.content)
  /\ \A q \in Asked("estimate") :
       IsProfile(q.profile) /\ \A f \in q.files : f.harness \in ToSet(SearchOrder)
  /\ \A q \in Asked("readiness") : IsCluster(q.cluster) /\ q.checkGateway \in BOOLEAN

VARIABLES
  topic,     \* what the question is about
  question,  \* the inputs of the tool
  answer     \* <<its result>>, <<>> before

verdictVars == <<topic, question, answer>>

VerdictInit == topic \in DOMAIN Questions /\ question \in Questions[topic] /\ answer = <<>>

Awaiting(t) == topic = t /\ answer = <<>>
Reply(value) == answer' = <<value>> /\ UNCHANGED <<topic, question>>
Answered(t) == topic = t /\ answer # <<>>
Result == answer[1]

\* analyze_results, of one run.
Summary(run) ==
  LET rate == SuccessRate(run.total, run.failures)
  IN  [metrics |-> run.metrics, success |-> IF rate = {} THEN Nothing ELSE CHOOSE r \in rate : TRUE]
AnalyzeRun ==
  /\ Awaiting("run")
  /\ LET run == Summary(question.run)
     IN  Reply([met |-> OverallMet(run, question.slo), goodput |-> Estimate(run, question.slo)])

\* analyze_results, of a sweep.
AnalyzeSweep ==
  /\ Awaiting("sweep")
  /\ Reply(Pareto(question.runs, question.slo))

\* What the reports of a sweep say of an informational metric, whose fields and keys
\* are given, and what is offered next.
Itl == Objective("itl", "min", "latency")
Read(report, fields, keys) ==
  LET value == StandardMetric(fields, keys, report.components, report.native)
  IN  [standard |-> [m \in (IF value = {} THEN {} ELSE {"itl"}) |->
                       [units |-> "ms", stats |-> CHOOSE v \in value : TRUE]],
       uid |-> report.uid, model |-> ModelOf(report.stack)]
Summarized(reports, fields, keys, records, missed) ==
  LET runs == [n \in DOMAIN reports |-> Read(reports[n], fields, keys)]
      analyzed == {[uid |-> runs[n].uid, model |-> runs[n].model] : n \in DOMAIN runs}
  IN  [leader |-> Leader(runs, Itl),
       steps  |-> NextSteps(Len(runs), missed, AlreadyStored(analyzed, records),
                            ComparablePrior(analyzed, records))]
Summarize ==
  /\ Awaiting("summary")
  /\ Reply(Summarized(question.reports, question.fields, question.keys, question.records, question.missed))

\* compare_reports and compare_harness_runs.
Compare ==
  /\ Awaiting("compare")
  /\ LET inputs == Resolve(question.sources, question.experiment)
     IN  Reply([beside |-> CompareReports(inputs, question.requested), across |-> CompareAcross(Runs(inputs))])

\* gc_area.
Prune ==
  /\ Awaiting("retention")
  /\ Reply(Pruned(question.items, question.caps, question.now))

\* check_capacity.
JudgeCapacity ==
  /\ Awaiting("capacity")
  /\ LET plan == PlanConfig(question.defaults, question.shared, question.scenario, question.overrides)
     IN  Reply([plan |-> plan,
                verdict |-> CheckCapacity(question.answers,
                              PlannerLines(question.outcomes, question.fma, question.enforce), plan)])

\* check_endpoint_readiness.
JudgeReadiness ==
  /\ Awaiting("readiness")
  /\ Reply(CheckReadiness(question.cluster, question.checkGateway))

\* execute_llmdbenchmark, up to the decision whether it needs an approval.
JudgeCommand ==
  /\ Awaiting("command")
  /\ Reply({Validate(argv, question.catalog) : argv \in BuildArgv(question.request)})

\* generate_doe_experiment.
Design ==
  /\ Awaiting("design")
  /\ Reply(Generate(question.setup, question.run, question.constants, question.known))

\* write_and_validate_config.
Author ==
  /\ Awaiting("scenario")
  /\ Reply(AuthorScenario(question.content, question.roots, question.known))

\* estimate_run_duration.
EstimateDuration ==
  /\ Awaiting("estimate")
  /\ Reply(EstimateRun(LoadShape(question.profile)))

VerdictNext ==
  \/ AnalyzeRun \/ AnalyzeSweep \/ Summarize \/ Compare \/ Prune \/ JudgeCapacity \/ JudgeReadiness
  \/ JudgeCommand \/ Design \/ Author \/ EstimateDuration

VerdictSpec == VerdictInit /\ [][VerdictNext]_verdictVars
-----------------------------------------------------------------------------
\* The verdict of a run against its targets and its goodput, computed from different
\* numbers of the report, never contradict each other, whatever units and percentiles
\* the report has; without a measured target there is no pass, and a pass is at most half
\* a hundredth of a percent short of the success rate asked for; looser is never worse.
TargetsJudged ==
  Answered("run") =>
    LET run == Summary(question.run)
        slo == question.slo
    IN  /\ VerdictsAgree(run, slo)
        /\ \A k \in Limited(run, slo) : EstimateMonotone(run.metrics[k], question.targets)
        /\ Result.met => \/ \E k \in Limited(run, slo) : Stat(run.metrics[k], slo.at) # Nothing
                         \/ slo.floor # Nothing /\ Rate(run) # Nothing
                         \/ slo.success # Nothing /\ run.success # Nothing
        /\ Result.met /\ slo.success # Nothing /\ question.run.total > 0 =>
             20000 * (question.run.total - question.run.failures) >= (2 * slo.success - 1) * question.run.total

\* No report says less than the leader where what it says has the standard spelling.
LeaderTrue(reports, fields, keys, leader) ==
  LET standard(n) == UNION {{Representative(reports[n].components[c][f]) :
                               f \in ToSet(fields) \cap DOMAIN reports[n].components[c]} :
                              c \in DOMAIN reports[n].components}
  IN  leader # 0 => \A n \in DOMAIN reports :
        (reports[n].native = <<>> /\ standard(n) # {} /\ Nothing \notin standard(n)) =>
          \E v \in standard(n) : ValueOf(Read(reports[leader], fields, keys).standard, "itl") <= v

\* A run is not offered for comparison with itself, and is saved unless it is.
StepsTrue(reports, records, steps) ==
  /\ "compare_to_baseline" \in steps => \E r \in records : \A n \in DOMAIN reports : reports[n].uid # r.uid
  /\ "save_baseline" \in steps <=> \A n \in DOMAIN reports, r \in records : r.uid # reports[n].uid

\* Of a sweep the starred runs are those that no other beats on both axes; restricted to
\* the runs that meet their targets the same holds among them, and no run that is on
\* the overall frontier and feasible is dropped there. The same run leads however a
\* harness spells the metric, and a run is not offered for comparison with itself.
FrontierTrue ==
  /\ Answered("sweep") =>
       /\ FrontierCovers(question.runs, DOMAIN question.runs, Result.frontier)
       /\ FrontierCovers(question.runs, Result.feasible, Result.sloFrontier)
       /\ Result.frontier \cap Result.feasible \subseteq Result.sloFrontier
       /\ \A i \in Result.sloFrontier : OverallMet(question.runs[i], question.slo)
  /\ Answered("summary") =>
       /\ LeaderTrue(question.reports, question.fields, question.keys, Result.leader)
       /\ StepsTrue(question.reports, question.records, ToSet(Result.steps))

\* A comparison names the run that is really best and measures every delta from the run
\* that was asked for, although reports use different units and some are dropped; a
\* metric is cross-validated only by runs of two named harnesses.
ComparedFairly ==
  Answered("compare") =>
    LET inputs == Resolve(question.sources, question.experiment)
        runs == Runs(inputs)
        across == Result.across
    IN  /\ ComparisonFair(inputs, question.requested, Result.beside)
        /\ Result.beside.skipped \cup ToSet(ValidPlaces(inputs)) = DOMAIN inputs
        /\ \A o \in across.shared :
             Cardinality({runs[n].harness : n \in across.speakers[o]} \ {"unknown"}) >= 2
        /\ across.shared # {} => across.compared

\* What the retention pass leaves is within all caps together, and it takes no more,
\* nothing newer than it must and nothing of an active session.
PrunesLeast ==
  Answered("retention") => RemovesLeast(question.items, question.caps, question.now, Result)

\* "Feasible" is never said of what the planner did not size, and the model sized is the
\* one that was asked for; a more specific layer of the plan wins over a more general one.
CapacityTrue ==
  Answered("capacity") =>
    /\ Result.verdict.ran =>
         /\ VerdictTrue(question.outcomes, question.fma, question.enforce, Result.verdict.feasible)
         /\ Result.verdict.model = Result.plan[<<"model", "name">>]
    /\ ModelEvaluated(Result.plan, question.overrides)
    /\ LET own    == <<"decode", "accel">>
           shared == <<"common", "accel">>
           says(layer) == IF own \in DOMAIN layer THEN layer[own]
                          ELSE IF shared \in DOMAIN layer THEN layer[shared] ELSE ""
           layers == <<says(question.overrides), says(question.scenario), says(question.shared)>>
           said == {n \in 1..3 : layers[n] # ""}
       IN  Result.plan[own] = IF said = {} THEN question.defaults[own] ELSE layers[Min(said)]

\* A benchmark is let through only where traffic has a ready address to go to.
ReadyMeansServing ==
  Answered("readiness") => TrafficReaches(question.cluster, question.checkGateway, Result)

\* A command needs an approval exactly if it changes something.
ApprovalMatchesEffect ==
  Answered("command") => GateMatchesEffect(question.request, question.catalog)

\* What is authored is what was asked for: a design has every combination once, under a
\* name of its own, and a scenario every knob.
DesignComplete ==
  /\ Answered("design") =>
       (Result.generated => /\ SweepComplete(question.run, Result.runs)
                            /\ SweepComplete(question.setup, Result.setups))
  /\ Answered("scenario") => KnobsLand(question.content, Result)

\* A duration is only given for a load that is bounded, and a workload the catalog lists
\* can be previewed.
EstimateTrue ==
  Answered("estimate") => EstimateHonest(question.profile, Result) /\ ListedIsFound(question.files)
=============================================================================
