----------------------------- MODULE MCVerdicts -----------------------------
(***************************************************************************)
(* The questions put to the tools: every combination of a few inputs of    *)
(* each kind, chosen so that each rule and each of its exceptions applies. *)
(***************************************************************************)
EXTENDS Verdicts

Optional(name, values) == {<<>>} \cup {name :> v : v \in values}
Both(left, right) == {a @@ b : a \in left, b \in right}
SeqsUpTo(set, n) == UNION {[1..k -> set] : k \in 0..n}
Maybe(set) == {{}} \cup {{v} : v \in set}

\* Runs: latencies in either unit, or in one that is not known, at rising percentiles.
Ladders ==
  {stats \in UNION {[keys -> 1..3] : keys \in SUBSET {"p50", "p90", "p99"} \ {{}}} :
     \A j, k \in DOMAIN stats : Share[j] <= Share[k] => stats[j] <= stats[k]}
InUnits(stats, units) ==
  [units |-> units, stats |-> [k \in DOMAIN stats |-> IF units = "s" THEN stats[k] ELSE 1000 * stats[k]]]
TokenRate == [units |-> "tokens_s", stats |-> ("mean" :> 5)]
RunQuestions ==
  {[run |-> [metrics |-> ("ttft" :> InUnits(stats, units)) @@ rate, total |-> counts[1], failures |-> counts[2]],
    slo |-> [at |-> at, latency |-> ("ttft" :> target), floor |-> floor, success |-> 10000],
    targets |-> {500, 1000, 1500, 2000, 2500, 3500}] :
     stats \in Ladders, units \in {"ms", "s", "furlongs"}, at \in {"p50", "p90"},
     target \in {500, 1500, 2500, 3500}, counts \in {<<0, 0>>, <<9, 0>>, <<20001, 1>>, <<200, 1>>},
     rate \in Optional("output_token_rate", {TokenRate}), floor \in {Nothing, 6}}

\* Sweeps of two or three runs, with or without each objective.
Metric(value) == {[units |-> "ms", stats |-> ("mean" :> value)]}
SweepRuns ==
  {[metrics |-> m, success |-> Nothing, standard |-> <<>>] :
     m \in Both(Both(Optional("ttft", Metric(1) \cup Metric(2)), Optional("tpot", Metric(1))),
                Optional("output_token_rate", Metric(1) \cup Metric(2)))}
SweepQuestions ==
  {[runs |-> runs, slo |-> [at |-> "mean", latency |-> ("ttft" :> 1), floor |-> Nothing, success |-> Nothing]] :
     runs \in UNION {[1..n -> SweepRuns] : n \in 2..3}}

\* Reports that carry one informational metric under either standardized name, in
\* either component, or under the key of the harness.
Stats(v) == [mean |-> v]
Entry(v) == [aggregated |-> {}, components |-> <<{}, {Stats(v)}>>]
Components == SeqsUpTo(Both(Optional("tpot_f", {Stats(1)}), Optional("itl_f", {Stats(2)})), 2)
SummaryReports ==
  {[components |-> c, native |-> n, uid |-> "u1", stack |-> <<"", "m">>] :
     c \in Components, n \in Optional("k", {Entry(1)})}
SummaryQuestions ==
  {[reports |-> <<a>> \o b, fields |-> <<"itl_f", "tpot_f">>, keys |-> <<"k">>, missed |-> missed, records |-> records] :
     a \in SummaryReports, missed \in BOOLEAN,
     b \in SeqsUpTo({[r EXCEPT !.uid = "u2"] : r \in {r \in SummaryReports : Len(r.components) <= 1}}, 1),
     records \in {{}, {[uid |-> "u1", model |-> {"m"}]}, {[uid |-> "u3", model |-> {"m"}]}}}

\* Up to three inputs, the first two of which may be missing or invalid.
Bodies ==
  {<<>>, "ttft" :> [units |-> "ms", stats |-> ("mean" :> 1500)]} \cup
  {("ttft" :> [units |-> "s", stats |-> ("mean" :> v)]) @@
   ("request_rate" :> [units |-> "tokens_s", stats |-> ("mean" :> 3 - v)]) : v \in 1..2}
Reports ==
  {[mtime |-> 0, state |-> s[1], harness |-> s[2], model |-> "m", metrics |-> b] :
     s \in {<<"clean", "h1">>, <<"newer", "h2">>, <<"clean", "unknown">>}, b \in Bodies}
  \cup {[mtime |-> 0, state |-> s, harness |-> "h1", model |-> "m", metrics |-> <<>>] : s \in {"fatal", "unreadable"}}
At(report, t) == [report EXCEPT !.mtime = t]
CompareQuestions ==
  {[sources |-> <<{At(r, 2) : r \in a}, {At(r, 1) : r \in b}, {At(r, 3) : r \in c} \cup {At(r, 0) : r \in a}>>,
    experiment |-> {}, requested |-> requested] :
     a, b \in Maybe(Reports), c \in {{r} : r \in {r \in Reports : r.state = "clean"}}, requested \in 1..3}
  \cup {[sources |-> <<>>, experiment |-> {At(a, 2), At(b, 1)}, requested |-> 1] : a, b \in Reports}

\* Three items of distinct ages under every combination of the caps.
RetentionQuestions ==
  {[items |-> {[id |-> n, mtime |-> n, size |-> kind[n][1], active |-> kind[n][2]] :
                 n \in {n \in 1..3 : kind[n][1] > 0}},
    caps |-> [age |-> age, items |-> items, bytes |-> bytes], now |-> 4] :
     kind \in [1..3 -> {<<0, FALSE>>, <<1, FALSE>>, <<2, FALSE>>, <<2, TRUE>>}],
     age \in {0, 1, 2}, items \in 0..2, bytes \in {0, 1, 3}}

\* Every outcome of the planner; every way the layers of a plan may speak.
Accel(section, v) == <<section, "accel">> :> v
Model(key, v) == <<"model", key>> :> v
Defaults == {Model("name", "d") @@ Model("hf", hf) @@ Accel("decode", "A0") : hf \in {"", "d"}}
Scenarios == Both({<<>>, Model("hf", "s"), Model("name", "s") @@ Model("hf", "s")},
                  Both({<<>>, Accel("common", "A3")}, {<<>>, Accel("decode", ""), Accel("decode", "A4")}))
Overrides == {<<>>, Model("name", "u"), Model("name", "u") @@ Model("hf", "v"), Accel("decode", "A5")}
CapacityQuestions ==
  {[answers |-> answers, outcomes |-> outcomes, fma |-> fma, enforce |-> enforce, defaults |-> defaults,
    shared |-> <<>>, scenario |-> <<>>, overrides |-> <<>>] :
     answers, fma, enforce \in BOOLEAN, outcomes \in [Methods -> Outcomes], defaults \in Defaults}
  \cup
  {[answers |-> TRUE, outcomes |-> [m \in Methods |-> "fits"], fma |-> FALSE, enforce |-> FALSE,
    defaults |-> defaults, shared |-> shared, scenario |-> scenario, overrides |-> overrides] :
     defaults \in Defaults, shared \in Both({<<>>, Accel("common", "A1")}, {<<>>, Accel("decode", "A2")}),
     scenario \in Scenarios, overrides \in Overrides}

\* Clusters: the API server's service or one or two others, and a gateway in each state.
Conditions == {<<>>, <<[type |-> "Accepted", status |-> "true"]>>,
               <<[type |-> "Accepted", status |-> "true"], [type |-> "ResolvedRefs", status |-> "true"]>>,
               <<[type |-> "ResolvedRefs", status |-> "false"]>>}
Services == SeqsUpTo([name : {"kubernetes", "stack"}, ready : 0..1, notReady : {1}], 2)
ReadinessQuestions ==
  {[checkGateway |-> check,
    cluster |-> [reachable |-> reachable, services |-> services, responds |-> responds, gateways |-> gateways,
                 classes |-> classes, pools |-> pools]] :
     check, reachable \in BOOLEAN, services \in Services, responds \in SUBSET {8000, 8200},
     gateways \in {<<>>, <<"none">>, <<"none", "true">>, <<"false">>}, classes \in 0..1,
     pools \in SeqsUpTo(Conditions, 1)}

\* Requests with up to two options, on every subcommand, and requests of the store.
MCCatalog == Catalog({"kind"}, ("h1" :> {"w1"}) @@ ("h2" :> {"w2"}))
NoStore == [command |-> "status", action |-> "", name |-> "", uri |-> "", remote |-> "", path |-> "",
            uid |-> "", paths |-> <<>>]
Request(sub, flags, store, extra) ==
  [sub |-> sub, spec |-> "kind", harness |-> "h1", workload |-> "w1", flags |-> flags, store |-> store,
   extra |-> extra]
Keys == {"stack", "parallel", "dataset", "generate_config", "run_config", "debug", "monitoring",
         "no_monitoring", "wait_timeout", "list_endpoints", "skip", "dry_run", "workspace", "stop_on_error"}
Stores ==
  {[NoStore EXCEPT !.command = c, !.remote = r, !.path = p, !.uid = "uid", !.paths = <<"a", "b">>] :
     c \in {"init", "status", "ls", "add", "rm", "push", "pull"}, r, p \in {"", "word"}}
  \cup {[NoStore EXCEPT !.command = "remote", !.action = a, !.name = n, !.uri = "uri"] :
          a \in {"", "add", "rm", "ls"}, n \in {"", "word"}}
CommandQuestions ==
  {[catalog |-> MCCatalog, request |-> q] :
     q \in {Request(sub, flags, NoStore, extra) :
              sub \in {"plan", "standup", "smoketest", "run", "teardown", "experiment"},
              flags \in {f \in SUBSET Keys : Cardinality(f) <= 2},
              extra \in {<<>>, <<"word">>, <<"--other", "word">>, <<"-d", "--version">>}}
           \cup {[Request(sub, {}, NoStore, <<>>) EXCEPT !.spec = spec, !.workload = w] :
                   sub \in {"plan", "run"}, spec \in {"", "kind", "authored", "else"}, w \in {"", "w1", "w2", "else"}}
           \cup {Request("results", {}, store, extra) : store \in Stores, extra \in {<<>>, <<"--dry-run">>}}}

\* Designs of up to two factors whose levels compare equal or read alike, and scenarios
\* whose knobs lie on or above one another.
Level(type, value, text, number) == [type |-> type, value |-> value, token |-> [text |-> text, number |-> number]]
Levels == {Level("int", "one", "1", 0), Level("bool", "one", "on", 0), Level("str", "a/2", "a", 2),
           Level("str", "a-2", "a", 2), Level("str", "a", "a", 0), Level("str", "a!", "a", 0)}
Factor1 == {[name |-> "f", key |-> "k", levels |-> l] : l \in SeqsUpTo(Levels, 3)}
Factor2 == {[name |-> n, key |-> "j", levels |-> l] : n \in {"f", "g"}, l \in SeqsUpTo(Levels, 1)}
DesignQuestions ==
  {[setup |-> setup, run |-> <<f>>, constants |-> constants, known |-> known] :
     setup \in {<<>>} \cup {<<g>> : g \in Factor2}, f \in Factor1, constants \in BOOLEAN,
     known \in {{}, {"experiment", "treatments", "setup"}}}
  \cup {[setup |-> <<>>, run |-> <<f, g>>, constants |-> FALSE, known |-> {}] : f \in Factor1, g \in Factor2}
Knobs == {<<"a">>, <<"a", "b">>, <<"a", "b", "c">>, <<"d", "b">>, <<"tracing", "x">>}
ScenarioQuestions ==
  {[content |-> content, roots |-> roots, known |-> known] :
     content \in UNION {[keys -> 1..2] : keys \in SUBSET Knobs}, roots \in {{}, {"a"}}, known \in {{}, {"b"}}}

\* Profiles of either layout, with limits, and overrides of them, of both kinds.
Constraint(kind, seconds, count) == [kind |-> kind, seconds |-> seconds, count |-> count]
Limits == {<<>>, <<Constraint("max_requests", {}, {5})>>, <<Constraint("max_duration", {30}, {})>>,
           <<Constraint("max_duration", {30}, {}), Constraint("max_duration", {20}, {5})>>}
Benchmarks ==
  Both(Both(Optional(<<1, "seconds">>, {{10}, {}}), Optional(<<1, "kind">>, {"max_duration", "max_requests"})),
       Both(Optional(<<"kind">>, {"concurrent"}), Optional(<<"rates">>, {<<>>, <<1, 2>>})))
Of(b, limits) == [k \in {k \in DOMAIN b : Len(k) = 2 => k[1] \in DOMAIN limits} |-> b[k]]
Specs ==
  {[layout |-> "spec", spec |-> [kind |-> "constant", rates |-> <<2>>, streams |-> <<4, 8>>, constraints |-> l],
    benchmarks |-> [n \in DOMAIN bs |-> Of(bs[n], l)]] : l \in Limits, bs \in SeqsUpTo(Benchmarks, 1)}
  \cup
  {[layout |-> "spec", spec |-> [kind |-> "constant", rates |-> <<2>>, streams |-> <<4, 8>>, constraints |-> l],
    benchmarks |-> <<Of(b, l), Of(c, l)>>] : l \in {<<Constraint("max_duration", {30}, {})>>}, b, c \in Benchmarks}
Stage(rate, duration) == [rate |-> rate, concurrency |-> {}, duration |-> duration, requests |-> {}]
Flats ==
  {[layout |-> "flat", stages |-> stages, rates |-> rates, maxSeconds |-> m, prompts |-> n, requests |-> r] :
     stages \in SeqsUpTo({Stage(r, d) : r \in Maybe({0, 2}), d \in Maybe({30})}, 2),
     rates \in {<<>>, <<0>>, <<1, 3>>}, m \in Maybe({60}), n \in Maybe({100}), r \in Maybe({50})}
Files == [harness : {"inference-perf", "guidellm"}, base : {"w1", "w2"}, template : BOOLEAN]
EstimateQuestions ==
  {[profile |-> p, files |-> {}] : p \in Specs \cup Flats}
  \cup {[profile |-> CHOOSE p \in Flats : TRUE, files |-> files] : files \in SUBSET Files}

MCQuestions ==
  "run" :> RunQuestions @@ "sweep" :> SweepQuestions @@ "summary" :> SummaryQuestions @@
  "compare" :> CompareQuestions @@ "retention" :> RetentionQuestions @@ "capacity" :> CapacityQuestions @@
  "readiness" :> ReadinessQuestions @@ "command" :> CommandQuestions @@ "design" :> DesignQuestions @@
  "scenario" :> ScenarioQuestions @@ "estimate" :> EstimateQuestions
=============================================================================
