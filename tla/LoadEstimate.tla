---------------------------- MODULE LoadEstimate ----------------------------
(***************************************************************************)
(* The preview of a workload before it is run                              *)
(* (app/tools/analyze/workload_profile.py): which profile a name resolves  *)
(* to, the load it describes in the layout of its harness, and how long a  *)
(* run of it will take. A number that may be missing is a set of at most   *)
(* one element. A profile either has a `spec` and a list of benchmarks,    *)
(* which override dotted keys of it, or is flat: stages, or plain rates.   *)
(***************************************************************************)
EXTENDS Naturals, Sequences, FiniteSets, SequencesExt, FiniteSetsExt

\* The harnesses, in the order they are searched; a file is [harness, base, template].
SearchOrder == <<"inference-perf", "guidellm", "vllm-benchmark">>

\* _read_profile: the first harness that has the workload; its template before its
\* rendered file.
ReadProfile(files, harness, base) ==
  LET of(h) == {f \in files : f.harness = h /\ f.base = base}
      order == IF harness # "" THEN <<harness>> ELSE SearchOrder
      having == {n \in DOMAIN order : of(order[n]) # {}}
      first == of(order[Min(having)])
  IN  IF having = {} THEN {} ELSE {CHOOSE f \in first : f.template \/ \A g \in first : ~g.template}

\* _workloads: what the catalog lists for a harness.
Listed(files, harness) == {f.base : f \in {f \in files : f.harness = harness}}
-----------------------------------------------------------------------------
(* The load. *)

Total(numbers) == SumFunction(numbers)
Only(one) == CHOOSE v \in one : TRUE

\* The numbers that are there, at their places.
Numbers(options) == [n \in {n \in DOMAIN options : options[n] # {}} |-> Only(options[n])]

\* A spec is [kind, rates, streams, constraints], a constraint [kind, seconds, count];
\* a benchmark maps "kind", "rates" and "streams", and <<index, field>> of a constraint
\* that is there, to what takes their place.
Overridden(spec, benchmark) ==
  LET at(key, value) == IF key \in DOMAIN benchmark THEN benchmark[key] ELSE value
      limit(i) == [kind |-> at(<<i, "kind">>, spec.constraints[i].kind),
                   seconds |-> at(<<i, "seconds">>, spec.constraints[i].seconds),
                   count |-> at(<<i, "count">>, spec.constraints[i].count)]
  IN  [kind |-> at(<<"kind">>, spec.kind), rates |-> at(<<"rates">>, spec.rates),
       streams |-> at(<<"streams">>, spec.streams),
       constraints |-> [i \in DOMAIN spec.constraints |-> limit(i)]]

\* The tightest of the constraints of one kind.
Tightest(constraints, kind, field) ==
  LET limits == UNION {constraints[i][field] : i \in {i \in DOMAIN constraints : constraints[i].kind = kind}}
  IN  IF limits = {} THEN {} ELSE {Min(limits)}

\* A stage is [rate, concurrency, duration, requests].
StagesOf(s) ==
  LET concurrent == s.kind = "concurrent"
      values == IF concurrent THEN s.streams ELSE s.rates
      stage(rate, streams) == [rate |-> rate, concurrency |-> streams,
                               duration |-> Tightest(s.constraints, "max_duration", "seconds"),
                               requests |-> Tightest(s.constraints, "max_requests", "count")]
  IN  IF values = <<>> THEN <<stage({}, {})>>
      ELSE [n \in DOMAIN values |-> IF concurrent THEN stage({}, {values[n]}) ELSE stage({values[n]}, {})]

Rates(stages) == Numbers([n \in DOMAIN stages |-> stages[n].rate])
Durations(stages) == Numbers([n \in DOMAIN stages |-> stages[n].duration])

\* Bug: the benchmarks override one spec in turn, so that an override stays in force.
SpecStagesLeaking(p) ==
  FoldLeft(LAMBDA done, b : [spec |-> Overridden(done.spec, b),
                             stages |-> done.stages \o StagesOf(Overridden(done.spec, b))],
           [spec |-> p.spec, stages |-> <<>>], p.benchmarks).stages

\* Each benchmark overrides the spec as it stands in the file; the place of a stage is
\* that of its benchmark and its own among the benchmark's.
SpecStages(p) ==
  LET of(n) == StagesOf(Overridden(p.spec, p.benchmarks[n]))
      places == UNION {{n} \X DOMAIN of(n) : n \in DOMAIN p.benchmarks}
  IN  [s \in places |-> of(s[1])[s[2]]]

\* _guidellm_load_shape: a total only if every stage is bounded in time.
SpecLoad(p) ==
  LET stages == SpecStages(p)
      timed == DOMAIN stages # {} /\ \A n \in DOMAIN stages : stages[n].duration # {}
  IN  [stages |-> stages, rates |-> Rates(stages), maxSeconds |-> {}, requests |-> {},
       total |-> IF timed THEN {Total(Durations(stages))} ELSE {}]

\* _load_shape, of a flat profile: what stages have a duration is summed.
FlatLoad(p) ==
  LET timed == Durations(p.stages)
  IN  [stages |-> p.stages, rates |-> IF DOMAIN p.stages # {} THEN Rates(p.stages) ELSE p.rates,
       maxSeconds |-> p.maxSeconds,
       requests |-> IF p.prompts # {} THEN p.prompts ELSE p.requests,
       total |-> IF DOMAIN timed # {} THEN {Total(timed)} ELSE {}]

LoadShape(p) == IF p.layout = "spec" THEN SpecLoad(p) ELSE FlatLoad(p)
-----------------------------------------------------------------------------
(* The estimate. *)

\* The kinds of fact that would have to be there.
Missing(load) ==
  (IF load.total = {} /\ load.maxSeconds = {} THEN {"duration"} ELSE {})
  \cup (IF DOMAIN load.rates = {} THEN {"rate"} ELSE {})
  \cup (IF load.requests = {} THEN {"requests"} ELSE {})

Estimated(seconds, basis) == [estimable |-> TRUE, seconds |-> seconds, basis |-> basis, missing |-> {}]

\* estimate_run_duration: the first rule that applies.
EstimateRun(load) ==
  LET offered == Total(load.rates)
      count == Cardinality(DOMAIN load.rates)
  IN  IF load.total # {} THEN Estimated(Only(load.total), "stages")
      ELSE IF load.maxSeconds # {} /\ count > 0
        THEN Estimated(Only(load.maxSeconds) * count, "max_seconds")
      ELSE IF load.requests # {} /\ offered > 0
        THEN Estimated((Only(load.requests) * count) \div offered, "requests")
      ELSE [estimable |-> FALSE, seconds |-> 0, basis |-> "none", missing |-> Missing(load)]
-----------------------------------------------------------------------------
(* What the answers are held against. *)

\* The least time limit that a spec's benchmark is under, read off the file.
TimeLimits(p, b) ==
  LET given(i, field) == IF <<i, field>> \in DOMAIN b THEN b[<<i, field>>] ELSE p.spec.constraints[i][field]
  IN  UNION {given(i, "seconds") : i \in {i \in DOMAIN p.spec.constraints : given(i, "kind") = "max_duration"}}

\* With the first of the facts reported missing.
Supplied(load, missing) ==
  IF "duration" \in missing THEN [load EXCEPT !.total = {1}]
  ELSE IF "rate" \in missing THEN [load EXCEPT !.rates = <<1>>]
  ELSE load

\* A profile of several benchmarks is never said to be done before each of them can be,
\* and none is timed that has an unbounded one; no number is made up; and a profile that
\* cannot be estimated can be once the first of the facts reported missing is supplied.
EstimateHonest(p, answer) ==
  LET b(n) == p.benchmarks[n]
  IN  /\ p.layout = "spec" =>
           /\ answer.estimable <=> DOMAIN p.benchmarks # {} /\ \A n \in DOMAIN p.benchmarks : TimeLimits(p, b(n)) # {}
           /\ answer.estimable =>
                answer.seconds >= SumFunction([n \in DOMAIN p.benchmarks |-> Min(TimeLimits(p, b(n)))])
      /\ p.layout = "flat" /\ answer.estimable =>
           \/ \E n \in DOMAIN p.stages : p.stages[n].duration # {} /\ answer.seconds >= Only(p.stages[n].duration)
           \/ p.maxSeconds # {} /\ answer.seconds >= Only(p.maxSeconds)
           \/ p.prompts \cup p.requests # {}
      /\ ~answer.estimable => answer.missing # {} /\ EstimateRun(Supplied(LoadShape(p), answer.missing)).estimable

\* Whatever name the catalog lists can be previewed, of the harness that was asked for.
ListedIsFound(files) ==
  \A h \in {f.harness : f \in files} : \A base \in Listed(files, h) :
    /\ \E f \in ReadProfile(files, h, base) : f.harness = h /\ f.base = base
    /\ ReadProfile(files, "", base) # {}
=============================================================================
