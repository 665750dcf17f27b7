--------------------------- MODULE ReportCompare ---------------------------
(***************************************************************************)
(* From report files to a comparison (app/validation/report.py,            *)
(* app/validation/report_metrics.py, app/tools/analyze/compare.py): which  *)
(* reports a request resolves to, which of them load and validate, what is *)
(* read off one, the side-by-side comparison against a baseline and the    *)
(* contrast of harnesses. A report is [mtime, state, harness, model,       *)
(* metrics]: state is "unreadable", "fatal", "newer" (only properties the  *)
(* schema does not know, which is no error) or "clean"; metrics is a       *)
(* function from the metrics it carries to [units, stats]. A value that    *)
(* may be missing is a set of at most one element.                         *)
(***************************************************************************)
EXTENDS RunVerdicts

Compared == Objectives
FamilyUnits == [latency |-> {"ms", "s"}, throughput |-> {"tokens_s"}]

\* find_reports: what is found under the roots, each the set of reports there,
\* oldest first.
FindReports(roots) ==
  LET found == UNION roots
  IN  CHOOSE line \in [1..Cardinality(found) -> found] :
        \A m, n \in 1..Cardinality(found) : m < n => line[m].mtime < line[n].mtime
Newest(root) == IF root = {} THEN {} ELSE {FindReports({root})[Cardinality(root)]}

\* resolve_report_inputs: an experiment directory takes precedence, with every
\* report in it; of each other source the newest counts. Sources keep their place.
Resolve(sources, experiment) ==
  IF experiment # {} THEN [n \in 1..Cardinality(experiment) |-> {FindReports({experiment})[n]}]
  ELSE [n \in DOMAIN sources |-> Newest(sources[n])]

\* iter_loaded_reports and validate_report: the places of the inputs that stay, in order.
Loads(input) == \E r \in input : r.state # "unreadable"
IsValid(input) == \E r \in input : r.state \in {"newer", "clean"}
ValidPlaces(inputs) ==
  LET valid == {n \in DOMAIN inputs : IsValid(inputs[n])}
  IN  CHOOSE places \in [1..Cardinality(valid) -> valid] :
        \A m, n \in 1..Cardinality(valid) : m < n => places[m] < places[n]
Skipped(inputs) == {n \in DOMAIN inputs : ~Loads(inputs[n]) \/ ~IsValid(inputs[n])}
Runs(inputs) ==
  LET places == ValidPlaces(inputs)
  IN  [n \in DOMAIN places |-> CHOOSE r \in inputs[places[n]] : TRUE]
-----------------------------------------------------------------------------
(* What is read off one report. *)

\* The first stack component that names a model.
ModelOf(stack) ==
  LET named == {n \in DOMAIN stack : stack[n] # ""}
  IN  IF named = {} THEN {} ELSE {stack[Min(named)]}

\* In hundredths of a percent, to the nearest one.
SuccessRate(total, failures) ==
  IF total = 0 THEN {} ELSE {(20000 * (total - failures) + total) \div (2 * total)}

\* _extract_standard_metric: the catalog's fields in its order, each looked up in
\* every component; the result is the place <<component, field>>.
StandardField(fields, components) ==
  LET places == {p \in (DOMAIN components) \X (DOMAIN fields) : fields[p[2]] \in DOMAIN components[p[1]]}
  IN  IF places = {} THEN {} ELSE
      {CHOOSE p \in places : \A q \in places : p[2] < q[2] \/ (p[2] = q[2] /\ p[1] <= q[1])}

\* _native_stat: the cluster-wide block, else the first component that has one.
NativeStat(entry) ==
  LET blocks == {n \in DOMAIN entry.components : entry.components[n] # {}}
  IN  IF entry.aggregated # {} THEN entry.aggregated
      ELSE IF blocks # {} THEN entry.components[Min(blocks)] ELSE {}

\* The harness's own entries count only where no standardized field is present.
StandardMetric(fields, keys, components, native) ==
  LET present == {n \in DOMAIN keys : keys[n] \in DOMAIN native /\ NativeStat(native[keys[n]]) # {}}
      place   == StandardField(fields, components)
  IN  IF place # {} THEN {components[p[1]][fields[p[2]]] : p \in place}
      ELSE IF present # {} THEN NativeStat(native[keys[Min(present)]]) ELSE {}
-----------------------------------------------------------------------------
(* Side by side. *)

\* Bug: values are compared as they were reported.
ToCanonicalRaw(value, units, family) == value

\* _to_canonical: onto the unit of the metric's family; a value in any other unit,
\* or without one, is passed through.
ToCanonical(value, units, family) ==
  IF units \in FamilyUnits[family] THEN value * Factor[units] ELSE value

RowValue(run, o) ==
  IF Value(run, o) = Nothing THEN {}
  ELSE {ToCanonical(Value(run, o), run.metrics[o.name].units, o.family)}

\* The requested input, if it is valid, wherever the skipped ones leave it; else
\* the first valid one.
Baseline(inputs, requested) ==
  LET places == ValidPlaces(inputs)
  IN  IF \E n \in DOMAIN places : places[n] = requested
        THEN CHOOSE n \in DOMAIN places : places[n] = requested ELSE 1

\* _build_metric_row.
Row(runs, o, base) ==
  LET present == {n \in DOMAIN runs : RowValue(runs[n], o) # {}}
      value(n) == CHOOSE v \in RowValue(runs[n], o) : TRUE
      best == IF o.better = "min" THEN Min({value(n) : n \in present}) ELSE Max({value(n) : n \in present})
  IN  [metric |-> o,
       delta  |-> [n \in DOMAIN runs |-> IF {n, base} \subseteq present THEN {value(n) - value(base)} ELSE {}],
       best   |-> Min({n \in present : value(n) = best})]

\* A row for each metric that two runs carry.
Rows(runs, base) ==
  LET shown == {o \in ToSet(Compared) : Cardinality({n \in DOMAIN runs : RowValue(runs[n], o) # {}}) >= 2}
  IN  {Row(runs, o, base) : o \in shown}

\* compare_reports: no answer without two valid reports.
CompareReports(inputs, requested) ==
  LET base == Baseline(inputs, requested)
  IN  [compared |-> Len(ValidPlaces(inputs)) >= 2, skipped |-> Skipped(inputs), base |-> base,
       rows |-> IF Len(ValidPlaces(inputs)) >= 2 THEN Rows(Runs(inputs), base) ELSE {}]
-----------------------------------------------------------------------------
(* Across harnesses. *)

\* The harnesses that measured a metric; a report that names none is listed, but
\* cross-validates nothing.
MeasuredBy(runs, o) ==
  {h \in {runs[n].harness : n \in DOMAIN runs} \ {"unknown"} :
     \E n \in DOMAIN runs : runs[n].harness = h /\ Value(runs[n], o) # Nothing}

\* The first run of the harness that carries the metric speaks for it.
Speaker(runs, h, o) ==
  Min({n \in DOMAIN runs : runs[n].harness = h /\ Value(runs[n], o) # Nothing})

\* compare_across_harnesses, of two real harnesses at least.
CompareAcross(runs) ==
  LET objectives == ToSet(Compared)
      shared == {o \in objectives : Cardinality(MeasuredBy(runs, o)) >= 2}
  IN  [compared |-> Cardinality({runs[n].harness : n \in DOMAIN runs} \ {"unknown"}) >= 2,
       shared   |-> shared,
       unique   |-> {o \in objectives : Cardinality(MeasuredBy(runs, o)) = 1},
       speakers |-> [o \in shared |-> {Speaker(runs, h, o) : h \in MeasuredBy(runs, o)}],
       sameModel |-> Cardinality({runs[n].model : n \in DOMAIN runs}) <= 1]
-----------------------------------------------------------------------------
(* What the answers are held against. *)

\* The same quantity in the smallest unit, whatever it was reported in.
Physical(run, o) == Value(run, o) * (IF run.metrics[o.name].units = "s" THEN 1000 ELSE 1)

\* The winner of a row is the best run of those that carry the metric, and deltas
\* are against the run that was asked for, though reports use different units and
\* others before it were dropped.
ComparisonFair(inputs, requested, answer) ==
  LET runs == Runs(inputs)
      asked == {n \in DOMAIN runs : ValidPlaces(inputs)[n] = requested}
  IN  \A row \in answer.rows :
        LET carry == {n \in DOMAIN runs : Value(runs[n], row.metric) # Nothing}
        IN  /\ \A n \in carry : IF row.metric.better = "min"
                 THEN Physical(runs[row.best], row.metric) <= Physical(runs[n], row.metric)
                 ELSE Physical(runs[row.best], row.metric) >= Physical(runs[n], row.metric)
            /\ \A b \in asked \cap carry, n \in carry :
                 row.delta[n] = {Physical(runs[n], row.metric) - Physical(runs[b], row.metric)}
=============================================================================
