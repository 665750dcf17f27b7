---------------------------- MODULE SweepDesign ----------------------------
(***************************************************************************)
(* What the agent authors before a run: the treatments of a design of      *)
(* experiments (app/validation/doe.py, app/tools/run/doe.py) and the       *)
(* scenario of per-knob overrides (app/tools/setup/config_artifact.py). A  *)
(* factor is [name, key, levels]; a level is [type, value, token]: values  *)
(* of different types may compare equal, as 1, 1.0 and True do, and the    *)
(* token is what is left of it in a name. A token and the name of a        *)
(* treatment are [text, number]: a number it ends in after a hyphen is     *)
(* held apart, 0 being none. A knob is a dotted key, as a sequence of its  *)
(* segments.                                                               *)
(***************************************************************************)
EXTENDS Naturals, Sequences, FiniteSets, SequencesExt, FiniteSetsExt

\* _coerce_factors.
Accepted(factors) ==
  /\ \A n \in DOMAIN factors : factors[n].levels # <<>>
  /\ \A m, n \in DOMAIN factors :
       m # n => factors[m].name # factors[n].name /\ factors[m].key # factors[n].key

\* Every level after each combination of the factors before.
Crossed(combos, levels) ==
  LET L == Len(levels)
  IN  [k \in 1..(Len(combos) * L) |-> Append(combos[((k - 1) \div L) + 1], levels[((k - 1) % L) + 1])]

\* One level of each factor, the last factor varying fastest.
Product(factors) ==
  LET of[n \in 0..Len(factors)] == IF n = 0 THEN << <<>> >> ELSE Crossed(of[n - 1], factors[n].levels)
  IN  of[Len(factors)]

\* Bug: levels that compare equal are one level, whatever their type.
SignatureUntyped(combo) == [n \in DOMAIN combo |-> combo[n].value]

Signature(combo) == [n \in DOMAIN combo |-> <<combo[n].type, combo[n].value>>]

Text(name) == name.text \o (IF name.number = 0 THEN "" ELSE "-" \o ToString(name.number))

TreatmentName(factors, combo) ==
  LET N == Len(combo)
      part(text, n) == text \o factors[n].name \o Text(combo[n].token) \o "-"
      before == FoldLeft(part, "", [n \in 1..(N - 1) |-> n])
  IN  [combo[N].token EXCEPT !.text = before \o factors[N].name \o @]

\* _dedupe_name: the first number that makes the name one of its own.
Deduped(name, taken) ==
  LET numbered(i) == [text |-> Text(name), number |-> i]
  IN  IF name \notin taken THEN name
      ELSE numbered(Min({i \in 2..(Cardinality(taken) + 2) : numbered(i) \notin taken}))

\* A treatment for a combination not seen yet.
Added(rows, factors, combo) ==
  IF \E row \in ToSet(rows) : Signature(row.levels) = Signature(combo) THEN rows
  ELSE Append(rows, [name |-> Deduped(TreatmentName(factors, combo), {row.name : row \in ToSet(rows)}),
                     levels |-> combo])

\* _expand.
Expand(factors) ==
  LET combos == Product(factors)
      rows[n \in 0..Len(combos)] == IF n = 0 THEN <<>> ELSE Added(rows[n - 1], factors, combos[n])
  IN  IF factors = <<>> THEN <<>> ELSE rows[Len(combos)]

\* The document has a part for constants of the run phase only if there are any, and one
\* for the setup phase only if something is varied in it.
Parts(setup, constants) ==
  {"experiment", "treatments"} \cup (IF constants THEN {"design"} ELSE {})
                               \cup (IF setup # <<>> THEN {"setup"} ELSE {})

\* validate_structure, against the parts that the repository's examples use, if there are any.
Structured(rows, parts, known) ==
  /\ rows # <<>> /\ \A m, n \in DOMAIN rows : m # n => rows[m].name # rows[n].name
  /\ known # {} => parts \subseteq known

\* build_doe_experiment and generate_doe_experiment: nothing is written unless the
\* design is well formed and varies something in the run phase.
Generate(setup, run, constants, known) ==
  LET setups == Expand(setup)
      runs   == Expand(run)
      larger(n) == IF n = 0 THEN 1 ELSE n
      generated == /\ Accepted(setup) /\ Accepted(run) /\ run # <<>>
                   /\ Structured(runs, Parts(setup, constants), known)
                   /\ setups # <<>> => Structured(setups, {}, {})
  IN  IF ~generated THEN [generated |-> FALSE]
      ELSE [generated |-> TRUE, setups |-> setups, runs |-> runs,
            matrix |-> larger(Len(setups)) * larger(Len(runs))]
-----------------------------------------------------------------------------
(* Scenarios. A document is a function from the paths of its leaves to their values. *)

\* _deep_set: a value on the way is replaced by a mapping, and a mapping by the value.
DeepSet(document, path, value) ==
  LET clash(p) == IsPrefix(p, path) \/ IsPrefix(path, p)
  IN  [p \in {p \in DOMAIN document : ~clash(p)} \cup {path} |-> IF p = path THEN value ELSE document[p]]

\* Sorted order puts a key before the keys under it.
Sorted(keys) ==
  CHOOSE line \in [1..Cardinality(keys) -> keys] :
    \A m, n \in 1..Cardinality(keys) : m < n => ~IsPrefix(line[n], line[m])

\* _build_scenario_document.
ScenarioDocument(content) ==
  LET line == Sorted(DOMAIN content)
      document[n \in 0..Len(line)] ==
        IF n = 0 THEN <<>> ELSE DeepSet(document[n - 1], line[n], content[line[n]])
  IN  document[Len(line)]

\* unrecognized_flags: advice, and none without the repository to tell from.
Unrecognized(content, known) ==
  {p \in DOMAIN content : known # {} /\ Head(p) # "tracing" /\ Last(p) \notin known \cup {"flags", "name"}}

\* author_scenario: a knob whose root the examples and defaults do not use is refused.
AuthorScenario(content, roots, known) ==
  LET document == ScenarioDocument(content)
  IN  [valid |-> document # <<>> /\ (roots # {} => \A p \in DOMAIN document : Head(p) \in roots \cup {"tracing"}),
       document |-> document, doubtful |-> Unrecognized(content, known)]
-----------------------------------------------------------------------------
(* What the answers are held against. *)

\* A design measures every combination of distinct levels exactly once, whatever levels
\* compare equal or read alike in a name, and every treatment has a name of its own.
SweepComplete(factors, rows) ==
  LET kinds(n) == {<<l.type, l.value>> : l \in ToSet(factors[n].levels)}
      choices == {c \in [DOMAIN factors -> UNION {kinds(n) : n \in DOMAIN factors}] :
                    \A n \in DOMAIN factors : c[n] \in kinds(n)}
      of(row) == [n \in DOMAIN factors |-> <<row.levels[n].type, row.levels[n].value>>]
  IN  /\ {of(row) : row \in ToSet(rows)} = (IF factors = <<>> THEN {} ELSE choices)
      /\ Cardinality({row.name : row \in ToSet(rows)}) = Len(rows)
      /\ Len(rows) = Cardinality({of(row) : row \in ToSet(rows)})

\* Every knob that was set lands in the scenario with its value, unless a knob under it
\* takes its place; no other does.
KnobsLand(content, answer) ==
  /\ DOMAIN answer.document \subseteq DOMAIN content
  /\ \A p \in DOMAIN content :
       \/ p \in DOMAIN answer.document /\ answer.document[p] = content[p]
       \/ \E q \in DOMAIN content \ {p} : IsPrefix(p, q)
=============================================================================
