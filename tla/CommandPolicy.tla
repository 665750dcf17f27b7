--------------------------- MODULE CommandPolicy ---------------------------
(***************************************************************************)
(* How a request for the benchmark CLI becomes a command and is judged:    *)
(* the argv that execute_llmdbenchmark composes (app/tools/run/execute.py),*)
(* the policy's entry for the CLI (security/command_policy.yaml), the      *)
(* generic walk that validates the one against the other                   *)
(* (app/security/_validator.py, app/security/policy.py) and the session    *)
(* plan it is composed from (app/validation/session_plan.py). A token is a *)
(* string, an option if it is one of Options; "" is a field not given.     *)
(***************************************************************************)
EXTENDS Integers, Sequences, FiniteSets, SequencesExt

\* An option takes a value, makes the command one that only reads, or neither, wherever
\* the policy knows it.
Valued   == {"--spec", "--workspace", "-p", "-l", "-w", "-r", "-e", "--stack", "--parallel", "-c", "-x",
             "--wait-timeout", "--run-uid"}
Triggers == {"-n", "--dry-run", "-z", "--list-endpoints", "--version"}
Bare     == {"-d", "--generate-config", "--monitoring", "--no-monitoring", "--stop-on-error"}
Options  == Valued \cup Triggers \cup Bare \cup {"--other"}

\* "*" stands for a pattern that every word of the instance matches, as for a positional.
Allowed(option, catalog) ==
  CASE option = "--spec" -> catalog.specs \cup {"authored"}
    [] option = "-l"     -> catalog.harnesses
    [] option = "-w"     -> catalog.workloads
    [] OTHER             -> {"*"}

Positional(optional, repeated) == [optional |-> optional, repeated |-> repeated]
Required == Positional(FALSE, FALSE)

\* `flags` are the options an entry knows.
Leaf(mode, flags, positionals) ==
  [mode |-> mode, flags |-> flags, positionals |-> positionals, nested |-> <<>>]
Group(nested) == [mode |-> "read_only", flags |-> {}, positionals |-> <<>>, nested |-> nested]
Preview == {"-n", "--dry-run"}
GlobalFlags == {"--spec", "--workspace", "--version"}

\* The CLI's entry, with a representative of each kind of option of a subcommand.
Remotes ==
  [action \in {"add", "rm", "ls"} |->
     CASE action = "add" -> Leaf("mutating", {}, <<Required, Required>>)
       [] action = "rm"  -> Leaf("mutating", {}, <<Required>>)
       [] action = "ls"  -> Leaf("read_only", {}, <<>>)]
StoreCommands ==
  [command \in {"init", "status", "ls", "remote", "add", "rm", "push", "pull"} |->
     CASE command \in {"init", "status"} -> Leaf("read_only", {}, <<>>)
       [] command = "ls"                 -> Leaf("read_only", {}, <<Required>>)
       [] command = "remote"             -> Group(Remotes)
       [] command \in {"add", "rm"}      -> Leaf("mutating", {}, <<Positional(FALSE, TRUE)>>)
       [] command = "push" -> Leaf("mutating", {}, <<Positional(TRUE, FALSE), Positional(TRUE, FALSE)>>)
       [] command = "pull" -> Leaf("mutating", {"--run-uid"}, <<Positional(TRUE, TRUE)>>)]
Subcommands ==
  [sub \in {"plan", "standup", "smoketest", "run", "teardown", "experiment", "results"} |->
     CASE sub = "plan"      -> Leaf("read_only", Preview \cup {"-p", "--monitoring"}, <<>>)
       [] sub = "standup"   -> Leaf("mutating", Preview \cup {"-p", "--stack", "--parallel", "--monitoring",
                                                              "--no-monitoring"}, <<>>)
       [] sub = "smoketest" -> Leaf("mutating", Preview \cup {"-p", "--stack", "--parallel"}, <<>>)
       [] sub = "run"       -> Leaf("mutating", Preview \cup {"-p", "-l", "-w", "-r", "-e", "--stack", "-c", "-x",
                                      "--wait-timeout", "-d", "--monitoring", "--generate-config", "-z",
                                      "--list-endpoints"}, <<>>)
       [] sub = "teardown"  -> Leaf("mutating", Preview \cup {"-p", "--stack"}, <<>>)
       [] sub = "experiment" -> Leaf("mutating", Preview \cup {"-p", "-l", "-w", "-r", "-e", "--parallel", "-x",
                                      "--wait-timeout", "-d", "--monitoring", "--stop-on-error"}, <<>>)
       [] sub = "results"   -> Group(StoreCommands)]

\* Checked when the policy is loaded: only the last positional may repeat.
WellFormed(entry) ==
  \A n \in 1..(Len(entry.positionals) - 1) : ~entry.positionals[n].repeated

Entries == Range(Subcommands) \cup Range(StoreCommands) \cup Range(Remotes)

ASSUME PolicyLoads == \A entry \in Entries : WellFormed(entry)
-----------------------------------------------------------------------------
(* The walk. *)

Rejected == "rejected"

IsOption(token) == token \in Options
Fits(value, values) == "*" \in values \/ value \in values

\* find_subcommand_index, 0 if there is none: an option that is not known takes no value.
FindSubcommand(tokens, flags) ==
  LET value[n \in 0..Len(tokens)] == n > 1 /\ ~value[n - 1] /\ tokens[n - 1] \in flags \cap Valued
      words == {n \in DOMAIN tokens : ~IsOption(tokens[n]) /\ ~value[n]}
  IN  IF words = {} THEN 0 ELSE Min(words)

HasTrigger(tokens, flags) == \E n \in DOMAIN tokens : tokens[n] \in flags \cap Triggers

\* One step of `walk` over the tokens; `next` is the first one not consumed yet.
Consume(s, n, tokens, flags, catalog) ==
  LET token == tokens[n]
      known == token \in flags
      value == n < Len(tokens)
      taken == IF known THEN token \in Valued ELSE value /\ ~IsOption(tokens[n + 1])
  IN  CASE n < s.next -> s
        [] n >= s.next /\ IsOption(token) ->
             [s EXCEPT !.next = IF taken THEN n + 2 ELSE n + 1,
                       !.ok = @ /\ (known /\ taken => value /\ Fits(tokens[n + 1], Allowed(token, catalog))),
                       !.triggered = @ \/ (known /\ token \in Triggers)]
        [] n >= s.next /\ ~IsOption(token) /\ s.left = <<>> -> [s EXCEPT !.ok = FALSE]
        [] OTHER -> [s EXCEPT !.matched = Head(s.left).repeated,
                              !.left = IF Head(@).repeated THEN @ ELSE Tail(@)]

\* The mode of a region, or a rejection; `triggered` by the regions before it.
Walk(tokens, flags, positionals, base, triggered, catalog) ==
  LET start == [next |-> 1, ok |-> TRUE, triggered |-> triggered, matched |-> FALSE, left |-> positionals]
      at[n \in 0..Len(tokens)] == IF n = 0 THEN start ELSE Consume(at[n - 1], n, tokens, flags, catalog)
      end == at[Len(tokens)]
      missing == {n \in DOMAIN end.left : ~end.left[n].optional /\ ~(end.left[n].repeated /\ end.matched)}
  IN  IF ~end.ok \/ missing # {} THEN Rejected ELSE IF end.triggered THEN "read_only" ELSE base

\* Bug: a preview option counts wherever it stands.
TriggeredAnywhere(regions, leafFlags) ==
  \E n \in DOMAIN regions : HasTrigger(regions[n].tokens, leafFlags \cup regions[n].flags)

\* A trigger in the region before a subcommand counts only if it is one there.
Triggered(regions, leafFlags) == \E n \in DOMAIN regions : HasTrigger(regions[n].tokens, regions[n].flags)

\* walk_subcommand, one level of it: `tokens` are those after the subcommand whose entry
\* this is, `outer` the flags it inherits and `regions` what stood before; the verdict is
\* "open" until an entry without subcommands is reached or the command is refused.
Deeper(s, catalog) ==
  LET flags  == s.entry.flags \cup s.outer
      at     == FindSubcommand(s.tokens, flags)
      before == SubSeq(s.tokens, 1, at - 1)
      named  == at # 0 /\ s.tokens[at] \in DOMAIN s.entry.nested
  IN  CASE s.verdict # "open" -> s
        [] s.verdict = "open" /\ s.entry.nested = <<>> ->
             [s EXCEPT !.verdict = Walk(s.tokens, flags, s.entry.positionals, s.entry.mode,
                                        Triggered(s.regions, flags), catalog)]
        [] s.verdict = "open" /\ s.entry.nested # <<>> /\ named
             /\ Walk(before, flags, <<>>, "read_only", FALSE, catalog) # Rejected ->
             [s EXCEPT !.entry = @.nested[s.tokens[at]], !.outer = flags,
                       !.tokens = SubSeq(@, at + 1, Len(@)),
                       !.regions = Append(@, [tokens |-> before, flags |-> flags])]
        [] OTHER -> [s EXCEPT !.verdict = Rejected]

\* Each level takes a token at least.
WalkSubcommand(entry, tokens, outer, catalog) ==
  LET start == [entry |-> entry, tokens |-> tokens, outer |-> outer, regions |-> <<>>, verdict |-> "open"]
      level[d \in 0..(Len(tokens) + 1)] == IF d = 0 THEN start ELSE Deeper(level[d - 1], catalog)
  IN  level[Len(tokens) + 1].verdict

\* CommandPolicy.validate, of a command of the CLI: the CLI itself is a group.
Validate(argv, catalog) ==
  LET rest == Tail(argv)
  IN  IF FindSubcommand(rest, GlobalFlags) = 0 /\ HasTrigger(rest, GlobalFlags)
        THEN Walk(rest, GlobalFlags, <<>>, "read_only", FALSE, catalog)
      ELSE WalkSubcommand(Group(Subcommands), rest, GlobalFlags, catalog)
-----------------------------------------------------------------------------
(* Composition. A request is [sub, spec, harness, workload, flags, store, extra], flags
   being the set of the keys given, store a request for the results store and extra the
   tokens passed through. *)

Given(option, value) == IF value = "" THEN <<>> ELSE <<option, value>>
On(condition, tokens) == IF condition THEN tokens ELSE <<>>
Named(word) == On(word # "", <<word>>)

\* _SUBCOMMAND_FLAGS: the options that are emitted only on some subcommands.
SubcommandFlags(sub, flags) ==
  LET given(key, subs, tokens) == On(key \in flags /\ sub \in subs, tokens)
  IN  given("stack", {"standup", "smoketest", "run", "teardown"}, <<"--stack", "pool">>)
      \o given("parallel", {"standup", "smoketest", "experiment"}, <<"--parallel", "2">>)
      \o given("dataset", {"run", "experiment"}, <<"-x", "url">>)
      \o given("generate_config", {"run"}, <<"--generate-config">>)
      \o given("run_config", {"run"}, <<"-c", "file">>)
      \o given("debug", {"run", "experiment"}, <<"-d">>)

\* Monitoring can be turned off only on standup; a phase timeout rides only where the
\* phase is.
Toggles(sub, flags) ==
  On("stop_on_error" \in flags, <<"--stop-on-error">>)
  \o On("monitoring" \in flags, <<"--monitoring">>)
  \o On("no_monitoring" \in flags /\ sub = "standup", <<"--no-monitoring">>)
  \o On("wait_timeout" \in flags /\ sub \in {"run", "experiment"}, <<"--wait-timeout", "2">>)
  \o On("list_endpoints" \in flags, <<"--list-endpoints">>)
  \o On("skip" \in flags, <<"-z">>) \o On("dry_run" \in flags, <<"--dry-run">>)

\* _build_results_store_argv: the fields that a command needs, and its words. A path to
\* push is held in the second place.
Needed(store) ==
  CASE store.command = "remote" /\ store.action = "add" -> <<store.name, store.uri>>
    [] store.command = "remote" /\ store.action = "rm" -> <<store.name>>
    [] store.command = "ls" -> <<store.remote>>
    [] store.command = "pull" -> <<store.uid>>
    [] OTHER -> <<>>
StoreWords(store) ==
  CASE store.command \in {"add", "rm"} -> store.paths
    [] store.command = "remote" -> <<store.action>> \o Needed(store)
    [] store.command = "push" ->
         (IF store.remote = "" /\ store.path # "" THEN <<"staging">> ELSE Named(store.remote)) \o Named(store.path)
    [] store.command = "pull" -> Named(store.remote) \o <<"--run-uid", store.uid>>
    [] OTHER -> Needed(store)

\* No argv if a field that is needed is not given.
StoreArgv(store) ==
  IF "" \in ToSet(Needed(store)) THEN {} ELSE {<<store.command>> \o StoreWords(store)}

\* execute_llmdbenchmark: what measures writes under the workspace of its session.
Anchored(q) ==
  IF q.sub = "run" /\ q.flags \cap {"list_endpoints", "dry_run"} = {} THEN q.flags \cup {"output", "workspace"}
  ELSE IF q.sub = "experiment" /\ "dry_run" \notin q.flags THEN q.flags \cup {"workspace"} ELSE q.flags

\* build_argv.
BuildArgv(q) ==
  LET flags == Anchored(q)
      head == <<"llmdbenchmark">> \o Given("--spec", q.spec)
              \o On("workspace" \in flags, <<"--workspace", "here">>) \o <<q.sub>>
  IN  IF q.sub = "results" THEN {head \o words \o q.extra : words \in StoreArgv(q.store)}
      ELSE {head \o <<"-p", "ns">> \o Given("-l", q.harness) \o Given("-w", q.workload)
            \o On("output" \in flags, <<"-r", "local">>) \o On("experiments" \in flags, <<"-e", "file">>)
            \o SubcommandFlags(q.sub, flags) \o Toggles(q.sub, flags) \o q.extra}

\* _result_location.
ResultLocation(q, parsed) ==
  IF q.sub = "experiment" THEN On("workspace" \in Anchored(q), <<"experiment">>)
  ELSE IF parsed # <<>> THEN parsed ELSE On("output" \in Anchored(q), <<"results">>)

\* validate_plan: the pair of harness and workload is checked where the catalog lists
\* the workloads of the harness; an empty list checks nothing.
ValidatePlan(plan, catalog) ==
  LET scoped == IF plan.harness \in DOMAIN catalog.byHarness THEN catalog.byHarness[plan.harness]
                ELSE catalog.workloads
  IN  /\ catalog.specs # {} => plan.spec \in catalog.specs
      /\ catalog.harnesses # {} => plan.harness \in catalog.harnesses
      /\ scoped # {} => plan.workload \in scoped

\* build_catalog, of a repository with these specifications and profiles.
Catalog(specs, profiles) ==
  [specs |-> specs, harnesses |-> DOMAIN profiles, workloads |-> UNION {profiles[h] : h \in DOMAIN profiles},
   byHarness |-> [h \in {h \in DOMAIN profiles : profiles[h] # {}} |-> profiles[h]]]
-----------------------------------------------------------------------------
(* What the answers are held against. *)

\* External. What the CLI's own parser makes of an option, which differs by subcommand.
Effect(sub, option) ==
  CASE option \in {"-n", "--dry-run"} /\ sub # "results" -> "preview"
    [] option = "-z" /\ sub = "run" -> "collect"
    [] option = "--list-endpoints" /\ sub = "run" -> "list"
    [] option = "-d" /\ sub = "teardown" -> "deep"
    [] option = "--version" -> "version"
    [] OTHER -> "other"
Harmless == {"preview", "collect", "list", "version"}

\* A command runs without an approval exactly if it changes nothing beyond the store's
\* own directory, whichever options are combined on whichever subcommand; a preview option
\* before the subcommand, where the CLI may ignore it, never counts. What is asked of one
\* subcommand never turns into the destructive meaning the same option has on another,
\* unless it was passed through as such; what measures can be found again; and what an
\* approved plan names is let through.
Judged(q, catalog, argv) ==
  LET mode == Validate(argv, catalog)
      effects == {Effect(q.sub, argv[n]) : n \in DOMAIN argv}
      lists == \/ q.store.command \in {"init", "status", "ls"}
               \/ q.store.command = "remote" /\ q.store.action = "ls"
      reads == q.sub = "plan" \/ effects \cap Harmless # {} \/ (q.sub = "results" /\ lists)
  IN  /\ mode # Rejected => (mode = "read_only" <=> reads)
      /\ Validate(InsertAt(argv, 2, "-n"), catalog) = mode
      /\ "deep" \in effects => "-d" \in ToSet(q.extra)
      /\ "dry_run" \in q.flags /\ q.sub # "results" => "preview" \in effects
      /\ q.sub \in {"run", "experiment"} /\ mode = "mutating" => ResultLocation(q, <<>>) # <<>>
      /\ q.sub = "results" /\ q.store.command = "push" /\ q.store.path # "" =>
           \E n \in DOMAIN argv : argv[n] = "push" /\ argv[n + 2] = q.store.path
      /\ ValidatePlan(q, catalog) /\ q.sub # "results" /\ q.extra = <<>> => mode # Rejected

GateMatchesEffect(q, catalog) == \A argv \in BuildArgv(q) : Judged(q, catalog, argv)
=============================================================================
