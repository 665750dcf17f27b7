---------------------------- MODULE AgentStream ----------------------------
(***************************************************************************)
(* One response of the agent engine (app/agent/engine.py): the CLI writes  *)
(* messages into the stream, asks leave for each tool use, and dispatches  *)
(* the calls on another channel; the consumer mirrors messages and emits   *)
(* their text while the tool wrapper (app/tools/mcp_server.py) pairs each  *)
(* dispatch with a tool-use id, and the watchdog counts polls without a    *)
(* message. The uses modelled are of one tool name, the hard case: they    *)
(* share a queue. Without nudging, the watchdog is the Codex engine's      *)
(* (app/agent/codex_engine.py).                                            *)
(***************************************************************************)
EXTENDS Naturals, Sequences, FiniteSets

CONSTANTS
  Uses,      \* 1..N: the tool uses in the order the model makes them
  Payloads,  \* arguments of a call
  MsgOf,     \* the number of the assistant message that carries a use
  Watchdog   \* agent_stream_watchdog_s, in polls

ASSUME AgentStreamAssumption ==
  /\ Uses \subseteq Nat \ {0} /\ IsFiniteSet(Uses) /\ MsgOf \in [Uses -> Nat \ {0}]
  /\ Watchdog \in Nat \ {0}

VARIABLES
  nudging,   \* the engine interrupts a silent CLI before it gives up on it
  payload,   \* what each use asks for
  written,   \* assistant messages the CLI has written into the stream
  read,      \* assistant messages the consumer has processed
  stage,     \* how far each use has come
  pending,   \* _pending_ids of the tool name: uses are stashed in ascending order
  label,     \* the id the dispatch of a use took, 0 before
  results,   \* _results: id |-> the use whose result was recorded, 0 for none
  rows,      \* tool_results rows mirrored: id |-> the use whose result it shows
  wire,      \* text, call and result events in the order they were emitted
  wedged,    \* the CLI has gone silent
  silent, nudged, \* the watchdog's clock
  quiet,     \* polls since the stream last spoke or a poll last saw a tool run
  ended      \* "no", "result" or "stalled"

streamVars == <<nudging, payload, written, read, stage, pending, label, results, rows, wire,
                wedged, silent, nudged, quiet, ended>>
tools == <<pending, label, results, rows>>
clock == <<silent, nudged, quiet>>

Messages == {MsgOf[u] : u \in Uses}
LastMessage == CHOOSE m \in Messages : \A n \in Messages : n <= m
Stages == {"none", "allowed", "retracted", "called", "held", "running", "done", "reported"}

StreamTypeOK ==
  /\ payload \in [Uses -> Payloads] /\ stage \in [Uses -> Stages]
  /\ written \in Nat /\ read \in 0..written
  /\ pending \subseteq Uses /\ label \in [Uses -> Uses \cup {0}]
  /\ results \in [Uses -> Uses \cup {0}] /\ rows \in [Uses -> Uses \cup {0}]
  /\ silent \in Nat /\ quiet \in Nat /\ nudged \in BOOLEAN /\ wedged \in BOOLEAN
  /\ ended \in {"no", "result", "stalled"} /\ nudging \in BOOLEAN

StreamInit ==
  /\ nudging \in BOOLEAN /\ payload \in [Uses -> Payloads]
  /\ written = 0 /\ read = 0 /\ stage = [u \in Uses |-> "none"] /\ pending = {}
  /\ label = [u \in Uses |-> 0] /\ results = [u \in Uses |-> 0] /\ rows = [u \in Uses |-> 0]
  /\ wire = <<>> /\ wedged = FALSE /\ silent = 0 /\ nudged = FALSE /\ quiet = 0 /\ ended = "no"

Depth == Cardinality({u \in Uses : stage[u] \in {"called", "held", "running"}})
Moved(u, s) == stage' = [stage EXCEPT ![u] = s]
Speaks == silent' = 0 /\ nudged' = FALSE /\ quiet' = 0
-----------------------------------------------------------------------------
(* The CLI. A message is written before its uses are allowed or dispatched. *)

CliWrites ==
  /\ ended = "no" /\ ~wedged /\ written < LastMessage
  /\ written' = written + 1
  /\ UNCHANGED <<nudging, payload, read, stage, tools, wire, wedged, clock, ended>>

\* can_use_tool allows the use: its id and arguments are stashed.
Allow(u) ==
  /\ ended = "no" /\ ~wedged /\ stage[u] = "none" /\ MsgOf[u] <= written
  /\ \A v \in Uses : v < u => stage[v] # "none"
  /\ Moved(u, "allowed") /\ pending' = pending \cup {u}
  /\ UNCHANGED <<nudging, payload, written, read, label, results, rows, wire, wedged, clock, ended>>

\* An allowed use may never be dispatched; what was stashed for it stays.
Retract(u) ==
  /\ ended = "no" /\ stage[u] = "allowed"
  /\ Moved(u, "retracted")
  /\ UNCHANGED <<nudging, payload, written, read, tools, wire, wedged, clock, ended>>

\* Calls are dispatched in the order they were allowed, whatever is still running.
Dispatch(u) ==
  /\ ended = "no" /\ ~wedged /\ stage[u] = "allowed"
  /\ \A v \in Uses : v < u => stage[v] # "allowed"
  /\ Moved(u, "called")
  /\ UNCHANGED <<nudging, payload, written, read, tools, wire, wedged, clock, ended>>

Wedge ==
  /\ ended = "no" /\ ~wedged
  /\ wedged' = TRUE
  /\ UNCHANGED <<nudging, payload, written, read, stage, tools, wire, clock, ended>>
-----------------------------------------------------------------------------
(* The wrapper, under the tool lock. *)

Oldest(ids) == CHOOSE v \in ids : \A w \in ids : v <= w

\* Bug: ids are popped in the order they were stashed.
FirstInFirstOut(u) == Oldest(pending)

\* take_tool_use_id: the first id stashed with these arguments is preferred, else the oldest.
TakenId(u) ==
  LET alike == {v \in pending : payload[v] = payload[u]}
  IN  Oldest(IF alike # {} THEN alike ELSE pending)

Take(u) ==
  /\ stage[u] = "called" /\ \A v \in Uses : stage[v] \notin {"held", "running"}
  /\ label' = [label EXCEPT ![u] = TakenId(u)]
  /\ pending' = pending \ {TakenId(u)}
  /\ Moved(u, "held")
  /\ UNCHANGED <<nudging, payload, written, read, results, rows, wire, wedged, clock, ended>>

\* Bug: the call is announced as soon as it is dispatched.
MirroredAtOnce(t) == TRUE
Mirrored(t) == MsgOf[t] <= read

\* wait_mirrored, then TOOL_CALL.
Start(u) ==
  /\ stage[u] = "held" /\ Mirrored(label[u])
  /\ Moved(u, "running") /\ wire' = Append(wire, <<"call", label[u]>>)
  /\ UNCHANGED <<nudging, payload, written, read, tools, wedged, clock, ended>>

\* TOOL_RESULT, and the result is handed to the engine under the id taken.
Finish(u) ==
  /\ stage[u] = "running"
  /\ Moved(u, "done") /\ wire' = Append(wire, <<"result", label[u]>>)
  /\ results' = [results EXCEPT ![label[u]] = u]
  /\ UNCHANGED <<nudging, payload, written, read, pending, label, rows, wedged, clock, ended>>
-----------------------------------------------------------------------------
(* The consumer and its watchdog. *)

\* An AssistantMessage: names_by_id, the mirror, ASSISTANT_TEXT, note_mirrored.
ReadMessage ==
  /\ ended = "no" /\ read < written
  /\ read' = read + 1 /\ wire' = Append(wire, <<"text", read + 1>>)
  /\ Speaks
  /\ UNCHANGED <<nudging, payload, written, stage, tools, wedged, ended>>

\* A ToolResultBlock: the result recorded under its id is mirrored; the CLI's own
\* content stands in when there is none.
ReadResult(u) ==
  /\ ended = "no" /\ ~wedged /\ stage[u] = "done" /\ read = written
  /\ Moved(u, "reported")
  /\ rows' = [rows EXCEPT ![u] = IF results[u] # 0 THEN results[u] ELSE u]
  /\ results' = [results EXCEPT ![u] = 0]
  /\ Speaks
  /\ UNCHANGED <<nudging, payload, written, read, pending, label, wire, wedged, ended>>

\* The ResultMessage ends the response.
ReadEnd ==
  /\ ended = "no" /\ ~wedged /\ read = LastMessage
  /\ \A u \in Uses : stage[u] \in {"retracted", "reported"}
  /\ ended' = "result"
  /\ UNCHANGED <<nudging, payload, written, read, stage, tools, wire, wedged, clock>>

\* Bug: a poll that sees a tool run skips its tick but keeps the silence before it.
PollDuringToolKeeping == UNCHANGED <<silent, nudged, ended>> /\ quiet' = 0
PollDuringTool == silent' = 0 /\ quiet' = 0 /\ UNCHANGED <<nudged, ended>>

\* The clocks stop where nothing is decided any more.
Later(n) == IF n < Watchdog + 2 THEN n + 1 ELSE n

\* Bug: after the nudge the clock is not looked at again.
GivesUpNever(s) == ~nudging /\ s >= Watchdog
GivesUp(s) == IF nudging THEN nudged /\ s >= Watchdog + 2 ELSE s >= Watchdog

\* A poll of _next_message passes without a message.
Poll ==
  /\ ended = "no" /\ read = written
  /\ IF Depth > 0 THEN PollDuringTool
     ELSE /\ silent' = Later(silent) /\ quiet' = Later(quiet)
          /\ nudged' = (nudged \/ (nudging /\ silent' >= Watchdog))
          /\ ended' = IF GivesUp(silent') THEN "stalled" ELSE "no"
  /\ UNCHANGED <<nudging, payload, written, read, stage, tools, wire, wedged>>

StreamNext ==
  \/ CliWrites \/ Wedge \/ ReadMessage \/ ReadEnd \/ Poll
  \/ \E u \in Uses : \/ Allow(u) \/ Retract(u) \/ Dispatch(u)
                     \/ Take(u) \/ Start(u) \/ Finish(u) \/ ReadResult(u)

\* The event loop polls and reads; a tool may run, or wait at its gate, for ever.
StreamFairness == WF_streamVars(Poll) /\ WF_streamVars(ReadMessage)
StreamSpec == StreamInit /\ [][StreamNext]_streamVars /\ StreamFairness
-----------------------------------------------------------------------------
\* Every event, result and mirrored row carries the id of a use that asked for the
\* very same thing, although uses are allowed and then never dispatched.
NeverCrossLabelled ==
  \A u \in Uses : /\ label[u] # 0 => payload[label[u]] = payload[u]
                  /\ rows[u] # 0 => payload[rows[u]] = payload[u]

\* A tool row never reaches the page before the text that introduces it, though
\* the dispatch and the text travel on two channels.
TextFirst ==
  \A n \in DOMAIN wire : wire[n][1] = "call" =>
    \E m \in 1..(n - 1) : wire[m] = <<"text", MsgOf[wire[n][2]]>>

\* The turn is given up only after a full watchdog of polls in which the stream
\* was silent and no tool was running: silence before a tool does not count.
StallsOnlyInSilence ==
  ended = "stalled" => quiet >= IF nudging THEN Watchdog + 2 ELSE Watchdog

\* A CLI that goes silent does not hold the turn for ever: a tool is running or
\* the turn ends.
WedgeEnds == wedged ~> (ended # "no" \/ Depth > 0)
=============================================================================
