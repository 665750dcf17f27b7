------------------------------ MODULE ChatSession ------------------------------
(***************************************************************************)
(* One chat of the backend: the WebSocket handlers attached to it           *)
(* (app/main.py), the channel that links a turn to the attached socket       *)
(* (app/agent/channel.py), the turn task and the agent engine that drives it  *)
(* (app/agent/engine.py), its approval gates, and the run registry through    *)
(* which a turn is stopped (app/agent/lifecycle.py).                         *)
(*                                                                          *)
(* Everything runs on one asyncio loop: an action is what one task does       *)
(* between two awaits, and task.cancel() only marks a task, whose next step   *)
(* is then CancelledError at the await where it stands.                      *)
(*                                                                          *)
(* Left out: what the events say and how they are numbered and replayed, the  *)
(* handshake's awaits, the model picker, ping, malformed frames, usage        *)
(* accounting, and `busy`: a turn for which it is set is also `running`, so   *)
(* the guard without it allows no less.                                      *)
(***************************************************************************)
EXTENDS Naturals, Sequences, FiniteSets

CONSTANTS
    Conns,          \* browser tabs that may open a socket on this chat
    NoConn,         \* no socket
    Channels,       \* identities of Channel objects (garbage ones are reused)
    NoChannel,      \* no Channel
    Gates,          \* approval requests
    MaxMessages,    \* bound: how many messages the user sends
    Hazards         \* what may go wrong around the chat, see AllHazards

\* "stale_tab":  a tab whose socket was superseded keeps sending
\* "late_close": a superseded socket may end after the one that replaced it
\* "early_stop": a Stop reaches a turn before its task took its first step
\* "slow_cli":   a cancelled turn takes longer to unwind than the 5 s of Stop
\* "slow_send":  sending an approval card to a socket suspends the tool
\* "error":      the engine's connection or stream fails, or is interrupted
\*               by the watchdog
\* "restart":    the backend dies and starts again
AllHazards == {"stale_tab", "late_close", "early_stop", "slow_cli", "slow_send",
               "error", "restart"}

ASSUME ChatAssumption ==
    /\ NoConn \notin Conns
    /\ NoChannel \notin Channels
    /\ MaxMessages \in Nat
    /\ Hazards \subseteq AllHazards

\* A message is its place in the order the user sent them.  A turn carries at
\* least one message that no other turn carries, so it is named likewise.
Messages == 1..MaxMessages
Turns    == 1..MaxMessages
NoTurn   == 0

\* Bound: how often one turn is cancelled, by stops and by their timeouts.
MaxCancels == 2

\* Where a turn's task stands: created and not yet started; awaiting the
\* session_saved event; connecting the client; consuming its stream;
\* disconnecting it; emitting `done`; and, once cancelled, interrupting and
\* disconnecting the client; emitting `cancelled` and `done`.
Live  == {"created", "starting", "connecting", "thinking", "disconnecting",
          "closing", "aborting", "announcing"}
Ended == {"done", "lost"}
Kinds == {"command", "session_plan"}

\* A gate's entry in a Channel's `pending`: an open future, one that is set,
\* or one rebuilt from the session's record with nobody awaiting it.
Entries == {"none", "open", "yes", "no", "restored"}

\* Where the tool that asks stands: sending the card, parked on the future,
\* running the approved action; finally over, lost with the process, or cut
\* short while it sent the card.
Waiting == {"asking", "parked"}
Stages  == {"unasked", "executing", "over", "lost", "cut"} \cup Waiting

VARIABLES
    at,         \* per tab: the Channel its handler holds
    cards,      \* per tab: the gates its page shows a card for
    stopping,   \* per tab: the turn whose end its handler awaits (Stop)
    current,    \* app.state.channels: the session's Channel
    ws,         \* per Channel: the attached socket
    pending,    \* per Channel: its gates
    inflight,   \* session, on disk: in_flight_approvals
    decided,    \* session, on disk: the recorded decisions
    auto,       \* session, on disk: auto_approve
    pc,         \* per turn: where its task stands
    chan,       \* per turn: the Channel it talks to
    text,       \* per turn: the messages of its first query, until sent
    cancel,     \* per turn: a cancel() that has not landed yet
    said,       \* per turn: the closing events it emitted
    running,    \* app.state.running
    registry,   \* RunRegistry's handle
    live,       \* LIVE_TURNS
    liveQ,      \* the live turn's queued steers
    ctxQ,       \* session.ctx.steer_messages
    owner,      \* per gate: the turn whose tool asked
    kind,       \* per gate: command or session_plan
    stage,      \* per gate: where the tool that asked stands
    sent,       \* how many messages the user has sent
    heard,      \* history: the messages the model was given, in order
    dropped,    \* history: messages discarded by a stop or a restart
    left,       \* history: messages left queued by a turn nobody listened to
    halted,     \* history: messages that waited when a stop landed
    cancels,    \* history: how often each turn was cancelled
    ran,        \* history: the gates whose action was allowed to run
    clicked,    \* history: the gates the user approved
    refused     \* history: the gates open when the user did not approve

sockets == <<at, cards, stopping>>
links   == <<current, ws, pending>>
stored  == <<inflight, decided, auto>>
task    == <<pc, chan, text, cancel, cancels, said>>
slots   == <<running, registry>>
queues  == <<live, liveQ, ctxQ>>
gates   == <<owner, kind, stage, ran>>
choices == <<clicked, refused>>
fate    == <<heard, dropped, left, halted>>
vars    == <<sockets, links, stored, task, slots, queues, gates, choices,
             fate, sent>>

Elems(s) == {s[i] : i \in DOMAIN s}

SocketsOK ==
    /\ at \in [Conns -> Channels \cup {NoChannel}]
    /\ cards \in [Conns -> SUBSET Gates]
    /\ stopping \in [Conns -> Turns \cup {NoTurn}]

LinksOK ==
    /\ current \in Channels \cup {NoChannel}
    /\ ws \in [Channels -> Conns \cup {NoConn}]
    /\ pending \in [Channels -> [Gates -> Entries]]

StoredOK ==
    /\ inflight \subseteq Gates
    /\ decided \in [Gates -> {"none", "yes", "no"}]
    /\ auto \in BOOLEAN

TaskOK ==
    /\ pc \in [Turns -> {"none"} \cup Live \cup Ended]
    /\ chan \in [Turns -> Channels \cup {NoChannel}]
    /\ text \in [Turns -> Seq(Messages)]
    /\ cancel \in [Turns -> BOOLEAN]
    /\ cancels \in [Turns -> 0..MaxCancels]
    /\ said \in [Turns -> SUBSET {"done", "cancelled"}]

SlotsOK == running \in Turns \cup {NoTurn} /\ registry \in Turns \cup {NoTurn}

QueuesOK ==
    /\ live \in Turns \cup {NoTurn}
    /\ liveQ \in Seq(Messages) /\ (live = NoTurn => liveQ = <<>>)
    /\ ctxQ \in Seq(Messages)

GatesOK ==
    /\ owner \in [Gates -> Turns \cup {NoTurn}]
    /\ kind \in [Gates -> Kinds]
    /\ stage \in [Gates -> Stages]
    /\ ran \subseteq Gates

FateOK ==
    /\ heard \in Seq(Messages)
    /\ dropped \cup left \cup halted \subseteq Messages

TypeOK ==
    /\ SocketsOK /\ LinksOK /\ StoredOK /\ TaskOK /\ SlotsOK /\ QueuesOK
    /\ GatesOK /\ FateOK
    /\ clicked \cup refused \subseteq Gates
    /\ sent \in 0..MaxMessages

NoEntries == [g \in Gates |-> "none"]

\* A saved chat nobody has open.
Init ==
    /\ at = [c \in Conns |-> NoChannel]
    /\ cards = [c \in Conns |-> {}]
    /\ stopping = [c \in Conns |-> NoTurn]
    /\ current = NoChannel
    /\ ws = [ch \in Channels |-> NoConn]
    /\ pending = [ch \in Channels |-> NoEntries]
    /\ inflight = {} /\ auto = FALSE
    /\ decided = [g \in Gates |-> "none"]
    /\ pc = [k \in Turns |-> "none"]
    /\ chan = [k \in Turns |-> NoChannel]
    /\ text = [k \in Turns |-> <<>>]
    /\ cancel = [k \in Turns |-> FALSE]
    /\ cancels = [k \in Turns |-> 0]
    /\ said = [k \in Turns |-> {}]
    /\ running = NoTurn /\ registry = NoTurn
    /\ live = NoTurn /\ liveQ = <<>> /\ ctxQ = <<>>
    /\ owner = [g \in Gates |-> NoTurn]
    /\ kind = [g \in Gates |-> "command"]
    /\ stage = [g \in Gates |-> "unasked"]
    /\ sent = 0 /\ heard = <<>>
    /\ dropped = {} /\ left = {} /\ halted = {}
    /\ ran = {} /\ clicked = {} /\ refused = {}

Alive(k) == pc[k] \in Live
RunningIfLive == live # NoTurn
Running  == running # NoTurn /\ Alive(running)
Tools(k) == {g \in Gates : owner[g] = k /\ stage[g] \in Waiting \cup {"executing"}}
HasPending(p, ch) == \E g \in Gates : p[ch][g] # "none"

----------------------------------------------------------------------------
(* Sockets *)

\* No task and no handler holds this Channel object any more.
Unheld(ch) ==
    /\ ch # current
    /\ \A c \in Conns : at[c] # ch
    /\ \A k \in Turns : chan[k] = ch => ~Alive(k) /\ Tools(k) = {}

\* restore_pending, and reemit_pending.
Restored(g) == IF g \in inflight THEN "restored" ELSE "none"
ResurfacedOnlyRestored(entries) == {g \in Gates : entries[g] = "restored"}
Resurfaced(entries) == {g \in Gates : entries[g] # "none"}

\* /ws?session=<id>: the handler takes the session's Channel, or makes one and
\* restores the gates on record in it; the last connection wins; the cards of
\* the undecided gates are sent again.
Connect(c) ==
    /\ at[c] = NoChannel
    /\ \E ch \in Channels :
        /\ IF current # NoChannel
           THEN ch = current /\ UNCHANGED <<current, pending>>
           ELSE /\ Unheld(ch)
                /\ current' = ch
                /\ pending' = [pending EXCEPT ![ch] = [g \in Gates |-> Restored(g)]]
        /\ at' = [at EXCEPT ![c] = ch]
        /\ ws' = [ws EXCEPT ![ch] = c]
        /\ cards' = [cards EXCEPT ![c] = Resurfaced(pending'[ch])]
    /\ UNCHANGED <<stopping, stored, task, slots, queues, gates, choices, fate, sent>>

\* The handler's finally: detach unless a newer socket took over; forget the
\* session's Channel (whichever it is now) unless something still needs ours.
Disconnect(c) ==
    LET ch == at[c] IN
    /\ ch # NoChannel /\ stopping[c] = NoTurn
    /\ ws[ch] # c \/ {d \in Conns : at[d] = ch} = {c} \/ "late_close" \in Hazards
    /\ at' = [at EXCEPT ![c] = NoChannel]
    /\ cards' = [cards EXCEPT ![c] = {}]
    /\ ws' = [ws EXCEPT ![ch] = IF @ = c THEN NoConn ELSE @]
    /\ current' = IF ws'[ch] = NoConn /\ ~HasPending(pending, ch) /\ ~Running
                  THEN NoChannel ELSE current
    /\ UNCHANGED <<stopping, pending, stored, task, slots, queues, gates,
                   choices, fate, sent>>

\* The handler reads its next frame.  The page of a superseded tab is inert
\* (app.js), unless it is another browser tab that does not know.
Reads(c) ==
    /\ at[c] # NoChannel /\ stopping[c] = NoTurn
    /\ ws[at[c]] = c \/ "stale_tab" \in Hazards

\* Channel.resolve of several gates: a future that is set is left alone, and a
\* restored gate, which nobody awaits, is closed here.
Resolve(ch, gs, answer) ==
    LET restored == {g \in gs : pending[ch][g] = "restored"} IN
    /\ pending' = [pending EXCEPT ![ch] = [g \in Gates |->
           IF g \in restored THEN "none"
           ELSE IF g \in gs /\ @[g] = "open" THEN answer
           ELSE @[g]]]
    /\ inflight' = inflight \ restored
    /\ decided' = [g \in Gates |-> IF g \in restored THEN answer ELSE decided[g]]

NextTurn == Cardinality({k \in Turns : pc[k] # "none"}) + 1

\* create_task(run_turn(msgs)), app.state.running and RunRegistry.register;
\* "ended" is the turn that creates its follow-up, if one does.
Launch(ended, ch, msgs) ==
    /\ NextTurn \in Turns
    /\ pc' = [k \in Turns |-> CASE k = NextTurn -> "created"
                                [] k = ended    -> "done"
                                [] OTHER        -> pc[k]]
    /\ chan' = [chan EXCEPT ![NextTurn] = ch]
    /\ text' = [text EXCEPT ![NextTurn] = msgs]
    /\ running' = NextTurn
    /\ registry' = NextTurn

\* A typed message declines every open gate; while a turn runs it is queued as
\* a steer (on the live turn, else on the session), else it starts a turn.
UserMessage(c) ==
    LET m == sent + 1 IN
    /\ Reads(c) /\ sent < MaxMessages
    /\ sent' = m
    /\ refused' = refused \cup {g \in Gates : pending[at[c]][g] \in {"open", "restored"}}
    /\ Resolve(at[c], Gates, "no")
    /\ \/ /\ Running
          /\ IF live # NoTurn
             THEN liveQ' = Append(liveQ, m) /\ UNCHANGED ctxQ
             ELSE ctxQ' = Append(ctxQ, m) /\ UNCHANGED liveQ
          /\ UNCHANGED <<pc, chan, text, slots>>
       \/ /\ ~Running
          /\ Launch(NoTurn, at[c], <<m>>)
          /\ UNCHANGED <<liveQ, ctxQ>>
    /\ UNCHANGED <<sockets, current, ws, auto, cancel, cancels, said, live,
                   gates, clicked, fate>>

\* The user clicks Approve or Decline on a card the page shows.
Answer(c, g, answer) ==
    /\ Reads(c) /\ g \in cards[c]
    /\ cards' = [cards EXCEPT ![c] = @ \ {g}]
    /\ Resolve(at[c], {g}, answer)
    /\ IF answer = "yes"
       THEN clicked' = clicked \cup {g} /\ UNCHANGED refused
       ELSE /\ UNCHANGED clicked
            /\ refused' = refused \cup
                   {h \in {g} : pending[at[c]][h] \in {"open", "restored"}}
    /\ UNCHANGED <<at, stopping, current, ws, auto, task, slots, queues, gates,
                   fate, sent>>

SetAutoApprove(c, enabled) ==
    /\ Reads(c) /\ auto # enabled
    /\ auto' = enabled
    /\ UNCHANGED <<sockets, links, inflight, decided, task, slots, queues,
                   gates, choices, fate, sent>>

\* RunRegistry.cancel: mark the task and await its end, for 5 s at most; then
\* mark it once more and return.
Stop(c) ==
    /\ Reads(c) /\ registry # NoTurn /\ Alive(registry)
    /\ cancels[registry] < MaxCancels
    /\ pc[registry] = "created" => "early_stop" \in Hazards
    /\ stopping' = [stopping EXCEPT ![c] = registry]
    /\ cancel' = [cancel EXCEPT ![registry] = TRUE]
    /\ cancels' = [cancels EXCEPT ![registry] = @ + 1]
    /\ UNCHANGED <<at, cards, links, stored, pc, chan, text, said, slots,
                   queues, gates, choices, fate, sent>>

StopReturns(c) ==
    /\ stopping[c] # NoTurn /\ ~Alive(stopping[c])
    /\ stopping' = [stopping EXCEPT ![c] = NoTurn]
    /\ UNCHANGED <<at, cards, links, stored, task, slots, queues, gates,
                   choices, fate, sent>>

StopTimesOut(c) ==
    LET k == stopping[c] IN
    /\ "slow_cli" \in Hazards
    /\ k # NoTurn /\ Alive(k) /\ ~cancel[k] /\ cancels[k] < MaxCancels
    /\ cancel' = [cancel EXCEPT ![k] = TRUE]
    /\ cancels' = [cancels EXCEPT ![k] = @ + 1]
    /\ stopping' = [stopping EXCEPT ![c] = NoTurn]
    /\ UNCHANGED <<at, cards, links, stored, pc, chan, text, said, slots,
                   queues, gates, choices, fate, sent>>

----------------------------------------------------------------------------
(* The turn's task: run_turn of main.py around the engine's run_turn *)

\* A task that was cancelled has no next step but CancelledError.
At(k, where) == pc[k] = where /\ ~cancel[k]
Goto(k, where) == pc' = [pc EXCEPT ![k] = where]

\* The task's first step: begin_turn, the user message is mirrored and the
\* session persisted; it then awaits the session_saved event.
Begin(k) ==
    /\ At(k, "created") /\ Goto(k, "starting")
    /\ UNCHANGED <<sockets, links, stored, chan, text, cancel, cancels, said,
                   slots, queues, gates, choices, fate, sent>>

\* LIVE_TURNS[session.id] = a new LiveTurn, whose queue is empty.
Register(k) ==
    /\ At(k, "starting") /\ Goto(k, "connecting")
    /\ live' = k /\ liveQ' = <<>>
    /\ UNCHANGED <<sockets, links, stored, chan, text, cancel, cancels, said,
                   slots, ctxQ, gates, choices, fate, sent>>

\* connect() and query(): the model is given the turn's text.
Query(k) ==
    /\ At(k, "connecting") /\ Goto(k, "thinking")
    /\ heard' = heard \o text[k]
    /\ text' = [text EXCEPT ![k] = <<>>]
    /\ UNCHANGED <<sockets, links, stored, chan, cancel, cancels, said, slots,
                   queues, gates, choices, dropped, left, halted, sent>>

\* drain_steers
Queued == liveQ \o ctxQ

\* The response ended cleanly: queued steers go out as a follow-up query of
\* the same turn; without any, the client is disconnected.
Respond(k) ==
    /\ At(k, "thinking") /\ Tools(k) = {}
    /\ \/ /\ Queued # <<>>
          /\ heard' = heard \o Queued
          /\ liveQ' = <<>> /\ ctxQ' = <<>>
          /\ UNCHANGED pc
       \/ /\ Queued = <<>> /\ Goto(k, "disconnecting")
          /\ UNCHANGED <<heard, liveQ, ctxQ>>
    /\ UNCHANGED <<sockets, links, stored, chan, text, cancel, cancels, said,
                   slots, live, gates, choices, dropped, left, halted, sent>>

\* _should_continue: somebody listens, or the user approved something, or the
\* turn has not come to its first gate.
ShouldContinue(k) ==
    \/ ws[chan[k]] # NoConn
    \/ \E g \in ran : owner[g] = k
    \/ \A g \in Gates : owner[g] # k

\* The turn is abandoned at a message boundary: the stream is interrupted and
\* plays out; its end is not a clean one, so steers are not drained.
Abandon(k) ==
    /\ At(k, "thinking") /\ Tools(k) = {} /\ ~ShouldContinue(k)
    /\ Goto(k, "disconnecting")
    /\ UNCHANGED <<sockets, links, stored, chan, text, cancel, cancels, said,
                   slots, queues, gates, choices, fate, sent>>

\* The connection or the stream fails, stalls or ends in an error result.
Fail(k) ==
    /\ "error" \in Hazards
    /\ At(k, "connecting") \/ At(k, "thinking")
    /\ Goto(k, "disconnecting")
    /\ UNCHANGED <<sockets, links, stored, chan, text, cancel, cancels, said,
                   slots, queues, gates, choices, fate, sent>>

\* A tool cut short before its await of the future has no finally to run.
Closed(g) == IF stage[g] = "asking" THEN "cut" ELSE "over"

WithdrawUnrecorded(k) ==
    LET parked == {g \in Tools(k) : stage[g] = "parked"} IN
    /\ stage' = [g \in Gates |-> IF g \in Tools(k) THEN Closed(g) ELSE stage[g]]
    /\ pending' = [ch \in Channels |-> [g \in Gates |->
           IF ch = chan[k] /\ g \in parked THEN "none" ELSE pending[ch][g]]]
    /\ UNCHANGED <<stored, owner, kind, ran, current, ws>>

\* disconnect() ends the tools that still run: a parked request_approval
\* withdraws its gate in its finally.
Withdraw(k) ==
    LET parked == {g \in Tools(k) : stage[g] = "parked"} IN
    /\ stage' = [g \in Gates |-> IF g \in Tools(k) THEN Closed(g) ELSE stage[g]]
    /\ pending' = [ch \in Channels |-> [g \in Gates |->
           IF ch = chan[k] /\ g \in parked THEN "none" ELSE pending[ch][g]]]
    /\ inflight' = inflight \ parked
    /\ UNCHANGED <<decided, auto, owner, kind, ran, current, ws>>

EngineFinallyForgetful(k) ==
    /\ live' = IF live = k THEN NoTurn ELSE live
    /\ UNCHANGED ctxQ
    /\ liveQ' = IF live = k THEN <<>> ELSE liveQ

EngineFinallyStale(k) ==
    /\ live' = IF live = k THEN NoTurn ELSE live
    /\ UNCHANGED <<ctxQ, liveQ>>

\* The engine's finally: unregister, and hand the undrained steers back.
EngineFinally(k) ==
    /\ live' = IF live = k THEN NoTurn ELSE live
    /\ ctxQ' = IF live = k THEN Queued ELSE ctxQ
    /\ liveQ' = IF live = k THEN <<>> ELSE liveQ

Unheard(k) == Elems(text[k]) \cup Elems(Queued)

\* The client is gone: the engine ends the turn and emits `done`.  The text of
\* a turn whose connection failed was never given to the model.
CloseEngine(k) ==
    /\ At(k, "disconnecting") /\ Goto(k, "closing")
    /\ Withdraw(k) /\ EngineFinally(k)
    /\ said' = [said EXCEPT ![k] = @ \cup {"done"}]
    /\ dropped' = dropped \cup Elems(text[k])
    /\ text' = [text EXCEPT ![k] = <<>>]
    /\ UNCHANGED <<sockets, chan, cancel, cancels, slots, choices, heard, left,
                   halted, sent>>

Release(k) ==
    /\ running' = IF running = k THEN NoTurn ELSE running
    /\ registry' = IF registry = k THEN NoTurn ELSE registry

EvictUnused(ch) ==
    current' = IF ws[ch] = NoConn /\ ~HasPending(pending, ch)
               THEN NoChannel ELSE current

EndWithoutFollowUp(k) ==
    /\ At(k, "closing")
    /\ Goto(k, "done") /\ Release(k) /\ EvictUnused(chan[k])
    /\ left' = left \cup IF ws[chan[k]] = NoConn THEN Elems(ctxQ) ELSE {}
    /\ UNCHANGED <<chan, text, ctxQ, sockets, ws, pending, stored, cancel, cancels,
                   said, live, liveQ, gates, choices, heard, dropped, halted, sent>>

\* run_turn's finally after a turn that was not cancelled: a steer that came
\* after the last drain starts a follow-up turn if somebody listens.
End(k) ==
    /\ At(k, "closing")
    /\ \/ /\ ctxQ # <<>> /\ ws[chan[k]] # NoConn
          /\ Launch(k, chan[k], ctxQ)
          /\ ctxQ' = <<>>
          /\ UNCHANGED <<current, left>>
       \/ /\ ctxQ = <<>> \/ ws[chan[k]] = NoConn
          /\ Goto(k, "done") /\ Release(k) /\ EvictUnused(chan[k])
          /\ left' = left \cup Elems(ctxQ)
          /\ UNCHANGED <<chan, text, ctxQ>>
    /\ UNCHANGED <<sockets, ws, pending, stored, cancel, cancels, said, live,
                   liveQ, gates, choices, heard, dropped, halted, sent>>

----------------------------------------------------------------------------
(* A cancelled turn *)

Lands(k) ==
    /\ cancel[k]
    /\ cancel' = [cancel EXCEPT ![k] = FALSE]

Announcing(k) ==
    /\ Goto(k, "announcing")
    /\ said' = [said EXCEPT ![k] = @ \cup {"cancelled"}]

\* A task cancelled before its first step never runs: no event, no finally.
CancelledUnstarted(k) ==
    /\ Lands(k) /\ pc[k] = "created" /\ Goto(k, "done")
    /\ dropped' = dropped \cup Elems(text[k])
    /\ text' = [text EXCEPT ![k] = <<>>]
    /\ left' = left \cup Elems(ctxQ)
    /\ UNCHANGED <<sockets, links, stored, chan, cancels, said, slots, queues,
                   gates, choices, heard, halted, sent>>

\* Before the client connects and after it is gone there is nothing to unwind
\* below run_turn.
CancelledOutside(k) ==
    /\ Lands(k) /\ pc[k] \in {"starting", "closing"} /\ Announcing(k)
    /\ halted' = halted \cup Unheard(k)
    /\ dropped' = dropped \cup Elems(text[k])
    /\ text' = [text EXCEPT ![k] = <<>>]
    /\ UNCHANGED <<sockets, links, stored, chan, cancels, slots, queues, gates,
                   choices, heard, left, sent>>

CancelSwallowed(k) ==
    /\ Lands(k) /\ pc[k] \in {"connecting", "thinking"}
    /\ UNCHANGED <<pc, text, sockets, links, stored, chan, cancels, said, slots,
                   queues, gates, choices, fate, sent>>

\* Inside _drive_turn its finally interrupts and disconnects the client.
CancelledInside(k) ==
    /\ Lands(k) /\ pc[k] \in {"connecting", "thinking"} /\ Goto(k, "aborting")
    /\ halted' = halted \cup Unheard(k)
    /\ dropped' = dropped \cup Elems(text[k])
    /\ text' = [text EXCEPT ![k] = <<>>]
    /\ UNCHANGED <<sockets, links, stored, chan, cancels, said, slots, queues,
                   gates, choices, heard, left, sent>>

\* In that finally, the cancel cuts the interrupt or the disconnect short: the
\* tools may or may not have been ended.
CancelledDisconnecting(k) ==
    /\ Lands(k) /\ pc[k] \in {"disconnecting", "aborting"} /\ Announcing(k)
    /\ Withdraw(k) \/ UNCHANGED <<links, stored, gates>>
    /\ EngineFinally(k)
    /\ halted' = halted \cup Unheard(k)
    /\ dropped' = dropped \cup Elems(text[k])
    /\ text' = [text EXCEPT ![k] = <<>>]
    /\ UNCHANGED <<sockets, chan, cancels, slots, choices, heard, left, sent>>

Aborted(k) ==
    /\ At(k, "aborting") /\ Announcing(k)
    /\ Withdraw(k) /\ EngineFinally(k)
    /\ UNCHANGED <<sockets, chan, text, cancel, cancels, slots, choices, fate, sent>>

\* A second cancel while the end is announced skips the rest of it.
AnnouncedNothing(k) == {}
Announced(k) == IF cancel[k] THEN {} ELSE {"done"}

EndCancelledFollowingUp(k) ==
    /\ pc[k] = "announcing"
    /\ said' = [said EXCEPT ![k] = @ \cup Announced(k)]
    /\ cancel' = [cancel EXCEPT ![k] = FALSE]
    /\ \/ /\ ctxQ # <<>> /\ ws[chan[k]] # NoConn
          /\ Launch(k, chan[k], ctxQ)
          /\ UNCHANGED <<current, dropped>>
       \/ /\ ctxQ = <<>> \/ ws[chan[k]] = NoConn
          /\ Goto(k, "done") /\ Release(k) /\ EvictUnused(chan[k])
          /\ dropped' = dropped \cup Elems(ctxQ)
          /\ UNCHANGED <<chan, text>>
    /\ ctxQ' = <<>>
    /\ UNCHANGED <<sockets, ws, pending, stored, cancels, live, liveQ, gates,
                   choices, heard, left, halted, sent>>

\* run_turn's finally after a cancelled turn: the steers are discarded.
EndCancelled(k) ==
    /\ pc[k] = "announcing" /\ Goto(k, "done")
    /\ said' = [said EXCEPT ![k] = @ \cup Announced(k)]
    /\ cancel' = [cancel EXCEPT ![k] = FALSE]
    /\ Release(k) /\ EvictUnused(chan[k])
    /\ dropped' = dropped \cup Elems(ctxQ)
    /\ ctxQ' = <<>>
    /\ UNCHANGED <<sockets, ws, pending, stored, chan, text, cancels, live,
                   liveQ, gates, choices, heard, left, halted, sent>>

----------------------------------------------------------------------------
(* The turn's tools, which run in tasks of the SDK's client *)

AutoApprovedAny(what) == auto
AutoApproved(what) == what = "command" /\ auto

\* request_approval.  A command gate of an auto-approving chat is decided on
\* the spot; any other is put in `pending`, put on record, and shown to the
\* attached socket; the tool parks on its future.
RequestGate(k, g, what) ==
    LET ch == chan[k] IN
    /\ stage[g] = "unasked"
    /\ pc[k] = "thinking" \/ Tools(k) # {}
    /\ owner' = [owner EXCEPT ![g] = k]
    /\ kind' = [kind EXCEPT ![g] = what]
    /\ \/ /\ AutoApproved(what)
          /\ stage' = [stage EXCEPT ![g] = "executing"]
          /\ decided' = [decided EXCEPT ![g] = "yes"]
          /\ ran' = ran \cup {g}
          /\ UNCHANGED <<pending, inflight, cards>>
       \/ /\ ~AutoApproved(what)
          /\ stage' = [stage EXCEPT ![g] =
                 IF "slow_send" \in Hazards /\ ws[ch] # NoConn THEN "asking" ELSE "parked"]
          /\ pending' = [pending EXCEPT ![ch][g] = "open"]
          /\ inflight' = inflight \cup {g}
          /\ cards' = [c \in Conns |-> IF ws[ch] = c THEN cards[c] \cup {g} ELSE cards[c]]
          /\ UNCHANGED <<decided, ran>>
    /\ UNCHANGED <<at, stopping, current, ws, auto, task, slots, queues,
                   choices, fate, sent>>

\* The card is sent, or the send failed, which is ignored.
Parks(g) ==
    /\ stage[g] = "asking"
    /\ stage' = [stage EXCEPT ![g] = "parked"]
    /\ UNCHANGED <<sockets, links, stored, task, slots, queues, owner, kind, ran,
                   choices, fate, sent>>

\* The parked tool resumes: the gate is gone, the decision is recorded, and
\* the action runs or is reported as declined.
GateAnswered(g) ==
    LET ch == chan[owner[g]] IN
    /\ stage[g] = "parked" /\ pending[ch][g] \in {"yes", "no"}
    /\ pending' = [pending EXCEPT ![ch][g] = "none"]
    /\ inflight' = inflight \ {g}
    /\ decided' = [decided EXCEPT ![g] = pending[ch][g]]
    /\ \/ /\ pending[ch][g] = "yes"
          /\ stage' = [stage EXCEPT ![g] = "executing"]
          /\ ran' = ran \cup {g}
       \/ /\ pending[ch][g] = "no"
          /\ stage' = [stage EXCEPT ![g] = "over"]
          /\ UNCHANGED ran
    /\ UNCHANGED <<sockets, current, ws, auto, task, slots, queues, owner, kind,
                   choices, fate, sent>>

ToolEnds(g) ==
    /\ stage[g] = "executing"
    /\ stage' = [stage EXCEPT ![g] = "over"]
    /\ UNCHANGED <<sockets, links, stored, task, slots, queues, owner, kind, ran,
                   choices, fate, sent>>

\* The process dies: only the session's file survives.
Restart ==
    LET dead == {k \in Turns : Alive(k)} IN
    /\ "restart" \in Hazards
    /\ at' = [c \in Conns |-> NoChannel]
    /\ cards' = [c \in Conns |-> {}]
    /\ stopping' = [c \in Conns |-> NoTurn]
    /\ current' = NoChannel
    /\ ws' = [ch \in Channels |-> NoConn]
    /\ pending' = [ch \in Channels |-> NoEntries]
    /\ pc' = [k \in Turns |-> IF k \in dead THEN "lost" ELSE pc[k]]
    /\ chan' = [k \in Turns |-> NoChannel]
    /\ text' = [k \in Turns |-> <<>>]
    /\ cancel' = [k \in Turns |-> FALSE]
    /\ running' = NoTurn /\ registry' = NoTurn
    /\ live' = NoTurn /\ liveQ' = <<>> /\ ctxQ' = <<>>
    /\ stage' = [g \in Gates |-> IF stage[g] \in Waiting \cup {"executing"}
                             THEN "lost" ELSE stage[g]]
    /\ dropped' = dropped \cup Elems(Queued) \cup UNION {Elems(text[k]) : k \in dead}
    /\ UNCHANGED <<stored, cancels, said, owner, kind, ran, choices, heard, left,
                   halted, sent>>

----------------------------------------------------------------------------

UserStep(c) ==
    \/ Connect(c) \/ Disconnect(c) \/ UserMessage(c) \/ Stop(c)
    \/ \E g \in Gates, answer \in {"yes", "no"} : Answer(c, g, answer)
    \/ \E enabled \in BOOLEAN : SetAutoApprove(c, enabled)

TurnStep(k) ==
    \/ Begin(k) \/ Register(k) \/ Query(k) \/ Respond(k) \/ Abandon(k)
    \/ CloseEngine(k) \/ End(k)

UnwindStep(k) ==
    \/ CancelledUnstarted(k) \/ CancelledOutside(k) \/ CancelledInside(k)
    \/ CancelledDisconnecting(k) \/ Aborted(k) \/ EndCancelled(k)

ToolStep(g) == Parks(g) \/ GateAnswered(g) \/ ToolEnds(g)

Next ==
    \/ \E c \in Conns : UserStep(c) \/ StopReturns(c) \/ StopTimesOut(c)
    \/ \E k \in Turns : TurnStep(k) \/ UnwindStep(k) \/ Fail(k)
    \/ \E k \in Turns, g \in Gates, what \in Kinds : RequestGate(k, g, what)
    \/ \E g \in Gates : ToolStep(g)
    \/ Restart

\* The loop runs every ready task; the model's response ends (MAX_TURNS bounds
\* its steps, the watchdog a silent stream); a command ends (its deadline).
\* Nothing is assumed of the user.
Fairness ==
    /\ \A c \in Conns : WF_vars(StopReturns(c))
    /\ \A k \in Turns : WF_vars(TurnStep(k)) /\ WF_vars(UnwindStep(k))
    /\ \A g \in Gates : WF_vars(ToolStep(g))

Spec == Init /\ [][Next]_vars /\ Fairness

----------------------------------------------------------------------------
(* Properties *)

\* At most one turn of a chat is alive, and it is the one Stop and shutdown
\* would cancel and the one the handlers steer: no message, follow-up turn or
\* stop leaves a turn running that the registry does not know.
OneTurn ==
    \A k \in Turns : Alive(k) => running = k /\ registry = k /\ live \in {k, NoTurn}

\* An action runs only if the user approved that very gate and had not declined
\* it (by a click or by typing instead), or if it is a command of a chat that
\* auto-approves when it asks; a session plan is never auto-approved.
ConsentedOnly ==
    [][\A g \in ran' \ ran :
          \/ g \in clicked \ refused
          \/ kind'[g] = "command" /\ auto]_vars

\* A gate that a live turn is parked on can be decided: it is open in the
\* session's current Channel, and whoever is attached has its card.
GateReachable ==
    \A g \in Gates :
        stage[g] = "parked" /\ Alive(owner[g]) /\ pending[chan[owner[g]]][g] = "open" =>
            /\ current = chan[owner[g]]
            /\ ws[current] # NoConn => g \in cards[ws[current]]

\* The record on disk is exact: it lists a gate while a live turn's tool waits
\* for it, and after a restart until it is decided; never one that was decided
\* or withdrawn.  (A tool cut short while it sends the card leaves it on record.)
RecordExact ==
    \A g \in Gates :
        /\ stage[g] \in Waiting /\ Alive(owner[g]) => g \in inflight
        /\ g \in inflight => stage[g] \in Waiting \cup {"lost", "cut"}
        /\ g \in inflight => decided[g] = "none"

\* No message vanishes and none is given to the model twice: each one sent is
\* in exactly one of the model's transcript, a queue, a turn's first query, or
\* the discarded ones.
MessagesAccounted ==
    LET places == heard \o liveQ \o ctxQ IN
    /\ \A i, j \in DOMAIN places : places[i] = places[j] => i = j
    /\ 1..sent = Elems(places) \cup dropped \cup UNION {Elems(text[k]) : k \in Turns}
    /\ Elems(places) \cap dropped = {}
    /\ \A k \in Turns : Elems(text[k]) \cap (Elems(places) \cup dropped) = {}

\* Stop wins: what waited to be heard when a stop landed never reaches the
\* model, neither in that turn nor in a follow-up turn.
StopWins == halted \cap Elems(heard) = {}

\* Every turn's end is announced to the page, so that it stops waiting, unless
\* the stop came before the task's first step or a second cancel cut the
\* announcement of the first.
EndAnnounced ==
    \A k \in Turns :
        pc[k] = "done" /\ "done" \notin said[k] =>
            cancels[k] > 1 \/ (cancels[k] = 1 /\ said[k] = {})

\* A stopped turn ends, with nothing assumed of the user.
StopEnds == \A k \in Turns : cancels[k] > 0 ~> ~Alive(k)

\* Every message is settled, if the user answers the gates: the model is given
\* it, a stop or a restart discards it, or it stays queued because nobody
\* listened when the turn ended.
MessageSettles ==
    \A m \in Messages :
        sent >= m ~> \/ m \in Elems(heard) \cup dropped \cup left
                     \/ \E k \in Turns : \E g \in Tools(k) : pending[chan[k]][g] = "open"

\* A decision reaches the turn that waits for it: a turn is not left parked on
\* a gate whose decision is on record.
DecisionReaches ==
    \A g \in Gates : stage[g] = "parked" /\ Alive(owner[g]) => decided[g] = "none"

\* The model is given the user's messages in the order they were sent.
HeardInOrder ==
    \A i, j \in DOMAIN heard : i < j => heard[i] < heard[j]
=============================================================================
