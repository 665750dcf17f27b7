------------------------------ MODULE ChatProofs ------------------------------
(* Theorems about ChatSession, for every value of its constants and whatever *)
(* goes wrong.                                                              *)
EXTENDS ChatSession, FiniteSetTheorems, TLAPS

(* Types. *)

LEMMA Kept ==
  ASSUME TypeOK
  PROVE  /\ UNCHANGED sockets => SocketsOK'
         /\ UNCHANGED links => LinksOK'
         /\ UNCHANGED stored => StoredOK'
         /\ UNCHANGED task => TaskOK'
         /\ UNCHANGED slots => SlotsOK'
         /\ UNCHANGED queues => QueuesOK'
         /\ UNCHANGED gates => GatesOK'
         /\ UNCHANGED fate => FateOK'
         /\ UNCHANGED choices => (clicked \cup refused \subseteq Gates)'
<1>1. UNCHANGED sockets => SocketsOK'
  BY DEF TypeOK, SocketsOK, sockets
<1>2. UNCHANGED links => LinksOK'
  BY DEF TypeOK, LinksOK, links
<1>3. UNCHANGED stored => StoredOK'
  BY DEF TypeOK, StoredOK, stored
<1>4. UNCHANGED task => TaskOK'
  BY DEF TypeOK, TaskOK, task
<1>5. UNCHANGED slots => SlotsOK'
  BY DEF TypeOK, SlotsOK, slots
<1>6. UNCHANGED queues => QueuesOK'
  BY DEF TypeOK, QueuesOK, queues
<1>7. UNCHANGED gates => GatesOK'
  BY DEF TypeOK, GatesOK, gates
<1>8. UNCHANGED fate => FateOK'
  BY DEF TypeOK, FateOK, fate
<1>9. UNCHANGED choices => (clicked \cup refused \subseteq Gates)'
  BY DEF TypeOK, choices
<1> QED BY <1>1, <1>2, <1>3, <1>4, <1>5, <1>6, <1>7, <1>8, <1>9

LEMMA ConnectTypes == ASSUME TypeOK, NEW c \in Conns, Connect(c) PROVE TypeOK'
<1>1. PICK ch \in Channels : Connect(c)!2!(ch)
  BY DEF Connect
<1>2. LinksOK'
  BY <1>1 DEF TypeOK, LinksOK, Entries, Restored
<1>3. SocketsOK'
  BY <1>1 DEF TypeOK, SocketsOK, Resurfaced, Connect
<1> QED BY <1>2, <1>3, Kept DEF Connect, TypeOK

LEMMA DisconnectTypes == ASSUME TypeOK, NEW c \in Conns, Disconnect(c) PROVE TypeOK'
<1>1. LinksOK'
  BY DEF TypeOK, LinksOK, SocketsOK, Disconnect
<1>2. SocketsOK'
  BY DEF TypeOK, SocketsOK, Disconnect
<1> QED BY <1>1, <1>2, Kept DEF Disconnect, TypeOK

LEMMA WithdrawTypes ==
  ASSUME TypeOK, NEW k \in Turns, Withdraw(k)
  PROVE  LinksOK' /\ StoredOK' /\ GatesOK'
<1>1. LinksOK'
  BY DEF TypeOK, LinksOK, Withdraw, Entries
<1>2. StoredOK'
  BY DEF TypeOK, StoredOK, Withdraw
<1>3. GatesOK'
  BY DEF TypeOK, GatesOK, Withdraw, Closed, Stages
<1> QED BY <1>1, <1>2, <1>3

LEMMA ResolveTypes ==
  ASSUME TypeOK, NEW c \in Conns, NEW gs \in SUBSET Gates, NEW answer \in {"yes", "no"},
         Resolve(at[c], gs, answer)
  PROVE  /\ pending' \in [Channels -> [Gates -> Entries]]
         /\ inflight' \subseteq Gates /\ decided' \in [Gates -> {"none", "yes", "no"}]
<1>1. pending' \in [Channels -> [Gates -> Entries]]
  BY DEF TypeOK, LinksOK, Resolve, Entries
<1>2. inflight' \subseteq Gates /\ decided' \in [Gates -> {"none", "yes", "no"}]
  BY DEF TypeOK, StoredOK, Resolve
<1> QED BY <1>1, <1>2

LEMMA LaunchTypes ==
  ASSUME TypeOK, NEW ended \in Turns \cup {NoTurn}, NEW ch \in Channels \cup {NoChannel},
         NEW msgs \in Seq(Messages), Launch(ended, ch, msgs),
         UNCHANGED <<cancels>>, cancel' \in [Turns -> BOOLEAN],
         said' \in [Turns -> SUBSET {"done", "cancelled"}]
  PROVE  TaskOK' /\ SlotsOK'
<1>1. pc' \in [Turns -> {"none"} \cup Live \cup Ended]
  BY DEF TypeOK, TaskOK, Launch, Live, Ended
<1>2. chan' \in [Turns -> Channels \cup {NoChannel}] /\ text' \in [Turns -> Seq(Messages)]
  BY DEF TypeOK, TaskOK, Launch
<1>3. SlotsOK'
  BY DEF Launch, SlotsOK
<1> QED BY <1>1, <1>2, <1>3 DEF TypeOK, TaskOK

LEMMA UserMessageTypes == ASSUME TypeOK, NEW c \in Conns, UserMessage(c) PROVE TypeOK'
<1>1. sent + 1 \in Messages /\ sent' = sent + 1 /\ sent' \in 0..MaxMessages
  BY ChatAssumption DEF TypeOK, UserMessage, Messages
<1>2. LinksOK' /\ StoredOK'
  <2>1. Resolve(at[c], Gates, "no") /\ UNCHANGED <<current, ws, auto>>
    BY DEF UserMessage
  <2>2. /\ pending' \in [Channels -> [Gates -> Entries]]
        /\ inflight' \subseteq Gates /\ decided' \in [Gates -> {"none", "yes", "no"}]
    BY <2>1, ResolveTypes
  <2> QED BY <2>1, <2>2 DEF TypeOK, LinksOK, StoredOK
<1>3. TaskOK' /\ SlotsOK' /\ QueuesOK'
  <2>1. CASE Running
    <3>1. QueuesOK'
      <4>1. live' = live /\ live \in Turns \cup {NoTurn} /\ liveQ \in Seq(Messages)
            /\ ctxQ \in Seq(Messages) /\ (live = NoTurn => liveQ = <<>>)
        BY <2>1 DEF UserMessage, TypeOK, QueuesOK
      <4>2. \/ live # NoTurn /\ liveQ' = Append(liveQ, sent + 1) /\ ctxQ' = ctxQ
            \/ live = NoTurn /\ ctxQ' = Append(ctxQ, sent + 1) /\ liveQ' = liveQ
        BY <2>1 DEF UserMessage
      <4>3. Append(liveQ, sent + 1) \in Seq(Messages) /\ Append(ctxQ, sent + 1) \in Seq(Messages)
        BY <1>1, <4>1
      <4>4. liveQ' \in Seq(Messages) /\ ctxQ' \in Seq(Messages)
        BY <4>1, <4>2, <4>3
      <4>5. live = NoTurn => liveQ' = <<>>
        BY <4>1, <4>2
      <4> QED BY <4>1, <4>4, <4>5 DEF QueuesOK
    <3>2. TaskOK' /\ SlotsOK'
      BY <2>1, Kept DEF UserMessage, task, slots
    <3> QED BY <3>1, <3>2
  <2>2. CASE ~Running
    <3>1. Launch(NoTurn, at[c], <<sent + 1>>) /\ UNCHANGED <<cancel, cancels, said>>
      BY <2>2 DEF UserMessage
    <3>2. <<sent + 1>> \in Seq(Messages) /\ at[c] \in Channels \cup {NoChannel}
      BY <1>1 DEF TypeOK, SocketsOK
    <3>3. TaskOK' /\ SlotsOK'
      BY <3>1, <3>2, LaunchTypes DEF TypeOK, TaskOK
    <3>4. QueuesOK'
      BY <2>2 DEF UserMessage, TypeOK, QueuesOK
    <3> QED BY <3>3, <3>4
  <2> QED BY <2>1, <2>2
<1>4. (clicked \cup refused \subseteq Gates)'
  BY DEF TypeOK, UserMessage
<1>5. UNCHANGED <<sockets, gates, fate>>
  BY DEF UserMessage
<1> QED BY <1>1, <1>2, <1>3, <1>4, <1>5, Kept DEF TypeOK

LEMMA AnswerTypes ==
  ASSUME TypeOK, NEW c \in Conns, NEW g \in Gates, NEW answer \in {"yes", "no"},
         Answer(c, g, answer)
  PROVE  TypeOK'
<1>1. LinksOK' /\ StoredOK'
  <2>1. Resolve(at[c], {g}, answer) /\ UNCHANGED <<current, ws, auto>>
    BY DEF Answer
  <2>2. /\ pending' \in [Channels -> [Gates -> Entries]]
        /\ inflight' \subseteq Gates /\ decided' \in [Gates -> {"none", "yes", "no"}]
    BY <2>1, ResolveTypes
  <2> QED BY <2>1, <2>2 DEF TypeOK, LinksOK, StoredOK
<1>2. SocketsOK'
  BY DEF TypeOK, SocketsOK, Answer
<1>3. (clicked \cup refused \subseteq Gates)'
  BY DEF TypeOK, Answer
<1>4. UNCHANGED <<task, slots, queues, gates, fate, sent>>
  BY DEF Answer
<1> QED BY <1>1, <1>2, <1>3, <1>4, Kept DEF TypeOK

LEMMA OtherUserTypes ==
  ASSUME TypeOK, NEW c \in Conns,
         \/ Stop(c) \/ StopReturns(c) \/ StopTimesOut(c)
         \/ \E enabled \in BOOLEAN : SetAutoApprove(c, enabled)
  PROVE  TypeOK'
<1>1. CASE Stop(c)
  <2>1. registry \in Turns
    BY <1>1 DEF Stop, TypeOK, SlotsOK
  <2>2. SocketsOK'
    BY <1>1, <2>1 DEF Stop, TypeOK, SocketsOK
  <2>3. TaskOK'
    <3>1. cancels \in [Turns -> 0..2] /\ cancels[registry] + 1 \in 0..2
      <4>1. cancels \in [Turns -> 0..2] /\ cancels[registry] < 2
        BY <1>1 DEF Stop, TypeOK, TaskOK, MaxCancels
      <4>2. cancels[registry] \in 0..2
        BY <2>1, <4>1
      <4> QED BY <4>1, <4>2
    <3>2. cancels' \in [Turns -> 0..2]
      BY <1>1, <3>1 DEF Stop
    <3>3. UNCHANGED <<pc, chan, text, said>> /\ cancel' \in [Turns -> BOOLEAN]
      BY <1>1 DEF Stop, TypeOK, TaskOK
    <3> QED BY <3>2, <3>3 DEF TypeOK, TaskOK, MaxCancels
  <2> QED BY <1>1, <2>2, <2>3, Kept DEF Stop, TypeOK
<1>2. CASE StopReturns(c)
  <2>1. SocketsOK'
    BY <1>2 DEF StopReturns, TypeOK, SocketsOK
  <2> QED BY <1>2, <2>1, Kept DEF StopReturns, TypeOK
<1>3. CASE StopTimesOut(c)
  <2>1. stopping[c] \in Turns
    BY <1>3 DEF StopTimesOut, TypeOK, SocketsOK
  <2>2. SocketsOK'
    BY <1>3 DEF StopTimesOut, TypeOK, SocketsOK
  <2>3. TaskOK'
    BY <1>3, <2>1 DEF StopTimesOut, TypeOK, TaskOK, MaxCancels
  <2> QED BY <1>3, <2>2, <2>3, Kept DEF StopTimesOut, TypeOK
<1>4. CASE \E enabled \in BOOLEAN : SetAutoApprove(c, enabled)
  <2>1. StoredOK'
    BY <1>4 DEF SetAutoApprove, TypeOK, StoredOK
  <2> QED BY <1>4, <2>1, Kept DEF SetAutoApprove, TypeOK
<1> QED BY <1>1, <1>2, <1>3, <1>4

LEMMA ElemsTypes == ASSUME NEW S, NEW s \in Seq(S) PROVE Elems(s) \subseteq S
  BY DEF Elems

LEMMA QueuedTypes ==
  ASSUME TypeOK
  PROVE  Queued \in Seq(Messages) /\ Elems(Queued) \subseteq Messages
<1>1. Queued \in Seq(Messages)
  BY DEF TypeOK, QueuesOK, Queued
<1> QED BY <1>1, ElemsTypes

LEMMA UnheardTypes ==
  ASSUME TypeOK, NEW k \in Turns
  PROVE  Elems(text[k]) \subseteq Messages /\ Elems(ctxQ) \subseteq Messages
         /\ Unheard(k) \subseteq Messages
<1>1. text[k] \in Seq(Messages) /\ ctxQ \in Seq(Messages)
  BY DEF TypeOK, TaskOK, QueuesOK
<1> QED BY <1>1, ElemsTypes, QueuedTypes DEF Unheard

LEMMA EngineFinallyTypes ==
  ASSUME TypeOK, NEW k \in Turns, EngineFinally(k) PROVE QueuesOK'
  BY QueuedTypes DEF EngineFinally, TypeOK, QueuesOK

LEMMA TurnTypes ==
  ASSUME TypeOK, NEW k \in Turns, TurnStep(k) \/ Fail(k) PROVE TypeOK'
<1>1. CASE Begin(k) \/ Abandon(k) \/ Fail(k)
  <2>1. TaskOK'
    BY <1>1 DEF Begin, Abandon, Fail, Goto, TypeOK, TaskOK, Live
  <2> QED BY <1>1, <2>1, Kept DEF Begin, Abandon, Fail, TypeOK
<1>2. CASE Register(k)
  <2>1. TaskOK'
    BY <1>2 DEF Register, Goto, TypeOK, TaskOK, Live
  <2>2. QueuesOK'
    BY <1>2 DEF Register, TypeOK, QueuesOK
  <2> QED BY <1>2, <2>1, <2>2, Kept DEF Register, TypeOK
<1>3. CASE Query(k)
  <2>1. TaskOK'
    BY <1>3 DEF Query, Goto, TypeOK, TaskOK, Live
  <2>2. FateOK'
    <3>1. text[k] \in Seq(Messages) /\ heard' = heard \o text[k]
      BY <1>3 DEF Query, TypeOK, TaskOK
    <3> QED BY <1>3, <3>1 DEF Query, TypeOK, FateOK
  <2> QED BY <1>3, <2>1, <2>2, Kept DEF Query, TypeOK
<1>4. CASE Respond(k)
  <2>1. TaskOK'
    BY <1>4 DEF Respond, Goto, TypeOK, TaskOK, Live
  <2>2. QueuesOK'
    <3>1. UNCHANGED live /\ (UNCHANGED <<liveQ, ctxQ>> \/ (liveQ' = <<>> /\ ctxQ' = <<>>))
      BY <1>4 DEF Respond
    <3>2. liveQ' \in Seq(Messages) /\ ctxQ' \in Seq(Messages)
      <4>1. liveQ \in Seq(Messages) /\ ctxQ \in Seq(Messages) /\ <<>> \in Seq(Messages)
        BY DEF TypeOK, QueuesOK
      <4> QED BY <3>1, <4>1
    <3>3. live \in Turns \cup {NoTurn} /\ (live = NoTurn => liveQ' = <<>>)
      BY <3>1 DEF TypeOK, QueuesOK
    <3> QED BY <3>1, <3>2, <3>3 DEF QueuesOK
  <2>3. FateOK'
    <3>1. UNCHANGED <<dropped, left, halted>> /\ (heard' = heard \/ heard' = heard \o Queued)
      BY <1>4 DEF Respond
    <3>2. heard \in Seq(Messages) /\ dropped \cup left \cup halted \subseteq Messages
      BY DEF TypeOK, FateOK
    <3>3. heard \o Queued \in Seq(Messages)
      BY <3>2, QueuedTypes
    <3>4. heard' \in Seq(Messages)
      BY <3>1, <3>2, <3>3
    <3> QED BY <3>1, <3>2, <3>4 DEF FateOK
  <2> QED BY <1>4, <2>1, <2>2, <2>3, Kept DEF Respond, TypeOK
<1>5. CASE CloseEngine(k)
  <2>1. TaskOK'
    BY <1>5 DEF CloseEngine, Goto, TypeOK, TaskOK, Live
  <2>2. LinksOK' /\ StoredOK' /\ GatesOK' /\ QueuesOK'
    BY <1>5, WithdrawTypes, EngineFinallyTypes DEF CloseEngine
  <2>3. FateOK'
    BY <1>5, UnheardTypes DEF CloseEngine, TypeOK, FateOK
  <2> QED BY <1>5, <2>1, <2>2, <2>3, Kept DEF CloseEngine, TypeOK
<1>6. CASE End(k)
  <2>1. QueuesOK'
    <3>1. UNCHANGED <<live, liveQ>> /\ (ctxQ' = ctxQ \/ ctxQ' = <<>>)
      BY <1>6 DEF End
    <3>2. ctxQ' \in Seq(Messages)
      <4>1. ctxQ \in Seq(Messages) /\ <<>> \in Seq(Messages)
        BY DEF TypeOK, QueuesOK
      <4> QED BY <3>1, <4>1
    <3> QED BY <3>1, <3>2 DEF TypeOK, QueuesOK
  <2>2. FateOK'
    BY <1>6, UnheardTypes DEF End, TypeOK, FateOK
  <2>3. LinksOK'
    BY <1>6 DEF End, EvictUnused, TypeOK, LinksOK
  <2>4. TaskOK' /\ SlotsOK'
    <3>1. CASE Launch(k, chan[k], ctxQ)
      <4>1. chan[k] \in Channels \cup {NoChannel} /\ ctxQ \in Seq(Messages)
        BY DEF TypeOK, TaskOK, QueuesOK
      <4> QED BY <1>6, <3>1, <4>1, LaunchTypes DEF End, TypeOK, TaskOK
    <3>2. CASE Goto(k, "done") /\ Release(k) /\ UNCHANGED <<chan, text>>
      BY <1>6, <3>2 DEF End, Goto, Release, TypeOK, TaskOK, SlotsOK, Ended
    <3> QED BY <1>6, <3>1, <3>2 DEF End
  <2> QED BY <1>6, <2>1, <2>2, <2>3, <2>4, Kept DEF End, TypeOK
<1> QED BY <1>1, <1>2, <1>3, <1>4, <1>5, <1>6 DEF TurnStep

LEMMA UnwindTypes ==
  ASSUME TypeOK, NEW k \in Turns, UnwindStep(k) PROVE TypeOK'
<1>1. CASE CancelledUnstarted(k)
  <2>1. TaskOK'
    BY <1>1 DEF CancelledUnstarted, Lands, Goto, TypeOK, TaskOK, Ended
  <2>2. FateOK'
    BY <1>1, UnheardTypes DEF CancelledUnstarted, TypeOK, FateOK
  <2> QED BY <1>1, <2>1, <2>2, Kept DEF CancelledUnstarted, TypeOK
<1>2. CASE CancelledOutside(k)
  <2>1. TaskOK'
    BY <1>2 DEF CancelledOutside, Announcing, Lands, Goto, TypeOK, TaskOK, Live
  <2>2. FateOK'
    BY <1>2, UnheardTypes DEF CancelledOutside, TypeOK, FateOK
  <2> QED BY <1>2, <2>1, <2>2, Kept DEF CancelledOutside, TypeOK
<1>3. CASE CancelledInside(k)
  <2>1. TaskOK'
    BY <1>3 DEF CancelledInside, Lands, Goto, TypeOK, TaskOK, Live
  <2>2. FateOK'
    BY <1>3, UnheardTypes DEF CancelledInside, TypeOK, FateOK
  <2> QED BY <1>3, <2>1, <2>2, Kept DEF CancelledInside, TypeOK
<1>4. CASE CancelledDisconnecting(k)
  <2>1. TaskOK'
    BY <1>4 DEF CancelledDisconnecting, Announcing, Lands, Goto, TypeOK, TaskOK, Live
  <2>2. LinksOK' /\ StoredOK' /\ GatesOK'
    BY <1>4, WithdrawTypes, Kept DEF CancelledDisconnecting
  <2>3. QueuesOK'
    BY <1>4, EngineFinallyTypes DEF CancelledDisconnecting
  <2>4. FateOK'
    BY <1>4, UnheardTypes DEF CancelledDisconnecting, TypeOK, FateOK
  <2> QED BY <1>4, <2>1, <2>2, <2>3, <2>4, Kept DEF CancelledDisconnecting, TypeOK
<1>5. CASE Aborted(k)
  <2>1. TaskOK'
    BY <1>5 DEF Aborted, Announcing, Goto, TypeOK, TaskOK, Live
  <2>2. LinksOK' /\ StoredOK' /\ GatesOK' /\ QueuesOK'
    BY <1>5, WithdrawTypes, EngineFinallyTypes DEF Aborted
  <2> QED BY <1>5, <2>1, <2>2, Kept DEF Aborted, TypeOK
<1>6. CASE EndCancelled(k)
  <2>1. TaskOK' /\ SlotsOK'
    BY <1>6 DEF EndCancelled, Announced, Goto, Release, TypeOK, TaskOK, SlotsOK, Ended
  <2>2. LinksOK'
    BY <1>6 DEF EndCancelled, EvictUnused, TypeOK, LinksOK
  <2>3. QueuesOK'
    <3>1. UNCHANGED <<live, liveQ>> /\ ctxQ' = <<>>
      BY <1>6 DEF EndCancelled
    <3> QED BY <3>1 DEF TypeOK, QueuesOK
  <2>4. FateOK'
    BY <1>6, UnheardTypes DEF EndCancelled, TypeOK, FateOK
  <2> QED BY <1>6, <2>1, <2>2, <2>3, <2>4, Kept DEF EndCancelled, TypeOK
<1> QED BY <1>1, <1>2, <1>3, <1>4, <1>5, <1>6 DEF UnwindStep

LEMMA ToolTypes ==
  ASSUME TypeOK,
         \/ \E k \in Turns, g \in Gates, what \in Kinds : RequestGate(k, g, what)
         \/ \E g \in Gates : ToolStep(g)
  PROVE  TypeOK'
<1>1. CASE \E k \in Turns, g \in Gates, what \in Kinds : RequestGate(k, g, what)
  <2>1. PICK k \in Turns, g \in Gates, what \in Kinds : RequestGate(k, g, what)
    BY <1>1
  <2>2. LinksOK'
    <3>1. /\ UNCHANGED <<current, ws>>
          /\ pending' = pending \/ pending' = [pending EXCEPT ![chan[k]][g] = "open"]
      BY <2>1 DEF RequestGate
    <3> QED BY <3>1 DEF TypeOK, LinksOK, Entries
  <2>3. StoredOK'
    BY <2>1 DEF RequestGate, TypeOK, StoredOK
  <2>4. SocketsOK'
    BY <2>1 DEF RequestGate, TypeOK, SocketsOK
  <2>5. GatesOK'
    BY <2>1 DEF RequestGate, TypeOK, GatesOK, Stages, Waiting
  <2> QED BY <2>1, <2>2, <2>3, <2>4, <2>5, Kept DEF RequestGate, TypeOK
<1>2. CASE \E g \in Gates : Parks(g) \/ ToolEnds(g)
  <2>1. PICK g \in Gates : Parks(g) \/ ToolEnds(g)
    BY <1>2
  <2>2. GatesOK'
    BY <2>1 DEF Parks, ToolEnds, TypeOK, GatesOK, Stages, Waiting
  <2> QED BY <2>1, <2>2, Kept DEF Parks, ToolEnds, TypeOK
<1>3. CASE \E g \in Gates : GateAnswered(g)
  <2>1. PICK g \in Gates : GateAnswered(g)
    BY <1>3
  <2>2. LinksOK'
    BY <2>1 DEF GateAnswered, TypeOK, LinksOK, Entries
  <2>3. StoredOK'
    BY <2>1 DEF GateAnswered, TypeOK, StoredOK
  <2>4. GatesOK'
    BY <2>1 DEF GateAnswered, TypeOK, GatesOK, Stages
  <2> QED BY <2>1, <2>2, <2>3, <2>4, Kept DEF GateAnswered, TypeOK
<1> QED BY <1>1, <1>2, <1>3 DEF ToolStep

LEMMA RestartTypes == ASSUME TypeOK, Restart PROVE TypeOK'
<1>1. SocketsOK' /\ LinksOK' /\ SlotsOK' /\ QueuesOK'
  BY DEF Restart, SocketsOK, LinksOK, SlotsOK, QueuesOK, NoEntries, Entries
<1>2. TaskOK'
  BY DEF Restart, TypeOK, TaskOK, Ended
<1>3. GatesOK'
  BY DEF Restart, TypeOK, GatesOK, Stages
<1>4. FateOK'
  <2>1. UNION {Elems(text[k]) : k \in {j \in Turns : Alive(j)}} \subseteq Messages
    BY UnheardTypes
  <2>2. dropped' = dropped \cup Elems(Queued)
                   \cup UNION {Elems(text[k]) : k \in {j \in Turns : Alive(j)}}
    BY DEF Restart
  <2>3. UNCHANGED <<heard, left, halted>>
    BY DEF Restart
  <2> QED BY <2>1, <2>2, <2>3, QueuedTypes DEF TypeOK, FateOK
<1> QED BY <1>1, <1>2, <1>3, <1>4, Kept DEF Restart, TypeOK

LEMMA TypeInit == Init => TypeOK
<1> SUFFICES ASSUME Init PROVE TypeOK
  OBVIOUS
<1>1. SocketsOK /\ LinksOK /\ StoredOK
  BY DEF Init, SocketsOK, LinksOK, StoredOK, NoEntries, Entries
<1>2. TaskOK /\ SlotsOK /\ QueuesOK
  BY DEF Init, TaskOK, SlotsOK, QueuesOK, MaxCancels
<1>3. GatesOK /\ FateOK
  BY DEF Init, GatesOK, FateOK, Kinds, Stages
<1> QED BY <1>1, <1>2, <1>3, ChatAssumption DEF Init, TypeOK

LEMMA TypeNext == TypeOK /\ [Next]_vars => TypeOK'
<1> SUFFICES ASSUME TypeOK, [Next]_vars PROVE TypeOK'
  OBVIOUS
<1>1. CASE UNCHANGED vars
  BY <1>1, Kept DEF vars, TypeOK
<1>2. CASE \E c \in Conns : UserStep(c) \/ StopReturns(c) \/ StopTimesOut(c)
  BY <1>2, ConnectTypes, DisconnectTypes, UserMessageTypes, AnswerTypes, OtherUserTypes
     DEF UserStep
<1>3. CASE \E k \in Turns : TurnStep(k) \/ UnwindStep(k) \/ Fail(k)
  BY <1>3, TurnTypes, UnwindTypes
<1>4. CASE \/ \E k \in Turns, g \in Gates, what \in Kinds : RequestGate(k, g, what)
           \/ \E g \in Gates : ToolStep(g)
  BY <1>4, ToolTypes
<1>5. CASE Restart
  BY <1>5, RestartTypes
<1> QED BY <1>1, <1>2, <1>3, <1>4, <1>5 DEF Next

\* Every variable of a chat keeps its type: turns and gates stay in their life
\* cycles, a turn is cancelled twice at most, and a steer queue belongs to a
\* registered turn, whatever tabs, stops, errors and restarts do.
THEOREM ChatTypeCorrect == Spec => []TypeOK
  BY TypeInit, TypeNext, PTL DEF Spec
-----------------------------------------------------------------------------
(* One turn at a time. *)

\* OneTurn is inductive together with what the engine's register says: a turn
\* in LIVE_TURNS stands inside the engine, between connecting and disconnecting.
InEngine == {"connecting", "thinking", "disconnecting", "aborting"}

SlotType ==
    /\ pc \in [Turns -> {"none"} \cup Live \cup Ended]
    /\ running \in Turns \cup {NoTurn}
    /\ registry \in Turns \cup {NoTurn}
    /\ live \in Turns \cup {NoTurn}

LiveInEngine == live # NoTurn => pc[live] \in InEngine

SlotInv == SlotType /\ OneTurn /\ LiveInEngine

LEMMA TurnsAreNamed == NoTurn \notin Turns
  BY ChatAssumption DEF Turns, NoTurn

LEMMA SlotInit == Init => SlotInv
  BY DEF Init, SlotInv, SlotType, OneTurn, LiveInEngine, Alive, Live

\* The only turn alive is the one in app.state.running.
LEMMA OnlyOneAlive ==
  ASSUME SlotInv, NEW j \in Turns, NEW k \in Turns, Alive(j), Alive(k)
  PROVE  j = k
  BY DEF SlotInv, OneTurn

LEMMA Idle ==
  ASSUME SlotInv, UNCHANGED <<pc, running, registry, live>>
  PROVE  SlotInv'
  BY DEF SlotInv, SlotType, OneTurn, LiveInEngine, Alive

\* The turn's task goes on to another await.
LEMMA Move ==
  ASSUME SlotInv, NEW k \in Turns, Alive(k), NEW to \in Live, Goto(k, to),
         UNCHANGED slots, live' \in {live, k, NoTurn}, live' = k => to \in InEngine
  PROVE  SlotInv'
<1>1. running = k /\ registry = k /\ live \in {k, NoTurn}
  BY DEF SlotInv, OneTurn
<1>2. SlotType'
  BY DEF SlotInv, SlotType, Goto, slots
<1>3. pc'[k] = to /\ \A j \in Turns \ {k} : pc'[j] = pc[j]
  BY DEF SlotInv, SlotType, Goto
<1>4. OneTurn'
  BY <1>1, <1>3, OnlyOneAlive DEF OneTurn, Alive, slots
<1>5. LiveInEngine'
  BY <1>1, <1>3 DEF LiveInEngine
<1> QED BY <1>2, <1>4, <1>5 DEF SlotInv

\* A task ends: nothing is alive any more.
LEMMA Finish ==
  ASSUME SlotInv, NEW k \in Turns, Alive(k), pc[k] \notin InEngine, Goto(k, "done"),
         running' \in Turns \cup {NoTurn}, registry' \in Turns \cup {NoTurn},
         UNCHANGED live
  PROVE  SlotInv'
<1>1. live = NoTurn
  <2>1. live \in {k, NoTurn}
    BY DEF SlotInv, OneTurn
  <2> QED BY <2>1 DEF SlotInv, LiveInEngine
<1>2. SlotType'
  BY DEF SlotInv, SlotType, Goto, Ended
<1>3. \A j \in Turns : pc'[j] = "done" \/ pc'[j] \notin Live
  <2>1. \A j \in Turns \ {k} : pc'[j] = pc[j] /\ ~Alive(j)
    BY OnlyOneAlive DEF SlotInv, SlotType, Goto
  <2>2. pc'[k] = "done"
    BY DEF SlotInv, SlotType, Goto
  <2> QED BY <2>1, <2>2 DEF Alive
<1>4. OneTurn'
  BY <1>3 DEF OneTurn, Alive, Live
<1> QED BY <1>1, <1>2, <1>4 DEF SlotInv, LiveInEngine

\* A turn starts when none is alive but the one that creates it as its follow-up.
LEMMA Start ==
  ASSUME SlotInv, NEW ended \in Turns \cup {NoTurn}, NEW ch, NEW msgs,
         \A j \in Turns : Alive(j) => j = ended /\ pc[j] \notin InEngine,
         Launch(ended, ch, msgs), UNCHANGED live
  PROVE  SlotInv'
<1>1. live = NoTurn
  <2> SUFFICES ASSUME live # NoTurn PROVE FALSE
    OBVIOUS
  <2>1. live \in Turns /\ pc[live] \in InEngine
    BY DEF SlotInv, SlotType, LiveInEngine
  <2>2. Alive(live)
    BY <2>1 DEF Alive, InEngine, Live
  <2> QED BY <2>1, <2>2
<1>2. NextTurn \in Turns /\ running' = NextTurn /\ registry' = NextTurn
  BY DEF Launch
<1>3. pc' = [k \in Turns |-> CASE k = NextTurn -> "created"
                               [] k = ended    -> "done"
                               [] OTHER        -> pc[k]]
  BY DEF Launch
<1>4. \A k \in Turns : pc'[k] \in {"none"} \cup Live \cup Ended
  BY <1>3 DEF SlotInv, SlotType, Live, Ended
<1>5. SlotType'
  BY <1>1, <1>2, <1>3, <1>4 DEF SlotType, NoTurn
<1>6. \A k \in Turns : k # NextTurn => pc'[k] \notin Live
  <2> SUFFICES ASSUME NEW k \in Turns, k # NextTurn PROVE pc'[k] \notin Live
    OBVIOUS
  <2>1. CASE k = ended
    BY <2>1, <1>3 DEF Live
  <2>2. CASE k # ended
    <3>1. pc'[k] = pc[k]
      BY <2>2, <1>3
    <3> QED BY <2>2, <3>1 DEF Alive
  <2> QED BY <2>1, <2>2
<1>7. OneTurn'
  BY <1>1, <1>2, <1>6 DEF OneTurn, Alive
<1> QED BY <1>1, <1>5, <1>7 DEF SlotInv, LiveInEngine

\* What happens at the sockets leaves the turn alone, or starts one when none
\* is alive.
LEMMA SocketsKeepSlots ==
  ASSUME SlotInv, NEW c \in Conns, UserStep(c) \/ StopReturns(c) \/ StopTimesOut(c)
  PROVE  SlotInv'
<1>1. CASE UserMessage(c)
  <2>1. CASE Running /\ UNCHANGED <<pc, chan, text, slots>>
    BY <1>1, <2>1, Idle DEF UserMessage, slots
  <2>2. CASE ~Running /\ Launch(NoTurn, at[c], <<sent + 1>>)
    <3>1. \A j \in Turns : ~Alive(j)
      BY <2>2, TurnsAreNamed DEF Running, SlotInv, OneTurn
    <3>2. UNCHANGED live
      BY <1>1 DEF UserMessage
    <3> QED BY <2>2, <3>1, <3>2, Start
  <2> QED BY <1>1, <2>1, <2>2 DEF UserMessage
<1>2. CASE ~UserMessage(c)
  <2>1. UNCHANGED <<pc, running, registry, live>>
    <3>1. CASE Connect(c) \/ Disconnect(c)
      BY <3>1 DEF Connect, Disconnect, task, slots, queues
    <3>2. CASE Stop(c) \/ StopReturns(c) \/ StopTimesOut(c)
      BY <3>2 DEF Stop, StopReturns, StopTimesOut, task, slots, queues
    <3>3. CASE \E g \in Gates, answer \in {"yes", "no"} : Answer(c, g, answer)
      BY <3>3 DEF Answer, task, slots, queues
    <3>4. CASE \E enabled \in BOOLEAN : SetAutoApprove(c, enabled)
      BY <3>4 DEF SetAutoApprove, task, slots, queues
    <3> QED BY <1>2, <3>1, <3>2, <3>3, <3>4 DEF UserStep
  <2> QED BY <2>1, Idle
<1> QED BY <1>1, <1>2

LEMMA TurnKeepsSlots ==
  ASSUME SlotInv, NEW k \in Turns, TurnStep(k) \/ Fail(k)
  PROVE  SlotInv'
<1> USE DEF At, Alive, Live, InEngine
<1>1. CASE Begin(k)
  <2>1. Alive(k) /\ Goto(k, "starting") /\ UNCHANGED slots /\ live' = live
    BY <1>1 DEF Begin, queues
  <2>2. k # live \/ "starting" \in InEngine
    BY <1>1, TurnsAreNamed DEF Begin, SlotInv, LiveInEngine
  <2>3. "starting" \in Live /\ (live' = k => "starting" \in InEngine)
    BY <2>1, <2>2
  <2> HIDE DEF At, Alive, Live, InEngine
  <2> QED BY <2>1, <2>3, Move
<1>2. CASE Register(k)
  BY <1>2, Move DEF Register
<1>3. CASE Query(k)
  BY <1>3, Move DEF Query, queues
<1>4. CASE Respond(k)
  <2>1. CASE UNCHANGED pc
    BY <1>4, <2>1, Idle DEF Respond, slots
  <2>2. CASE Goto(k, "disconnecting")
    BY <1>4, <2>2, Move DEF Respond
  <2> QED BY <1>4, <2>1, <2>2 DEF Respond
<1>5. CASE Abandon(k) \/ Fail(k)
  BY <1>5, Move DEF Abandon, Fail, queues
<1>6. CASE CloseEngine(k)
  <2>1. live' \in {live, k, NoTurn} /\ live' # k
    BY <1>6, TurnsAreNamed DEF CloseEngine, EngineFinally
  <2> QED BY <1>6, <2>1, Move DEF CloseEngine
<1>7. CASE End(k)
  <2>1. CASE Launch(k, chan[k], ctxQ)
    <3>1. \A j \in Turns : Alive(j) => j = k /\ pc[j] \notin InEngine
      BY <1>7, OnlyOneAlive DEF End
    <3>2. UNCHANGED live
      BY <1>7 DEF End
    <3> QED BY <2>1, <3>1, <3>2, Start
  <2>2. CASE Goto(k, "done") /\ Release(k)
    <3>1. running' \in Turns \cup {NoTurn} /\ registry' \in Turns \cup {NoTurn}
      BY <2>2 DEF Release, SlotInv, SlotType
    <3> QED BY <1>7, <2>2, <3>1, Finish DEF End
  <2> QED BY <1>7, <2>1, <2>2 DEF End
<1> QED BY <1>1, <1>2, <1>3, <1>4, <1>5, <1>6, <1>7 DEF TurnStep

LEMMA UnwindKeepsSlots ==
  ASSUME SlotInv, NEW k \in Turns, UnwindStep(k)
  PROVE  SlotInv'
<1> USE DEF Alive, Live, InEngine
<1>1. CASE CancelledUnstarted(k)
  <2>1. running' \in Turns \cup {NoTurn} /\ registry' \in Turns \cup {NoTurn}
    BY <1>1 DEF CancelledUnstarted, slots, SlotInv, SlotType
  <2> QED BY <1>1, <2>1, Finish DEF CancelledUnstarted, queues
<1>2. CASE CancelledOutside(k)
  <2>1. live # k
    BY <1>2, TurnsAreNamed DEF CancelledOutside, SlotInv, LiveInEngine
  <2> QED BY <1>2, <2>1, Move DEF CancelledOutside, Announcing, queues
<1>3. CASE CancelledInside(k)
  BY <1>3, Move DEF CancelledInside, queues
<1>4. CASE CancelledDisconnecting(k) \/ Aborted(k)
  <2>1. live' \in {live, k, NoTurn} /\ live' # k
    BY <1>4, TurnsAreNamed DEF CancelledDisconnecting, Aborted, EngineFinally
  <2>2. pc[k] \in Live /\ Goto(k, "announcing") /\ UNCHANGED slots
    BY <1>4 DEF CancelledDisconnecting, Aborted, At, Announcing
  <2> QED BY <2>1, <2>2, Move
<1>5. CASE EndCancelled(k)
  <2>1. running' \in Turns \cup {NoTurn} /\ registry' \in Turns \cup {NoTurn}
    BY <1>5 DEF EndCancelled, Release, SlotInv, SlotType
  <2> QED BY <1>5, <2>1, Finish DEF EndCancelled
<1> QED BY <1>1, <1>2, <1>3, <1>4, <1>5 DEF UnwindStep

LEMMA ToolsKeepSlots ==
  ASSUME SlotInv,
         \/ \E k \in Turns, g \in Gates, what \in Kinds : RequestGate(k, g, what)
         \/ \E g \in Gates : ToolStep(g)
  PROVE  SlotInv'
<1>1. UNCHANGED <<pc, running, registry, live>>
  BY DEF RequestGate, ToolStep, Parks, GateAnswered, ToolEnds, task, slots, queues
<1> QED BY <1>1, Idle

LEMMA RestartKeepsSlots ==
  ASSUME SlotInv, Restart
  PROVE  SlotInv'
<1>1. \A k \in Turns : pc'[k] = IF Alive(k) THEN "lost" ELSE pc[k]
  BY DEF Restart
<1>2. \A k \in Turns : pc'[k] \notin Live /\ pc'[k] \in {"none"} \cup Live \cup Ended
  BY <1>1 DEF SlotInv, SlotType, Alive, Live, Ended
<1>3. SlotType'
  BY <1>2 DEF SlotType, Restart
<1>4. OneTurn'
  BY <1>2 DEF OneTurn, Alive
<1>5. LiveInEngine'
  BY DEF LiveInEngine, Restart
<1> QED BY <1>3, <1>4, <1>5 DEF SlotInv

LEMMA SlotNext == SlotInv /\ [Next]_vars => SlotInv'
<1> SUFFICES ASSUME SlotInv, [Next]_vars PROVE SlotInv'
  OBVIOUS
<1>1. CASE UNCHANGED vars
  BY <1>1, Idle DEF vars, task, slots, queues
<1>2. CASE \E c \in Conns : UserStep(c) \/ StopReturns(c) \/ StopTimesOut(c)
  BY <1>2, SocketsKeepSlots
<1>3. CASE \E k \in Turns : TurnStep(k) \/ UnwindStep(k) \/ Fail(k)
  BY <1>3, TurnKeepsSlots, UnwindKeepsSlots
<1>4. CASE \/ \E k \in Turns, g \in Gates, what \in Kinds : RequestGate(k, g, what)
           \/ \E g \in Gates : ToolStep(g)
  BY <1>4, ToolsKeepSlots
<1>5. CASE Restart
  BY <1>5, RestartKeepsSlots
<1> QED BY <1>1, <1>2, <1>3, <1>4, <1>5 DEF Next

\* A chat never has two turns alive, and the one alive is the one that Stop
\* cancels and that steers reach: for any number of tabs, Channels, messages and
\* gates, with superseded and late sockets, early and repeated stops, errors
\* and restarts.
THEOREM OneTurnAtATime == Spec => []OneTurn
<1>1. SlotInv => OneTurn
  BY DEF SlotInv
<1> QED BY <1>1, SlotInit, SlotNext, PTL DEF Spec
-----------------------------------------------------------------------------
(* Announced endings. *)

\* Where a turn's task stands before it has announced anything.
Unannounced == {"created", "starting", "connecting", "thinking", "disconnecting"}

\* Turns are begun in their order, none is skipped.
TurnsInOrder == \E n \in 0..MaxMessages : \A k \in Turns : pc[k] = "none" <=> k > n

\* What was said of a turn and how often it was cancelled, by where it stands: a cancel that
\* has not landed is the second one once the turn unwinds.
Story(k) ==
  /\ cancel[k] => cancels[k] >= 1
  /\ pc[k] = "none" => said[k] = {} /\ cancels[k] = 0
  /\ pc[k] \in Unannounced => said[k] = {} /\ (cancel[k] \/ cancels[k] = 0)
  /\ pc[k] = "closing" => "done" \in said[k]
  /\ pc[k] \in {"aborting", "announcing"} => cancels[k] >= 1 /\ (cancel[k] => cancels[k] >= 2)
  /\ pc[k] = "done" /\ "done" \notin said[k] => cancels[k] > 1 \/ (cancels[k] = 1 /\ said[k] = {})

StoryInv == TurnsInOrder /\ \A k \in Turns : Story(k)

\* The next turn is one that has not begun.
LEMMA NextIsNew ==
  ASSUME TurnsInOrder, NextTurn \in Turns
  PROVE  pc[NextTurn] = "none" /\ \A k \in Turns : pc[k] = "none" <=> k >= NextTurn
<1>1. PICK n \in 0..MaxMessages : \A k \in Turns : pc[k] = "none" <=> k > n
  BY DEF TurnsInOrder
<1>2. n \in Nat /\ MaxMessages \in Nat /\ n <= MaxMessages
  BY ChatAssumption
<1>3. {k \in Turns : pc[k] # "none"} = 1..n
  BY <1>1, <1>2 DEF Turns
<1>4. Cardinality(1..n) = n
  <2>1. 1 \in Int /\ n \in Int
    BY <1>2
  <2>2. Cardinality(1..n) = IF 1 > n THEN 0 ELSE n - 1 + 1
    BY <2>1, FS_Interval, Zenon
  <2> QED BY <1>2, <2>2
<1>5. NextTurn = n + 1
  BY <1>3, <1>4 DEF NextTurn
<1> QED BY <1>1, <1>2, <1>5 DEF Turns

LEMMA OneStory ==
  ASSUME StoryInv, NEW k \in Turns, pc[k] # "none", pc'[k] # "none", Story(k)',
         \A j \in Turns \ {k} : /\ pc'[j] = pc[j] /\ said'[j] = said[j]
                                /\ cancel'[j] = cancel[j] /\ cancels'[j] = cancels[j]
  PROVE  StoryInv'
<1>1. TurnsInOrder'
  BY DEF StoryInv, TurnsInOrder
<1>2. \A j \in Turns \ {k} : Story(j)'
  BY DEF StoryInv, Story
<1> QED BY <1>1, <1>2 DEF StoryInv

LEMMA StoryKept == ASSUME StoryInv, UNCHANGED <<pc, said, cancel, cancels>> PROVE StoryInv'
BY DEF StoryInv, TurnsInOrder, Story

\* A turn starts, alone or as the follow-up of one whose end was announced.
LEMMA LaunchStory ==
  ASSUME TypeOK, StoryInv, NEW ended \in Turns \cup {NoTurn}, NEW ch, NEW msgs, Launch(ended, ch, msgs),
         ended = NoTurn \/ pc[ended] = "closing", UNCHANGED <<said, cancel, cancels>>
  PROVE  StoryInv'
<1>1. /\ NextTurn \in Turns
      /\ \A k \in Turns : pc'[k] = IF k = NextTurn THEN "created" ELSE IF k = ended THEN "done" ELSE pc[k]
  <2>1. NextTurn \in Turns
        /\ pc' = [k \in Turns |-> CASE k = NextTurn -> "created" [] k = ended -> "done" [] OTHER -> pc[k]]
    BY DEF Launch
  <2>2. NextTurn # ended
    BY <2>1, NextIsNew, TurnsAreNamed DEF StoryInv
  <2>3. ASSUME NEW k \in Turns
        PROVE  pc'[k] = IF k = NextTurn THEN "created" ELSE IF k = ended THEN "done" ELSE pc[k]
    <3>1. CASE k = NextTurn
      BY <2>1, <2>2, <3>1
    <3>2. CASE k # NextTurn /\ k = ended
      BY <2>1, <3>2
    <3>3. CASE k # NextTurn /\ k # ended
      BY <2>1, <3>3
    <3> QED BY <3>1, <3>2, <3>3
  <2> QED BY <2>1, <2>3
<1>2. pc[NextTurn] = "none" /\ \A k \in Turns : pc[k] = "none" <=> k >= NextTurn
  BY <1>1, NextIsNew DEF StoryInv
<1>3. TurnsInOrder'
  <2>1. NextTurn \in 0..MaxMessages /\ \A k \in Turns : k \in Nat
    BY <1>1, ChatAssumption DEF Turns
  <2>2. \A k \in Turns : pc'[k] = "none" <=> k > NextTurn
    BY <1>1, <1>2, <2>1, TurnsAreNamed
  <2> QED BY <2>1, <2>2 DEF TurnsInOrder
<1>4. ASSUME NEW k \in Turns PROVE Story(k)'
  <2>1. Story(k) /\ cancels[k] \in 0..2 /\ cancel[k] \in BOOLEAN
    BY DEF StoryInv, TypeOK, TaskOK, MaxCancels
  <2>2. CASE k = NextTurn
    BY <1>1, <1>2, <2>1, <2>2 DEF Story, Unannounced
  <2>3. CASE k # NextTurn /\ k = ended
    BY <1>1, <2>1, <2>3, TurnsAreNamed DEF Story, Unannounced
  <2>4. CASE k # NextTurn /\ k # ended
    BY <1>1, <2>1, <2>4 DEF Story
  <2> QED BY <2>2, <2>3, <2>4
<1> QED BY <1>3, <1>4 DEF StoryInv

LEMMA SocketsKeepStory ==
  ASSUME TypeOK, SlotInv, StoryInv, NEW c \in Conns, UserStep(c) \/ StopReturns(c) \/ StopTimesOut(c)
  PROVE  StoryInv'
<1>1. CASE UserMessage(c)
  <2>1. CASE UNCHANGED <<pc, chan, text, slots>>
    BY <1>1, <2>1, StoryKept DEF UserMessage
  <2>2. CASE Launch(NoTurn, at[c], <<sent + 1>>)
    BY <1>1, <2>2, LaunchStory DEF UserMessage
  <2> QED BY <1>1, <2>1, <2>2 DEF UserMessage
<1>2. ASSUME NEW k \in Turns, Alive(k), UNCHANGED <<pc, said>>, cancels[k] < MaxCancels,
             cancel' = [cancel EXCEPT ![k] = TRUE], cancels' = [cancels EXCEPT ![k] = @ + 1]
      PROVE  StoryInv'
  <2>1. Story(k) /\ cancels[k] \in 0..2 /\ pc[k] \in Live
    BY <1>2 DEF StoryInv, TypeOK, TaskOK, MaxCancels, Alive
  <2>2. /\ cancel'[k] /\ cancels'[k] = cancels[k] + 1
        /\ \A j \in Turns \ {k} : cancel'[j] = cancel[j] /\ cancels'[j] = cancels[j]
    BY <1>2 DEF TypeOK, TaskOK
  <2>3. Story(k)'
    BY <1>2, <2>1, <2>2 DEF Story, Live, Unannounced
  <2> QED BY <1>2, <2>1, <2>2, <2>3, OneStory DEF Live
<1>3. CASE Stop(c)
  BY <1>2, <1>3, TurnsAreNamed DEF Stop, TypeOK, SlotsOK
<1>4. CASE StopTimesOut(c)
  BY <1>2, <1>4, TurnsAreNamed DEF StopTimesOut, TypeOK, SocketsOK
<1>5. CASE \/ Connect(c) \/ Disconnect(c) \/ StopReturns(c)
           \/ \E g \in Gates, answer \in {"yes", "no"} : Answer(c, g, answer)
           \/ \E enabled \in BOOLEAN : SetAutoApprove(c, enabled)
  <2>1. UNCHANGED task
    BY <1>5 DEF Connect, Disconnect, StopReturns, Answer, SetAutoApprove
  <2> QED BY <2>1, StoryKept DEF task
<1> QED BY <1>1, <1>3, <1>4, <1>5 DEF UserStep

LEMMA TurnKeepsStory ==
  ASSUME TypeOK, StoryInv, NEW k \in Turns, TurnStep(k) \/ Fail(k)
  PROVE  StoryInv'
<1>0. Story(k) /\ cancel[k] \in BOOLEAN /\ cancels[k] \in 0..2
  BY DEF StoryInv, TypeOK, TaskOK, MaxCancels
<1>1. ASSUME NEW to \in Unannounced, Goto(k, to), pc[k] \in Unannounced, UNCHANGED <<said, cancel, cancels>>
      PROVE  StoryInv'
  <2>1. pc'[k] = to /\ \A j \in Turns \ {k} : pc'[j] = pc[j]
    BY <1>1 DEF Goto, TypeOK, TaskOK
  <2> QED BY <1>0, <1>1, <2>1, OneStory DEF Story, Unannounced
<1>2. CASE Begin(k) \/ Register(k) \/ Query(k) \/ Abandon(k) \/ Fail(k)
  BY <1>1, <1>2 DEF Begin, Register, Query, Abandon, Fail, At, Unannounced
<1>3. CASE Respond(k)
  BY <1>1, <1>3, StoryKept DEF Respond, At, Unannounced
<1>4. CASE CloseEngine(k)
  <2>1. /\ pc[k] = "disconnecting" /\ pc'[k] = "closing" /\ "done" \in said'[k] /\ UNCHANGED <<cancel, cancels>>
        /\ \A j \in Turns \ {k} : pc'[j] = pc[j] /\ said'[j] = said[j]
    BY <1>4 DEF CloseEngine, At, Goto, TypeOK, TaskOK
  <2> QED BY <1>0, <2>1, OneStory DEF Story, Unannounced
<1>5. CASE End(k)
  <2>1. pc[k] = "closing" /\ UNCHANGED <<said, cancel, cancels>>
    BY <1>5 DEF End, At
  <2>2. CASE Launch(k, chan[k], ctxQ)
    BY <2>1, <2>2, LaunchStory
  <2>3. CASE Goto(k, "done")
    <3>1. pc'[k] = "done" /\ \A j \in Turns \ {k} : pc'[j] = pc[j]
      BY <2>3 DEF Goto, TypeOK, TaskOK
    <3> QED BY <1>0, <2>1, <3>1, OneStory DEF Story, Unannounced
  <2> QED BY <1>5, <2>2, <2>3 DEF End
<1> QED BY <1>2, <1>3, <1>4, <1>5 DEF TurnStep

LEMMA UnwindKeepsStory ==
  ASSUME TypeOK, StoryInv, NEW k \in Turns, UnwindStep(k)
  PROVE  StoryInv'
<1>0. Story(k) /\ cancel[k] \in BOOLEAN /\ cancels[k] \in 0..2
  BY DEF StoryInv, TypeOK, TaskOK, MaxCancels
<1>1. CASE CancelledUnstarted(k)
  <2>1. /\ pc[k] = "created" /\ cancel[k] /\ pc'[k] = "done" /\ cancel'[k] = FALSE /\ UNCHANGED <<said, cancels>>
        /\ \A j \in Turns \ {k} : pc'[j] = pc[j] /\ cancel'[j] = cancel[j]
    BY <1>1 DEF CancelledUnstarted, Lands, Goto, TypeOK, TaskOK
  <2> QED BY <1>0, <2>1, OneStory DEF Story, Unannounced
<1>2. CASE CancelledOutside(k) \/ CancelledDisconnecting(k)
  <2>1. /\ pc[k] \in {"starting", "closing", "disconnecting", "aborting"} /\ cancel[k]
        /\ pc'[k] = "announcing" /\ cancel'[k] = FALSE /\ UNCHANGED cancels
        /\ \A j \in Turns \ {k} : pc'[j] = pc[j] /\ cancel'[j] = cancel[j] /\ said'[j] = said[j]
    BY <1>2 DEF CancelledOutside, CancelledDisconnecting, Announcing, Lands, Goto, TypeOK, TaskOK
  <2> QED BY <1>0, <2>1, OneStory DEF Story, Unannounced
<1>3. CASE CancelledInside(k)
  <2>1. /\ pc[k] \in {"connecting", "thinking"} /\ cancel[k]
        /\ pc'[k] = "aborting" /\ cancel'[k] = FALSE /\ UNCHANGED <<cancels, said>>
        /\ \A j \in Turns \ {k} : pc'[j] = pc[j] /\ cancel'[j] = cancel[j]
    BY <1>3 DEF CancelledInside, Lands, Goto, TypeOK, TaskOK
  <2> QED BY <1>0, <2>1, OneStory DEF Story, Unannounced
<1>4. CASE Aborted(k)
  <2>1. /\ pc[k] = "aborting" /\ ~cancel[k] /\ pc'[k] = "announcing" /\ UNCHANGED <<cancel, cancels>>
        /\ \A j \in Turns \ {k} : pc'[j] = pc[j] /\ said'[j] = said[j]
    BY <1>4 DEF Aborted, At, Announcing, Goto, TypeOK, TaskOK
  <2> QED BY <1>0, <2>1, OneStory DEF Story, Unannounced
<1>5. CASE EndCancelled(k)
  <2>1. /\ pc[k] = "announcing" /\ pc'[k] = "done" /\ cancel'[k] = FALSE /\ UNCHANGED cancels
        /\ (~cancel[k] => "done" \in said'[k])
        /\ \A j \in Turns \ {k} : pc'[j] = pc[j] /\ cancel'[j] = cancel[j] /\ said'[j] = said[j]
    BY <1>5 DEF EndCancelled, Announced, Goto, TypeOK, TaskOK
  <2> QED BY <1>0, <2>1, OneStory DEF Story, Unannounced
<1> QED BY <1>1, <1>2, <1>3, <1>4, <1>5 DEF UnwindStep

LEMMA StoryNext == ASSUME TypeOK, SlotInv, StoryInv, [Next]_vars PROVE StoryInv'
<1>1. CASE UNCHANGED vars
  BY <1>1, StoryKept DEF vars, task
<1>2. CASE \E c \in Conns : UserStep(c) \/ StopReturns(c) \/ StopTimesOut(c)
  BY <1>2, SocketsKeepStory
<1>3. CASE \E k \in Turns : TurnStep(k) \/ UnwindStep(k) \/ Fail(k)
  BY <1>3, TurnKeepsStory, UnwindKeepsStory
<1>4. CASE \/ \E k \in Turns, g \in Gates, what \in Kinds : RequestGate(k, g, what)
           \/ \E g \in Gates : ToolStep(g)
  <2>1. UNCHANGED task
    BY <1>4 DEF RequestGate, ToolStep, Parks, GateAnswered, ToolEnds
  <2> QED BY <2>1, StoryKept DEF task
<1>5. CASE Restart
  <2>1. /\ \A k \in Turns : pc'[k] = IF Alive(k) THEN "lost" ELSE pc[k]
        /\ \A k \in Turns : cancel'[k] = FALSE
        /\ UNCHANGED <<said, cancels>>
    BY <1>5 DEF Restart
  <2>2. TurnsInOrder'
    <3>1. \A k \in Turns : pc'[k] = "none" <=> pc[k] = "none"
      BY <2>1 DEF Alive, Live
    <3> QED BY <3>1 DEF StoryInv, TurnsInOrder
  <2>3. ASSUME NEW k \in Turns PROVE Story(k)'
    <3>1. Story(k) /\ cancels[k] \in 0..2
      BY DEF StoryInv, TypeOK, TaskOK, MaxCancels
    <3> QED BY <2>1, <3>1 DEF Story, Unannounced, Alive, Live
  <2> QED BY <2>2, <2>3 DEF StoryInv
<1> QED BY <1>1, <1>2, <1>3, <1>4, <1>5 DEF Next

LEMMA StoryInit == Init => StoryInv
<1> SUFFICES ASSUME Init PROVE StoryInv
  OBVIOUS
<1>1. TurnsInOrder
  <2>1. 0 \in 0..MaxMessages /\ \A k \in Turns : k > 0
    BY ChatAssumption DEF Turns
  <2> QED BY <2>1 DEF Init, TurnsInOrder
<1> QED BY <1>1 DEF Init, StoryInv, Story, Unannounced

\* A page never waits for the end of a turn that is over: for any number of stops of any
\* tab, at any await, the end was announced unless the stop came before the task's first
\* step or a second cancel cut the announcement of the first.
THEOREM EndsAreAnnounced == Spec => []EndAnnounced
<1>1. StoryInv => EndAnnounced
  BY DEF StoryInv, Story, EndAnnounced
<1>2. TypeOK /\ SlotInv /\ StoryInv /\ [Next]_vars => (TypeOK /\ SlotInv /\ StoryInv)'
  BY TypeNext, SlotNext, StoryNext
<1> HIDE DEF TypeOK, SlotInv, StoryInv
<1> QED BY <1>1, <1>2, TypeInit, SlotInit, StoryInit, PTL DEF Spec
-----------------------------------------------------------------------------
(* Messages. *)

Distinct(s) == \A i, j \in DOMAIN s : s[i] = s[j] => i = j

LEMMA ElemsEmpty == Elems(<<>>) = {} /\ Distinct(<<>>)
BY DEF Elems, Distinct

LEMMA ElemsConcat ==
  ASSUME NEW S, NEW s \in Seq(S), NEW t \in Seq(S)
  PROVE  /\ s \o t \in Seq(S) /\ Elems(s \o t) = Elems(s) \cup Elems(t)
         /\ Distinct(s) /\ Distinct(t) /\ Elems(s) \cap Elems(t) = {} => Distinct(s \o t)
<1> DEFINE q == s \o t
<1>1. /\ q \in Seq(S) /\ Len(q) = Len(s) + Len(t) /\ Len(s) \in Nat /\ Len(t) \in Nat
      /\ DOMAIN q = 1..Len(q) /\ DOMAIN s = 1..Len(s) /\ DOMAIN t = 1..Len(t)
  OBVIOUS
<1>2. \A i \in 1..Len(s) : q[i] = s[i]
  OBVIOUS
<1>3. \A i \in 1..Len(t) : q[Len(s) + i] = t[i]
  OBVIOUS
<1>4. \A i \in 1..Len(q) : i \in 1..Len(s) \/ (i - Len(s) \in 1..Len(t) /\ q[i] = t[i - Len(s)])
  <2> SUFFICES ASSUME NEW i \in 1..Len(q), i \notin 1..Len(s)
               PROVE  i - Len(s) \in 1..Len(t) /\ q[i] = t[i - Len(s)]
    OBVIOUS
  <2>1. i - Len(s) \in 1..Len(t) /\ Len(s) + (i - Len(s)) = i
    BY <1>1
  <2> QED BY <1>3, <2>1
<1>5. \A i \in 1..Len(t) : Len(s) + i \in 1..Len(q)
  BY <1>1
<1>6. \A i \in 1..Len(s) : i \in 1..Len(q)
  BY <1>1
<1> HIDE DEF q
<1>7. Elems(q) = Elems(s) \cup Elems(t)
  <2>1. Elems(q) \subseteq Elems(s) \cup Elems(t)
    BY <1>1, <1>2, <1>4 DEF Elems
  <2>2. Elems(s) \subseteq Elems(q)
    BY <1>1, <1>2, <1>6 DEF Elems
  <2>3. Elems(t) \subseteq Elems(q)
    BY <1>1, <1>3, <1>5 DEF Elems
  <2> QED BY <2>1, <2>2, <2>3
<1>8. ASSUME Distinct(s), Distinct(t), Elems(s) \cap Elems(t) = {} PROVE Distinct(q)
  <2> SUFFICES ASSUME NEW i \in 1..Len(q), NEW j \in 1..Len(q), q[i] = q[j] PROVE i = j
    BY <1>1 DEF Distinct
  <2>1. \A a \in 1..Len(s), b \in 1..Len(t) : s[a] # t[b]
    BY <1>1, <1>8 DEF Elems
  <2>2. CASE i \in 1..Len(s) /\ j \in 1..Len(s)
    BY <1>1, <1>2, <1>8, <2>2 DEF Distinct
  <2>3. CASE i \in 1..Len(s) /\ j \notin 1..Len(s)
    BY <1>2, <1>4, <2>1, <2>3
  <2>4. CASE i \notin 1..Len(s) /\ j \in 1..Len(s)
    BY <1>2, <1>4, <2>1, <2>4
  <2>5. CASE i \notin 1..Len(s) /\ j \notin 1..Len(s)
    <3>1. i - Len(s) \in 1..Len(t) /\ j - Len(s) \in 1..Len(t) /\ t[i - Len(s)] = t[j - Len(s)]
      BY <1>4, <2>5
    <3>2. i - Len(s) = j - Len(s)
      BY <1>1, <1>8, <3>1 DEF Distinct
    <3> QED BY <1>1, <3>2
  <2> QED BY <2>2, <2>3, <2>4, <2>5
<1> QED BY <1>1, <1>7, <1>8 DEF q

LEMMA ElemsSingle == ASSUME NEW m PROVE Elems(<<m>>) = {m} /\ Distinct(<<m>>)
BY DEF Elems, Distinct

LEMMA ElemsAppend ==
  ASSUME NEW S, NEW s \in Seq(S), NEW m \in S
  PROVE  /\ Elems(Append(s, m)) = Elems(s) \cup {m}
         /\ Distinct(s) /\ m \notin Elems(s) => Distinct(Append(s, m))
<1> DEFINE t == <<m>>
<1>1. Elems(t) = {m} /\ Distinct(t) /\ t \in Seq(S)
  BY DEF Elems, Distinct
<1>2. Append(s, m) = s \o t
  OBVIOUS
<1> HIDE DEF t
<1>3. /\ Elems(s \o t) = Elems(s) \cup Elems(t)
      /\ Distinct(s) /\ Distinct(t) /\ Elems(s) \cap Elems(t) = {} => Distinct(s \o t)
  BY <1>1, ElemsConcat
<1>4. m \notin Elems(s) => Elems(s) \cap Elems(t) = {}
  BY <1>1
<1> QED BY <1>1, <1>2, <1>3, <1>4 DEF t

\* Only a turn that has not been given its text yet, or failed before it was, carries any.
TextLive ==
  \A k \in Turns : text[k] # <<>> => pc[k] \in {"created", "starting", "connecting", "disconnecting"}

Carried == UNION {Elems(text[k]) : k \in Turns}

AllDistinct ==
  Distinct(heard) /\ Distinct(liveQ) /\ Distinct(ctxQ) /\ \A k \in Turns : Distinct(text[k])

\* No two of the places a message can be in share one.
AllApart ==
  /\ Elems(heard) \cap Elems(liveQ) = {} /\ Elems(heard) \cap Elems(ctxQ) = {}
  /\ Elems(liveQ) \cap Elems(ctxQ) = {}
  /\ (Elems(heard) \cup Elems(liveQ) \cup Elems(ctxQ)) \cap dropped = {}
  /\ Carried \cap (Elems(heard) \cup Elems(liveQ) \cup Elems(ctxQ) \cup dropped) = {}

AllPlaced == 1..sent = Elems(heard) \cup Elems(liveQ) \cup Elems(ctxQ) \cup dropped \cup Carried

MessageInv == TextLive /\ AllDistinct /\ AllApart /\ AllPlaced

LEMMA QueuesAreSeqs ==
  ASSUME TypeOK
  PROVE  /\ heard \in Seq(Messages) /\ liveQ \in Seq(Messages) /\ ctxQ \in Seq(Messages)
         /\ <<>> \in Seq(Messages) /\ \A k \in Turns : text[k] \in Seq(Messages)
BY DEF TypeOK, FateOK, QueuesOK, TaskOK

LEMMA OthersCarryNothing ==
  ASSUME SlotInv, TextLive, NEW k \in Turns, Alive(k)
  PROVE  \A j \in Turns \ {k} : text[j] = <<>>
BY OnlyOneAlive DEF TextLive, Alive, Live

LEMMA IdleCarriesNothing ==
  ASSUME TextLive, \A k \in Turns : ~Alive(k)
  PROVE  \A k \in Turns : text[k] = <<>>
BY DEF TextLive, Alive, Live

LEMMA MessagesKept ==
  ASSUME MessageInv, UNCHANGED <<heard, liveQ, ctxQ, dropped, text, sent>>, TextLive'
  PROVE  MessageInv'
BY DEF MessageInv, AllDistinct, AllApart, AllPlaced, Carried

\* Elsewhere the turns stand where they stood.
LEMMA TextStays ==
  ASSUME TypeOK, TextLive, NEW k \in Turns, NEW to, Goto(k, to), text' = text,
         to \in {"created", "starting", "connecting", "disconnecting"} \/ text[k] = <<>>
  PROVE  TextLive'
BY DEF TypeOK, TaskOK, Goto, TextLive

\* A message is put where it belongs: into the live turn's queue, into the session's, or
\* into the text of the turn it starts.
LEMMA UserMessageKeeps ==
  ASSUME TypeOK, SlotInv, MessageInv, NEW c \in Conns, UserMessage(c)
  PROVE  MessageInv'
<1> DEFINE m == sent + 1
<1>1. /\ m \in Messages /\ sent' = m /\ sent \in Nat /\ 1..sent' = 1..sent \cup {m} /\ m \notin 1..sent
      /\ UNCHANGED <<heard, dropped>>
  <2>1. sent \in Nat /\ sent < MaxMessages /\ MaxMessages \in Nat /\ sent' = sent + 1
    BY ChatAssumption DEF UserMessage, TypeOK
  <2> QED BY <2>1 DEF UserMessage, fate, Messages
<1> HIDE DEF m
<1>2. m \notin Elems(heard) \cup Elems(liveQ) \cup Elems(ctxQ) \cup dropped \cup Carried
  BY <1>1 DEF MessageInv, AllPlaced
<1>3. CASE Running
  <2>1. UNCHANGED <<pc, text>>
    BY <1>3 DEF UserMessage
  <2>2. Carried' = Carried /\ TextLive' /\ \A k \in Turns : Distinct(text'[k])
    BY <2>1 DEF Carried, MessageInv, TextLive, AllDistinct
  <2>3. CASE liveQ' = Append(liveQ, m) /\ UNCHANGED ctxQ
    <3>1. Elems(liveQ') = Elems(liveQ) \cup {m} /\ Distinct(liveQ')
      <4>1. liveQ \in Seq(Messages) /\ m \in Messages /\ m \notin Elems(liveQ) /\ Distinct(liveQ)
        BY <1>1, <1>2, QueuesAreSeqs DEF MessageInv, AllDistinct
      <4>2. Elems(Append(liveQ, m)) = Elems(liveQ) \cup {m} /\ Distinct(Append(liveQ, m))
        BY <4>1, ElemsAppend, SMTT(30)
      <4> QED BY <2>3, <4>2
    <3> QED BY <1>1, <1>2, <2>2, <2>3, <3>1 DEF MessageInv, AllDistinct, AllApart, AllPlaced
  <2>4. CASE ctxQ' = Append(ctxQ, m) /\ UNCHANGED liveQ
    <3>1. Elems(ctxQ') = Elems(ctxQ) \cup {m} /\ Distinct(ctxQ')
      <4>1. ctxQ \in Seq(Messages) /\ m \in Messages /\ m \notin Elems(ctxQ) /\ Distinct(ctxQ)
        BY <1>1, <1>2, QueuesAreSeqs DEF MessageInv, AllDistinct
      <4>2. Elems(Append(ctxQ, m)) = Elems(ctxQ) \cup {m} /\ Distinct(Append(ctxQ, m))
        BY <4>1, ElemsAppend, SMTT(30)
      <4> QED BY <2>4, <4>2
    <3> QED BY <1>1, <1>2, <2>2, <2>4, <3>1 DEF MessageInv, AllDistinct, AllApart, AllPlaced
  <2> QED BY <1>3, <2>3, <2>4 DEF UserMessage, m
<1>4. CASE ~Running
  <2>1. Launch(NoTurn, at[c], <<m>>) /\ UNCHANGED <<liveQ, ctxQ>>
    BY <1>4 DEF UserMessage, m
  <2>2. \A k \in Turns : text[k] = <<>>
    BY <1>4, TurnsAreNamed, IdleCarriesNothing DEF Running, SlotInv, OneTurn, MessageInv
  <2>3. NextTurn \in Turns /\ text' = [text EXCEPT ![NextTurn] = <<m>>]
        /\ pc' = [k \in Turns |-> CASE k = NextTurn -> "created" [] k = NoTurn -> "done" [] OTHER -> pc[k]]
    BY <2>1 DEF Launch
  <2>4. pc'[NextTurn] = "created"
    BY <2>3, TurnsAreNamed
  <2>5. text'[NextTurn] = <<m>> /\ \A k \in Turns \ {NextTurn} : text'[k] = <<>>
    BY <2>2, <2>3 DEF TypeOK, TaskOK
  <2>6. Carried' = {m} /\ Carried = {}
    <3>1. UNION {Elems(text'[k]) : k \in Turns} = Elems(text'[NextTurn])
      BY <2>3, <2>5, ElemsEmpty
    <3>2. Elems(text'[NextTurn]) = {m}
      BY <2>5, ElemsSingle
    <3> QED BY <2>2, <3>1, <3>2, ElemsEmpty DEF Carried
  <2>7. \A k \in Turns : Distinct(text'[k])
    BY <2>5, ElemsEmpty, ElemsSingle
  <2>8. TextLive'
    BY <2>4, <2>5 DEF TextLive
  <2> QED BY <1>1, <1>2, <2>1, <2>6, <2>7, <2>8 DEF MessageInv, AllDistinct, AllApart, AllPlaced
<1> QED BY <1>3, <1>4

\* The text of a turn, or the queue, becomes part of what the model was given.
LEMMA QueryKeeps == ASSUME TypeOK, SlotInv, MessageInv, NEW k \in Turns, Query(k) PROVE MessageInv'
<1>1. /\ Alive(k) /\ heard' = heard \o text[k] /\ text' = [text EXCEPT ![k] = <<>>]
      /\ UNCHANGED <<liveQ, ctxQ, dropped, sent>>
  BY DEF Query, At, Alive, Live, queues
<1>2. \A j \in Turns \ {k} : text[j] = <<>>
  BY <1>1, OthersCarryNothing DEF MessageInv
<1>3. \A j \in Turns : text'[j] = <<>>
  BY <1>1, <1>2 DEF TypeOK, TaskOK
<1>4. Carried = Elems(text[k]) /\ Carried' = {}
  BY <1>2, <1>3, ElemsEmpty DEF Carried
<1>5. Elems(heard') = Elems(heard) \cup Elems(text[k]) /\ Distinct(heard')
  BY <1>1, <1>4, ElemsConcat, QueuesAreSeqs DEF MessageInv, AllDistinct, AllApart
<1>6. TextLive' /\ \A j \in Turns : Distinct(text'[j])
  BY <1>3, ElemsEmpty DEF TextLive
<1> QED BY <1>1, <1>4, <1>5, <1>6 DEF MessageInv, AllDistinct, AllApart, AllPlaced

LEMMA QueueIsDistinct ==
  ASSUME TypeOK, MessageInv
  PROVE  Elems(Queued) = Elems(liveQ) \cup Elems(ctxQ) /\ Distinct(Queued) /\ Queued \in Seq(Messages)
BY ElemsConcat, QueuesAreSeqs DEF Queued, MessageInv, AllDistinct, AllApart

LEMMA RespondKeeps == ASSUME TypeOK, SlotInv, MessageInv, NEW k \in Turns, Respond(k) PROVE MessageInv'
<1>1. pc[k] = "thinking" /\ text[k] = <<>> /\ UNCHANGED <<text, dropped, sent>>
  BY DEF Respond, At, MessageInv, TextLive
<1>2. CASE heard' = heard \o Queued /\ liveQ' = <<>> /\ ctxQ' = <<>> /\ UNCHANGED pc
  <2>1. Elems(heard') = Elems(heard) \cup Elems(liveQ) \cup Elems(ctxQ) /\ Distinct(heard')
    BY <1>2, ElemsConcat, QueuesAreSeqs, QueueIsDistinct DEF MessageInv, AllDistinct, AllApart
  <2>2. Carried' = Carried /\ TextLive' /\ \A j \in Turns : Distinct(text'[j])
    BY <1>1, <1>2 DEF Carried, MessageInv, TextLive, AllDistinct
  <2> QED BY <1>1, <1>2, <2>1, <2>2, ElemsEmpty DEF MessageInv, AllDistinct, AllApart, AllPlaced
<1>3. CASE Goto(k, "disconnecting") /\ UNCHANGED <<heard, liveQ, ctxQ>>
  BY <1>1, <1>3, MessagesKept, TextStays DEF MessageInv
<1> QED BY <1>2, <1>3 DEF Respond

\* The engine's finally moves the queue as a whole.
LEMMA FinallyMoves ==
  ASSUME TypeOK, MessageInv, NEW k \in Turns, EngineFinally(k) \/ UNCHANGED <<liveQ, ctxQ>>
  PROVE  /\ Elems(liveQ') \cup Elems(ctxQ') = Elems(liveQ) \cup Elems(ctxQ)
         /\ Elems(liveQ') \cap Elems(ctxQ') = {} /\ Distinct(liveQ') /\ Distinct(ctxQ')
<1>1. CASE UNCHANGED <<liveQ, ctxQ>>
  BY <1>1 DEF MessageInv, AllDistinct, AllApart
<1>2. CASE liveQ' = <<>> /\ ctxQ' = Queued
  BY <1>2, QueueIsDistinct, ElemsEmpty
<1> QED BY <1>1, <1>2 DEF EngineFinally

\* A turn that will not give its text to the model discards it.
LEMMA TextDropped ==
  ASSUME TypeOK, SlotInv, MessageInv, NEW k \in Turns, Alive(k), NEW to, Goto(k, to),
         dropped' = dropped \cup Elems(text[k]), text' = [text EXCEPT ![k] = <<>>],
         EngineFinally(k) \/ UNCHANGED <<liveQ, ctxQ>>, UNCHANGED <<heard, sent>>
  PROVE  MessageInv'
<1>1. \A j \in Turns \ {k} : text[j] = <<>>
  BY OthersCarryNothing DEF MessageInv
<1>2. \A j \in Turns : text'[j] = <<>>
  BY <1>1 DEF TypeOK, TaskOK
<1>3. Carried = Elems(text[k]) /\ Carried' = {}
  BY <1>1, <1>2, ElemsEmpty DEF Carried
<1>4. TextLive' /\ \A j \in Turns : Distinct(text'[j])
  BY <1>2, ElemsEmpty DEF TextLive
<1>5. /\ Elems(liveQ') \cup Elems(ctxQ') = Elems(liveQ) \cup Elems(ctxQ)
      /\ Elems(liveQ') \cap Elems(ctxQ') = {} /\ Distinct(liveQ') /\ Distinct(ctxQ')
  BY FinallyMoves
<1>6. AllDistinct' /\ AllPlaced'
  BY <1>3, <1>4, <1>5 DEF MessageInv, AllDistinct, AllPlaced
<1>7. AllApart'
  BY <1>3, <1>5 DEF MessageInv, AllApart
<1> QED BY <1>4, <1>6, <1>7 DEF MessageInv

\* The session's queue becomes the text of the follow-up turn.
LEMMA FollowUpKeeps ==
  ASSUME TypeOK, SlotInv, StoryInv, MessageInv, NEW k \in Turns, pc[k] = "closing", Launch(k, chan[k], ctxQ),
         ctxQ' = <<>>, UNCHANGED <<heard, liveQ, dropped, sent>>
  PROVE  MessageInv'
<1>1. Alive(k) /\ text[k] = <<>>
  BY DEF Alive, Live, MessageInv, TextLive
<1>2. \A j \in Turns : text[j] = <<>>
  BY <1>1, OthersCarryNothing DEF MessageInv
<1>3. NextTurn \in Turns /\ text' = [text EXCEPT ![NextTurn] = ctxQ]
      /\ pc' = [j \in Turns |-> CASE j = NextTurn -> "created" [] j = k -> "done" [] OTHER -> pc[j]]
  BY DEF Launch
<1>4. text'[NextTurn] = ctxQ /\ \A j \in Turns \ {NextTurn} : text'[j] = <<>>
  BY <1>2, <1>3 DEF TypeOK, TaskOK
<1>5. Carried' = Elems(ctxQ) /\ Carried = {}
  <2>1. Carried = {}
    BY <1>2, ElemsEmpty DEF Carried
  <2>2. UNION {Elems(text'[j]) : j \in Turns} = Elems(text'[NextTurn])
    BY <1>3, <1>4, ElemsEmpty
  <2> QED BY <1>4, <2>1, <2>2 DEF Carried
<1>6. TextLive'
  <2>1. NextTurn # k
    BY <1>3, NextIsNew DEF StoryInv
  <2>2. pc'[NextTurn] = "created"
    BY <1>3, <2>1
  <2> QED BY <1>4, <2>2 DEF TextLive
<1>7. \A j \in Turns : Distinct(text'[j])
  BY <1>4, ElemsEmpty DEF MessageInv, AllDistinct
<1> QED BY <1>5, <1>6, <1>7, ElemsEmpty DEF MessageInv, AllDistinct, AllApart, AllPlaced

LEMMA TextStaysPut ==
  ASSUME MessageInv, UNCHANGED <<pc, text, heard, liveQ, ctxQ, dropped, sent>>
  PROVE  MessageInv'
<1>1. TextLive'
  BY DEF MessageInv, TextLive
<1> QED BY <1>1, MessagesKept

LEMMA SocketsKeepMessages ==
  ASSUME TypeOK, SlotInv, MessageInv, NEW c \in Conns, UserStep(c) \/ StopReturns(c) \/ StopTimesOut(c)
  PROVE  MessageInv'
<1>1. CASE UserMessage(c)
  BY <1>1, UserMessageKeeps
<1>2. CASE \/ Connect(c) \/ Disconnect(c) \/ StopReturns(c) \/ StopTimesOut(c) \/ Stop(c)
           \/ \E g \in Gates, answer \in {"yes", "no"} : Answer(c, g, answer)
           \/ \E enabled \in BOOLEAN : SetAutoApprove(c, enabled)
  <2>1. UNCHANGED <<pc, text, heard, liveQ, ctxQ, dropped, sent>>
    BY <1>2 DEF Connect, Disconnect, StopReturns, StopTimesOut, Stop, Answer, SetAutoApprove,
                task, queues, fate
  <2> QED BY <2>1, TextStaysPut
<1> QED BY <1>1, <1>2 DEF UserStep

LEMMA TurnKeepsMessages ==
  ASSUME TypeOK, SlotInv, StoryInv, MessageInv, NEW k \in Turns, TurnStep(k) \/ Fail(k)
  PROVE  MessageInv'
<1>1. ASSUME NEW to \in {"starting", "connecting", "disconnecting"}, Goto(k, to),
             UNCHANGED <<heard, liveQ, ctxQ, dropped, text, sent>>
      PROVE  MessageInv'
  BY <1>1, TextStays, MessagesKept DEF MessageInv
<1>2. CASE Begin(k) \/ Abandon(k) \/ Fail(k)
  <2>1. UNCHANGED <<heard, liveQ, ctxQ, dropped, text, sent>>
    BY <1>2 DEF Begin, Abandon, Fail, queues, fate
  <2> QED BY <1>1, <1>2, <2>1 DEF Begin, Abandon, Fail
<1>3. CASE Register(k)
  <2>1. pc[k] = "starting" /\ Alive(k)
    BY <1>3 DEF Register, At, Alive, Live
  <2>2. live = NoTurn
    BY <2>1 DEF SlotInv, OneTurn, LiveInEngine, InEngine
  <2>3. liveQ = <<>>
    BY <2>2 DEF TypeOK, QueuesOK
  <2>4. Goto(k, "connecting") /\ UNCHANGED <<heard, liveQ, ctxQ, dropped, text, sent>>
    BY <1>3, <2>3 DEF Register, fate
  <2> QED BY <1>1, <2>4
<1>4. CASE Query(k)
  BY <1>4, QueryKeeps
<1>5. CASE Respond(k)
  BY <1>5, RespondKeeps
<1>6. CASE CloseEngine(k)
  <2>1. /\ Alive(k) /\ Goto(k, "closing") /\ dropped' = dropped \cup Elems(text[k])
        /\ text' = [text EXCEPT ![k] = <<>>] /\ EngineFinally(k) /\ UNCHANGED <<heard, sent>>
    BY <1>6 DEF CloseEngine, At, Alive, Live
  <2> QED BY <2>1, TextDropped
<1>7. CASE End(k)
  <2>1. pc[k] = "closing" /\ UNCHANGED <<heard, liveQ, dropped, sent>>
    BY <1>7 DEF End, At
  <2>2. CASE Launch(k, chan[k], ctxQ) /\ ctxQ' = <<>>
    BY <2>1, <2>2, FollowUpKeeps
  <2>3. CASE Goto(k, "done") /\ UNCHANGED <<text, ctxQ>>
    <3>1. text[k] = <<>>
      BY <2>1 DEF MessageInv, TextLive
    <3>2. TextLive'
      BY <2>3, <3>1, TextStays DEF MessageInv
    <3> QED BY <2>1, <2>3, <3>2, MessagesKept
  <2> QED BY <1>7, <2>2, <2>3 DEF End
<1> QED BY <1>2, <1>3, <1>4, <1>5, <1>6, <1>7 DEF TurnStep

LEMMA UnwindKeepsMessages ==
  ASSUME TypeOK, SlotInv, MessageInv, NEW k \in Turns, UnwindStep(k)
  PROVE  MessageInv'
<1>1. CASE CancelledUnstarted(k) \/ CancelledOutside(k) \/ CancelledInside(k) \/ CancelledDisconnecting(k)
  <2>1. /\ dropped' = dropped \cup Elems(text[k]) /\ text' = [text EXCEPT ![k] = <<>>]
        /\ UNCHANGED <<heard, sent>>
    BY <1>1 DEF CancelledUnstarted, CancelledOutside, CancelledInside, CancelledDisconnecting
  <2>2. Alive(k)
    BY <1>1 DEF CancelledUnstarted, CancelledOutside, CancelledInside, CancelledDisconnecting, Alive, Live
  <2>3. EngineFinally(k) \/ UNCHANGED <<liveQ, ctxQ>>
    BY <1>1 DEF CancelledUnstarted, CancelledOutside, CancelledInside, CancelledDisconnecting, queues
  <2>4. \E to \in {"done", "announcing", "aborting"} : Goto(k, to)
    BY <1>1 DEF CancelledUnstarted, CancelledOutside, CancelledInside, CancelledDisconnecting, Announcing
  <2> QED BY <2>1, <2>2, <2>3, <2>4, TextDropped
<1>2. CASE Aborted(k)
  <2>1. /\ pc[k] = "aborting" /\ Goto(k, "announcing") /\ EngineFinally(k)
        /\ UNCHANGED <<text, heard, dropped, sent>>
    BY <1>2 DEF Aborted, At, Announcing, fate
  <2>2. text[k] = <<>> /\ Alive(k)
    BY <2>1 DEF MessageInv, TextLive, Alive, Live
  <2>3. dropped' = dropped \cup Elems(text[k]) /\ text' = [text EXCEPT ![k] = <<>>]
    BY <2>1, <2>2, ElemsEmpty DEF TypeOK, TaskOK
  <2> QED BY <2>1, <2>2, <2>3, TextDropped
<1>3. CASE EndCancelled(k)
  <2>1. /\ pc[k] = "announcing" /\ Goto(k, "done") /\ dropped' = dropped \cup Elems(ctxQ) /\ ctxQ' = <<>>
        /\ UNCHANGED <<text, heard, liveQ, sent>>
    BY <1>3 DEF EndCancelled
  <2>2. text[k] = <<>>
    BY <2>1 DEF MessageInv, TextLive
  <2>3. TextLive' /\ Carried' = Carried /\ \A j \in Turns : Distinct(text'[j])
    BY <2>1, <2>2, TextStays DEF MessageInv, AllDistinct, Carried
  <2> QED BY <2>1, <2>3, ElemsEmpty DEF MessageInv, AllDistinct, AllApart, AllPlaced
<1> QED BY <1>1, <1>2, <1>3 DEF UnwindStep

LEMMA RestartKeepsMessages == ASSUME TypeOK, MessageInv, Restart PROVE MessageInv'
<1> DEFINE lost == UNION {Elems(text[k]) : k \in {j \in Turns : Alive(j)}}
<1>1. /\ \A k \in Turns : text'[k] = <<>>
      /\ liveQ' = <<>> /\ ctxQ' = <<>> /\ dropped' = dropped \cup Elems(Queued) \cup lost
      /\ UNCHANGED <<heard, sent>>
  BY DEF Restart
<1>2. lost = Carried
  <2>1. \A k \in Turns : ~Alive(k) => Elems(text[k]) = {}
    BY ElemsEmpty DEF MessageInv, TextLive, Alive, Live
  <2> QED BY <2>1 DEF Carried
<1> HIDE DEF lost
<1>3. Carried' = {} /\ TextLive' /\ \A k \in Turns : Distinct(text'[k])
  BY <1>1, ElemsEmpty DEF Carried, TextLive
<1>4. Elems(Queued) = Elems(liveQ) \cup Elems(ctxQ)
  BY QueueIsDistinct
<1> QED BY <1>1, <1>2, <1>3, <1>4, ElemsEmpty DEF MessageInv, AllDistinct, AllApart, AllPlaced

LEMMA MessageNext == ASSUME TypeOK, SlotInv, StoryInv, MessageInv, [Next]_vars PROVE MessageInv'
<1>1. CASE UNCHANGED vars
  BY <1>1, TextStaysPut DEF vars, task, queues, fate
<1>2. CASE \E c \in Conns : UserStep(c) \/ StopReturns(c) \/ StopTimesOut(c)
  BY <1>2, SocketsKeepMessages
<1>3. CASE \E k \in Turns : TurnStep(k) \/ UnwindStep(k) \/ Fail(k)
  BY <1>3, TurnKeepsMessages, UnwindKeepsMessages
<1>4. CASE \/ \E k \in Turns, g \in Gates, what \in Kinds : RequestGate(k, g, what)
           \/ \E g \in Gates : ToolStep(g)
  <2>1. UNCHANGED <<task, queues, fate, sent>>
    BY <1>4 DEF RequestGate, ToolStep, Parks, GateAnswered, ToolEnds
  <2> QED BY <2>1, TextStaysPut DEF task, queues, fate
<1>5. CASE Restart
  BY <1>5, RestartKeepsMessages
<1> QED BY <1>1, <1>2, <1>3, <1>4, <1>5 DEF Next

LEMMA MessageInit == Init => MessageInv
<1> SUFFICES ASSUME Init PROVE MessageInv
  OBVIOUS
<1>1. TextLive /\ AllDistinct
  BY ElemsEmpty DEF Init, TextLive, AllDistinct
<1>2. Carried = {}
  BY ElemsEmpty DEF Init, Carried
<1>3. 1..sent = {}
  BY DEF Init
<1>4. AllApart /\ AllPlaced
  BY <1>2, <1>3, ElemsEmpty DEF Init, AllApart, AllPlaced
<1> QED BY <1>1, <1>4 DEF MessageInv

LEMMA MessagesAddUp == ASSUME TypeOK, MessageInv PROVE MessagesAccounted
<1> DEFINE places == heard \o liveQ \o ctxQ
<1>1. /\ heard \o liveQ \in Seq(Messages) /\ Elems(heard \o liveQ) = Elems(heard) \cup Elems(liveQ)
      /\ Distinct(heard \o liveQ)
  BY ElemsConcat, QueuesAreSeqs DEF MessageInv, AllDistinct, AllApart
<1>2. Elems(heard \o liveQ) \cap Elems(ctxQ) = {}
  BY <1>1 DEF MessageInv, AllApart
<1>3. Elems(places) = Elems(heard) \cup Elems(liveQ) \cup Elems(ctxQ) /\ Distinct(places)
  <2> DEFINE said1 == heard \o liveQ
  <2> HIDE DEF said1
  <2>1. said1 \in Seq(Messages) /\ Distinct(said1) /\ Elems(said1) \cap Elems(ctxQ) = {}
    BY <1>1, <1>2 DEF said1
  <2>2. Elems(said1 \o ctxQ) = Elems(said1) \cup Elems(ctxQ) /\ Distinct(said1 \o ctxQ)
    BY <2>1, ElemsConcat, QueuesAreSeqs DEF MessageInv, AllDistinct
  <2> QED BY <1>1, <2>2 DEF said1
<1> HIDE DEF places
<1>4. 1..sent = Elems(places) \cup dropped \cup Carried
  BY <1>3 DEF MessageInv, AllPlaced
<1>5. Elems(places) \cap dropped = {} /\ Carried \cap (Elems(places) \cup dropped) = {}
  BY <1>3 DEF MessageInv, AllApart
<1>6. \A k \in Turns : Elems(text[k]) \cap (Elems(places) \cup dropped) = {}
  BY <1>5 DEF Carried
<1> QED BY <1>3, <1>4, <1>5, <1>6 DEF MessagesAccounted, places, Distinct, Carried

\* Whatever the tabs, the stops, the failures and the restarts do, a message the user sent
\* is in exactly one place: the model was given it once, or it waits in one queue or one
\* turn's first query, or it was discarded.
THEOREM NoMessageVanishes == Spec => []MessagesAccounted
<1> DEFINE Inv == TypeOK /\ SlotInv /\ StoryInv /\ MessageInv
<1>1. Init => Inv
  BY TypeInit, SlotInit, StoryInit, MessageInit
<1>2. Inv /\ [Next]_vars => Inv'
  BY TypeNext, SlotNext, StoryNext, MessageNext
<1>3. Inv => MessagesAccounted
  BY MessagesAddUp
<1> HIDE DEF Inv
<1> QED BY <1>1, <1>2, <1>3, PTL DEF Spec
-----------------------------------------------------------------------------
(* Stops. *)

\* Turns that unwind after a stop.
Unwinding == {k \in Turns : pc[k] \in {"aborting", "announcing"}}

\* What waited when a stop landed is discarded, or still queued for the turn that unwinds.
HaltedGone ==
  \A m \in halted : m \in dropped \/ (Unwinding # {} /\ m \in Elems(liveQ) \cup Elems(ctxQ))

LEMMA HaltedKept ==
  ASSUME HaltedGone, UNCHANGED halted, dropped \subseteq dropped',
         Elems(liveQ) \cup Elems(ctxQ) \subseteq Elems(liveQ') \cup Elems(ctxQ'),
         \A k \in Turns : k \in Unwinding => pc'[k] \in {"aborting", "announcing"}
  PROVE  HaltedGone'
BY DEF HaltedGone, Unwinding

\* While a turn that was not stopped is alive, nobody unwinds.
LEMMA NobodyUnwinds ==
  ASSUME SlotInv, HaltedGone, NEW k \in Turns, Alive(k), pc[k] \notin {"aborting", "announcing"}
  PROVE  Unwinding = {} /\ halted \subseteq dropped
<1>1. Unwinding = {}
  BY OnlyOneAlive DEF Unwinding, Alive, Live
<1> QED BY <1>1 DEF HaltedGone

LEMMA HaltedDropped ==
  ASSUME halted' \subseteq dropped' PROVE HaltedGone'
BY DEF HaltedGone

LEMMA SocketsKeepHalted ==
  ASSUME TypeOK, SlotInv, HaltedGone, NEW c \in Conns, UserStep(c) \/ StopReturns(c) \/ StopTimesOut(c)
  PROVE  HaltedGone'
<1>1. CASE UserMessage(c)
  <2>1. UNCHANGED <<halted, dropped>>
    BY <1>1 DEF UserMessage, fate
  <2>2. CASE Running
    <3> DEFINE m == sent + 1
    <3>1. m \in Messages /\ UNCHANGED pc
      BY <1>1, <2>2, ChatAssumption DEF UserMessage, TypeOK, Messages
    <3>2. (liveQ' = Append(liveQ, m) /\ UNCHANGED ctxQ) \/ (ctxQ' = Append(ctxQ, m) /\ UNCHANGED liveQ)
      BY <1>1, <2>2 DEF UserMessage
    <3> HIDE DEF m
    <3>3. Elems(Append(liveQ, m)) = Elems(liveQ) \cup {m} /\ Elems(Append(ctxQ, m)) = Elems(ctxQ) \cup {m}
      <4>1. liveQ \in Seq(Messages) /\ ctxQ \in Seq(Messages) /\ m \in Messages
        BY <3>1, QueuesAreSeqs
      <4> QED BY <4>1, ElemsAppend, SMTT(30)
    <3>4. Elems(liveQ) \cup Elems(ctxQ) \subseteq Elems(liveQ') \cup Elems(ctxQ')
      BY <3>2, <3>3
    <3> QED BY <2>1, <3>1, <3>4, HaltedKept DEF Unwinding
  <2>3. CASE ~Running
    <3>1. Unwinding = {}
      BY <2>3, TurnsAreNamed DEF Running, SlotInv, OneTurn, Unwinding, Alive, Live
    <3> QED BY <2>1, <3>1, HaltedDropped DEF HaltedGone
  <2> QED BY <2>2, <2>3
<1>2. CASE \/ Connect(c) \/ Disconnect(c) \/ StopReturns(c) \/ StopTimesOut(c) \/ Stop(c)
           \/ \E g \in Gates, answer \in {"yes", "no"} : Answer(c, g, answer)
           \/ \E enabled \in BOOLEAN : SetAutoApprove(c, enabled)
  <2>1. UNCHANGED <<pc, liveQ, ctxQ, halted, dropped>>
    BY <1>2 DEF Connect, Disconnect, StopReturns, StopTimesOut, Stop, Answer, SetAutoApprove,
                task, queues, fate
  <2> QED BY <2>1, HaltedKept DEF Unwinding
<1> QED BY <1>1, <1>2 DEF UserStep

LEMMA TurnKeepsHalted ==
  ASSUME TypeOK, SlotInv, HaltedGone, NEW k \in Turns, TurnStep(k) \/ Fail(k)
  PROVE  HaltedGone'
<1>1. Alive(k) /\ pc[k] \notin {"aborting", "announcing"}
  BY DEF TurnStep, Begin, Register, Query, Respond, Abandon, CloseEngine, End, Fail, At, Alive, Live
<1>2. halted \subseteq dropped
  BY <1>1, NobodyUnwinds
<1>3. halted' = halted /\ dropped \subseteq dropped'
  BY DEF TurnStep, Begin, Register, Query, Respond, Abandon, CloseEngine, End, Fail, fate
<1> QED BY <1>2, <1>3, HaltedDropped

LEMMA UnwindKeepsHalted ==
  ASSUME TypeOK, SlotInv, MessageInv, HaltedGone, NEW k \in Turns, UnwindStep(k)
  PROVE  HaltedGone'
<1>1. CASE CancelledUnstarted(k)
  <2>1. pc[k] = "created" /\ halted' = halted /\ dropped \subseteq dropped'
    BY <1>1 DEF CancelledUnstarted
  <2>2. halted \subseteq dropped
    BY <2>1, NobodyUnwinds DEF Alive, Live
  <2> QED BY <2>1, <2>2, HaltedDropped
<1>2. CASE CancelledOutside(k) \/ CancelledInside(k) \/ CancelledDisconnecting(k)
  <2>1. /\ pc[k] \in Live /\ halted' = halted \cup Unheard(k) /\ dropped' = dropped \cup Elems(text[k])
        /\ \E to \in {"aborting", "announcing"} : Goto(k, to)
        /\ EngineFinally(k) \/ UNCHANGED <<liveQ, ctxQ>>
    BY <1>2 DEF CancelledOutside, CancelledInside, CancelledDisconnecting, Announcing, queues, Live
  <2>2. k \in Unwinding'
    BY <2>1 DEF Goto, Unwinding, TypeOK, TaskOK
  <2>3. Elems(liveQ') \cup Elems(ctxQ') = Elems(Queued) /\ Elems(Queued) = Elems(liveQ) \cup Elems(ctxQ)
    BY <2>1, FinallyMoves, QueueIsDistinct
  <2> QED BY <2>1, <2>2, <2>3 DEF HaltedGone, Unheard
<1>3. CASE Aborted(k)
  <2>1. Goto(k, "announcing") /\ EngineFinally(k) /\ UNCHANGED <<halted, dropped>>
    BY <1>3 DEF Aborted, Announcing, fate
  <2>2. Elems(liveQ') \cup Elems(ctxQ') = Elems(liveQ) \cup Elems(ctxQ)
    BY <2>1, FinallyMoves
  <2>3. \A j \in Turns : j \in Unwinding => pc'[j] \in {"aborting", "announcing"}
    BY <2>1 DEF Goto, Unwinding, TypeOK, TaskOK
  <2> QED BY <2>1, <2>2, <2>3, HaltedKept
<1>4. CASE EndCancelled(k)
  <2>1. pc[k] = "announcing" /\ halted' = halted /\ dropped' = dropped \cup Elems(ctxQ)
    BY <1>4 DEF EndCancelled
  <2>2. live = NoTurn
    BY <2>1 DEF SlotInv, OneTurn, LiveInEngine, InEngine, Alive, Live
  <2>3. Elems(liveQ) = {}
    BY <2>2, ElemsEmpty DEF TypeOK, QueuesOK
  <2> QED BY <2>1, <2>3, HaltedDropped DEF HaltedGone
<1> QED BY <1>1, <1>2, <1>3, <1>4 DEF UnwindStep

LEMMA HaltedNext == ASSUME TypeOK, SlotInv, MessageInv, HaltedGone, [Next]_vars PROVE HaltedGone'
<1>1. CASE UNCHANGED vars
  BY <1>1, HaltedKept DEF vars, task, queues, fate, Unwinding
<1>2. CASE \E c \in Conns : UserStep(c) \/ StopReturns(c) \/ StopTimesOut(c)
  BY <1>2, SocketsKeepHalted
<1>3. CASE \E k \in Turns : TurnStep(k) \/ UnwindStep(k) \/ Fail(k)
  BY <1>3, TurnKeepsHalted, UnwindKeepsHalted
<1>4. CASE \/ \E k \in Turns, g \in Gates, what \in Kinds : RequestGate(k, g, what)
           \/ \E g \in Gates : ToolStep(g)
  <2>1. UNCHANGED <<task, queues, fate>>
    BY <1>4 DEF RequestGate, ToolStep, Parks, GateAnswered, ToolEnds
  <2> QED BY <2>1, HaltedKept DEF task, queues, fate, Unwinding
<1>5. CASE Restart
  <2>1. halted' = halted /\ dropped \cup Elems(Queued) \subseteq dropped'
    BY <1>5 DEF Restart
  <2> QED BY <2>1, QueueIsDistinct, HaltedDropped DEF HaltedGone
<1> QED BY <1>1, <1>2, <1>3, <1>4, <1>5 DEF Next

\* A stop beats the model: no message that waited when a stop landed is ever given to it,
\* however the turn unwinds and whatever the user types while it does.
THEOREM StopsWin == Spec => []StopWins
<1> DEFINE Inv == TypeOK /\ SlotInv /\ StoryInv /\ MessageInv /\ HaltedGone
<1>1. Init => Inv
  BY TypeInit, SlotInit, StoryInit, MessageInit DEF Init, HaltedGone
<1>2. Inv /\ [Next]_vars => Inv'
  BY TypeNext, SlotNext, StoryNext, MessageNext, HaltedNext
<1>3. Inv => StopWins
  BY DEF HaltedGone, MessageInv, AllApart, StopWins
<1> HIDE DEF Inv
<1> QED BY <1>1, <1>2, <1>3, PTL DEF Spec
-----------------------------------------------------------------------------
(* Nothing a chat's tools do goes without the user's consent, as long as a   *)
(* superseded socket's handler ends before the one that replaced it.         *)

\* Every handler holds the session's current Channel.
AttachedToCurrent == \A c \in Conns : at[c] # NoChannel => at[c] = current

\* A Channel's socket is that of a handler which holds it; a Channel without a
\* socket is held by no handler.
HandlersListen ==
    /\ \A ch \in Channels : ws[ch] # NoConn => at[ws[ch]] = ch
    /\ \A ch \in Channels, c \in Conns : at[c] = ch => ws[ch] # NoConn

\* The live turn talks to the session's current Channel.
TurnsTalkToCurrent ==
    \A k \in Turns : Alive(k) => chan[k] = current /\ chan[k] \in Channels

\* A tool belongs to a turn that has, or had, a Channel.
ToolsHaveChannels ==
    \A g \in Gates : stage[g] \in Waiting \cup {"executing"} =>
        owner[g] \in Turns /\ chan[owner[g]] \in Channels

\* An entry that was answered or restored is in the current Channel.
DecidedInCurrent ==
    \A ch \in Channels, g \in Gates :
        pending[ch][g] \in {"yes", "no", "restored"} => ch = current

\* A future set to "yes" was approved by the user, who did not decline it.
YesIsMeant ==
    \A ch \in Channels, g \in Gates : pending[ch][g] = "yes" => g \in clicked \ refused

OpenNotRefused ==
    \A ch \in Channels, g \in Gates :
        ch = current /\ pending[ch][g] = "open" => g \notin refused

UnaskedUnknown ==
    \A g \in Gates : stage[g] = "unasked" =>
        /\ g \notin refused \cup inflight
        /\ \A ch \in Channels : pending[ch][g] = "none"

LinkInv == AttachedToCurrent /\ HandlersListen /\ TurnsTalkToCurrent
GateInv == DecidedInCurrent /\ YesIsMeant /\ OpenNotRefused /\ UnaskedUnknown
ConsentInv == LinkInv /\ GateInv /\ ToolsHaveChannels

LEMMA ConsentInit == Init => ConsentInv
<1> SUFFICES ASSUME Init PROVE ConsentInv
  OBVIOUS
<1>1. /\ \A c \in Conns : at[c] = NoChannel
      /\ \A ch \in Channels : ws[ch] = NoConn
      /\ \A k \in Turns : pc[k] = "none"
      /\ \A g \in Gates : stage[g] = "unasked"
      /\ \A ch \in Channels, g \in Gates : pending[ch][g] = "none"
      /\ inflight = {} /\ refused = {}
  BY DEF Init, NoEntries
<1>2. LinkInv
  BY <1>1, ChatAssumption
     DEF LinkInv, AttachedToCurrent, HandlersListen, TurnsTalkToCurrent, Alive, Live
<1>3. GateInv
  BY <1>1 DEF GateInv, DecidedInCurrent, YesIsMeant, OpenNotRefused, UnaskedUnknown
<1>4. ToolsHaveChannels
  BY <1>1 DEF ToolsHaveChannels, Waiting
<1> QED BY <1>2, <1>3, <1>4 DEF ConsentInv

----------------------------------------------------------------------------
\* What a step that leaves some variables alone preserves.

LEMMA LinksKept ==
  ASSUME LinkInv, UNCHANGED <<at, current, ws, chan>>,
         \A j \in Turns : pc'[j] \in Live => Alive(j)
  PROVE  LinkInv'
  BY DEF LinkInv, AttachedToCurrent, HandlersListen, TurnsTalkToCurrent, Alive

LEMMA GatesKept ==
  ASSUME GateInv, UNCHANGED <<current, pending, inflight, stage, clicked, refused>>
  PROVE  GateInv'
  BY DEF GateInv, DecidedInCurrent, YesIsMeant, OpenNotRefused, UnaskedUnknown

LEMMA ToolsKept ==
  ASSUME ToolsHaveChannels, UNCHANGED <<stage, owner, chan>>
  PROVE  ToolsHaveChannels'
  BY DEF ToolsHaveChannels

LEMMA AliveAfterGoto ==
  ASSUME TypeOK, NEW k \in Turns, NEW to, Goto(k, to), Alive(k)
  PROVE  \A j \in Turns : pc'[j] \in Live => Alive(j)
  BY DEF TypeOK, TaskOK, Goto, Alive

----------------------------------------------------------------------------
\* Sockets

LEMMA ConnectConsent ==
  ASSUME TypeOK, ConsentInv, NEW c \in Conns, Connect(c)
  PROVE  ConsentInv'
<1>1. PICK ch \in Channels :
        /\ \/ current # NoChannel /\ ch = current /\ UNCHANGED <<current, pending>>
           \/ /\ current = NoChannel /\ Unheld(ch) /\ current' = ch
              /\ pending' = [pending EXCEPT ![ch] = [g \in Gates |-> Restored(g)]]
        /\ at' = [at EXCEPT ![c] = ch]
        /\ ws' = [ws EXCEPT ![ch] = c]
  BY DEF Connect
<1>2. at[c] = NoChannel /\ UNCHANGED <<pc, chan, stage, owner, inflight, clicked, refused>>
  BY DEF Connect, task, gates, choices, stored
<1>3. ch # NoChannel /\ c # NoConn /\ NoConn \notin Conns
  BY ChatAssumption
<1>4. at' \in [Conns -> Channels \cup {NoChannel}] /\ at'[c] = ch
      /\ (\A d \in Conns \ {c} : at'[d] = at[d])
  BY <1>1 DEF TypeOK, SocketsOK
<1>5. ws'[ch] = c /\ (\A h \in Channels \ {ch} : ws'[h] = ws[h])
  BY <1>1 DEF TypeOK, LinksOK
<1>6. LinkInv'
  <2>1. AttachedToCurrent'
    BY <1>1, <1>4 DEF ConsentInv, LinkInv, AttachedToCurrent
  <2>2. HandlersListen'
    <3>1. ASSUME NEW h \in Channels, ws'[h] # NoConn PROVE at'[ws'[h]] = h
      <4>1. CASE h = ch
        BY <4>1, <1>4, <1>5
      <4>2. CASE h # ch
        <5>1. ws[h] \in Conns /\ at[ws[h]] = h
          BY <4>2, <1>5, <3>1 DEF ConsentInv, LinkInv, HandlersListen, TypeOK, LinksOK
        <5>2. ws[h] # c
          BY <5>1, <1>2, ChatAssumption
        <5> QED BY <4>2, <5>1, <5>2, <1>4, <1>5
      <4> QED BY <4>1, <4>2
    <3>2. ASSUME NEW h \in Channels, NEW d \in Conns, at'[d] = h PROVE ws'[h] # NoConn
      <4>1. CASE h = ch
        BY <4>1, <1>3, <1>5
      <4>2. CASE h # ch
        BY <4>2, <3>2, <1>4, <1>5 DEF ConsentInv, LinkInv, HandlersListen
      <4> QED BY <4>1, <4>2
    <3> QED BY <3>1, <3>2 DEF HandlersListen
  <2>3. TurnsTalkToCurrent'
    BY <1>1, <1>2, ChatAssumption DEF ConsentInv, LinkInv, TurnsTalkToCurrent, Alive
  <2> QED BY <2>1, <2>2, <2>3 DEF LinkInv
<1>7. GateInv'
  <2>1. CASE UNCHANGED <<current, pending>>
    BY <2>1, <1>2, GatesKept DEF ConsentInv
  <2>2. CASE /\ current = NoChannel /\ current' = ch
             /\ pending' = [pending EXCEPT ![ch] = [g \in Gates |-> Restored(g)]]
    <3>1. /\ \A g \in Gates : pending'[ch][g] = Restored(g)
          /\ \A h \in Channels \ {ch} : pending'[h] = pending[h]
      BY <2>2 DEF TypeOK, LinksOK
    <3>2. \A h \in Channels, g \in Gates : pending[h][g] \notin {"yes", "no", "restored"}
      BY <2>2, ChatAssumption DEF ConsentInv, GateInv, DecidedInCurrent
    <3>3. \A g \in Gates : Restored(g) \in {"none", "restored"}
      BY DEF Restored
    <3>4. DecidedInCurrent' /\ YesIsMeant' /\ OpenNotRefused'
      BY <2>2, <3>1, <3>2, <3>3 DEF DecidedInCurrent, YesIsMeant, OpenNotRefused
    <3>5. UnaskedUnknown'
      BY <3>1, <1>2 DEF ConsentInv, GateInv, UnaskedUnknown, Restored
    <3> QED BY <3>4, <3>5 DEF GateInv
  <2> QED BY <1>1, <2>1, <2>2
<1>8. ToolsHaveChannels'
  BY <1>2, ToolsKept DEF ConsentInv
<1> QED BY <1>6, <1>7, <1>8 DEF ConsentInv

LEMMA DisconnectConsent ==
  ASSUME TypeOK, SlotInv, ConsentInv, "late_close" \notin Hazards,
         NEW c \in Conns, Disconnect(c)
  PROVE  ConsentInv'
<1> DEFINE ch == at[c]
<1>1. /\ ch \in Channels /\ ch = current /\ ch # NoChannel
      /\ ws[ch] # c \/ {d \in Conns : at[d] = ch} = {c}
  BY DEF Disconnect, TypeOK, SocketsOK, ConsentInv, LinkInv, AttachedToCurrent
<1>2. /\ at' = [at EXCEPT ![c] = NoChannel]
      /\ ws' = [ws EXCEPT ![ch] = IF @ = c THEN NoConn ELSE @]
      /\ current' = IF ws'[ch] = NoConn /\ ~HasPending(pending, ch) /\ ~Running
                    THEN NoChannel ELSE current
  BY DEF Disconnect
<1>3. UNCHANGED <<pending, pc, chan, stage, owner, inflight, clicked, refused>>
  BY DEF Disconnect, task, gates, choices, stored
<1>4. at'[c] = NoChannel /\ (\A d \in Conns \ {c} : at'[d] = at[d])
  BY <1>2 DEF TypeOK, SocketsOK
<1>5. /\ ws[ch] = c => ws'[ch] = NoConn
      /\ ws[ch] # c => ws'[ch] = ws[ch]
      /\ \A h \in Channels \ {ch} : ws'[h] = ws[h]
  BY <1>1, <1>2 DEF TypeOK, LinksOK
<1>6. HandlersListen'
  <2>1. ASSUME NEW h \in Channels, ws'[h] # NoConn PROVE at'[ws'[h]] = h
    <3>1. ws'[h] = ws[h] /\ ws[h] # NoConn /\ ws[h] \in Conns /\ at[ws[h]] = h
      BY <2>1, <1>5 DEF ConsentInv, LinkInv, HandlersListen, TypeOK, LinksOK
    <3>2. ws[h] # c
      BY <2>1, <3>1, <1>5
    <3> QED BY <3>1, <3>2, <1>4
  <2>2. ASSUME NEW h \in Channels, NEW d \in Conns, at'[d] = h PROVE ws'[h] # NoConn
    <3>1. d # c /\ at[d] = h /\ ws[h] # NoConn
      BY <2>2, <1>4, ChatAssumption DEF ConsentInv, LinkInv, HandlersListen
    <3>2. h = ch => ws[ch] # c
      BY <3>1, <1>1
    <3> QED BY <3>1, <3>2, <1>5
  <2> QED BY <2>1, <2>2 DEF HandlersListen
<1>7. CASE UNCHANGED current
  <2>1. AttachedToCurrent' /\ TurnsTalkToCurrent'
    BY <1>7, <1>3, <1>4 DEF ConsentInv, LinkInv, AttachedToCurrent, TurnsTalkToCurrent, Alive
  <2>2. GateInv' /\ ToolsHaveChannels'
    BY <1>7, <1>3, GatesKept, ToolsKept DEF ConsentInv
  <2> QED BY <1>6, <2>1, <2>2 DEF ConsentInv, LinkInv
<1>8. CASE current' = NoChannel /\ ws'[ch] = NoConn /\ ~HasPending(pending, ch) /\ ~Running
  <2>1. \A d \in Conns : at'[d] = NoChannel
    <3>1. \A d \in Conns : at'[d] # ch
      BY <1>8, <1>6, <1>1 DEF HandlersListen
    <3> QED BY <3>1, <1>1, <1>4 DEF ConsentInv, LinkInv, AttachedToCurrent
  <2>2. \A k \in Turns : ~Alive(k)
    BY <1>8, TurnsAreNamed DEF Running, SlotInv, OneTurn
  <2>3. LinkInv'
    BY <1>6, <2>1, <2>2, <1>3 DEF LinkInv, AttachedToCurrent, TurnsTalkToCurrent, Alive
  <2>4. \A h \in Channels, g \in Gates : pending[h][g] \notin {"yes", "no", "restored"}
    BY <1>1, <1>8 DEF HasPending, ConsentInv, GateInv, DecidedInCurrent
  <2>5. GateInv'
    <3>1. DecidedInCurrent' /\ YesIsMeant' /\ OpenNotRefused'
      BY <2>4, <1>3, <1>8, ChatAssumption DEF DecidedInCurrent, YesIsMeant, OpenNotRefused
    <3>2. UnaskedUnknown'
      BY <1>3 DEF ConsentInv, GateInv, UnaskedUnknown
    <3> QED BY <3>1, <3>2 DEF GateInv
  <2>6. ToolsHaveChannels'
    BY <1>3, ToolsKept DEF ConsentInv
  <2> QED BY <2>3, <2>5, <2>6 DEF ConsentInv
<1> QED BY <1>2, <1>7, <1>8

\* Channel.resolve on the current Channel, as the user's "no" or "yes".
LEMMA ResolveConsent ==
  ASSUME TypeOK, ConsentInv, NEW ch \in Channels, ch = current,
         NEW gs \in SUBSET Gates, NEW answer, Resolve(ch, gs, answer),
         UNCHANGED <<current, stage>>,
         \/ /\ answer = "no" /\ UNCHANGED clicked
            /\ refused' = refused \cup {g \in gs : pending[ch][g] \in {"open", "restored"}}
         \/ answer = "yes" /\ UNCHANGED refused /\ clicked' = clicked \cup gs
  PROVE  GateInv'
<1>1. \A h \in Channels, g \in Gates :
        pending'[h][g] = IF h # ch THEN pending[h][g]
                         ELSE IF g \in gs /\ pending[ch][g] = "restored" THEN "none"
                         ELSE IF g \in gs /\ pending[ch][g] = "open" THEN answer
                         ELSE pending[ch][g]
  BY DEF Resolve, TypeOK, LinksOK
<1>2. inflight' \subseteq inflight
  BY DEF Resolve
<1>3. DecidedInCurrent'
  BY <1>1 DEF ConsentInv, GateInv, DecidedInCurrent
<1>4. YesIsMeant'
  <2> SUFFICES ASSUME NEW h \in Channels, NEW g \in Gates, pending'[h][g] = "yes"
               PROVE  g \in clicked' \ refused'
    BY DEF YesIsMeant
  <2>1. CASE pending[h][g] = "yes"
    <3>1. h = ch /\ g \in clicked \ refused
      BY <2>1 DEF ConsentInv, GateInv, DecidedInCurrent, YesIsMeant
    <3> QED BY <2>1, <3>1
  <2>2. CASE pending[h][g] # "yes"
    <3>1. h = ch /\ g \in gs /\ pending[ch][g] = "open" /\ answer = "yes"
      BY <2>2, <1>1
    <3>2. g \notin refused
      BY <3>1 DEF ConsentInv, GateInv, OpenNotRefused
    <3> QED BY <3>1, <3>2
  <2> QED BY <2>1, <2>2
<1>5. OpenNotRefused'
  <2> SUFFICES ASSUME NEW g \in Gates, pending'[ch][g] = "open" PROVE g \notin refused'
    BY DEF OpenNotRefused
  <2>1. pending[ch][g] = "open" /\ g \notin gs
    BY <1>1
  <2> QED BY <2>1 DEF ConsentInv, GateInv, OpenNotRefused
<1>6. UnaskedUnknown'
  BY <1>1, <1>2 DEF ConsentInv, GateInv, UnaskedUnknown
<1> QED BY <1>3, <1>4, <1>5, <1>6 DEF GateInv

\* A turn is created on the session's Channel.
LEMMA LaunchConsent ==
  ASSUME TypeOK, ConsentInv, NEW ended, NEW ch \in Channels, ch = current, NEW msgs,
         Launch(ended, ch, msgs), \A j \in Turns : Alive(j) => j = ended,
         UNCHANGED <<at, current, ws, stage, owner>>
  PROVE  LinkInv' /\ ToolsHaveChannels'
<1>1. /\ chan'[NextTurn] = ch
      /\ \A j \in Turns \ {NextTurn} : chan'[j] = chan[j] /\ pc'[j] \notin Live
  <2>1. \A j \in Turns \ {NextTurn} : pc'[j] = IF j = ended THEN "done" ELSE pc[j]
    BY DEF Launch
  <2>2. NextTurn \in Turns /\ chan' = [chan EXCEPT ![NextTurn] = ch]
    BY DEF Launch
  <2> QED BY <2>1, <2>2 DEF TypeOK, TaskOK, Alive, Live
<1>2. LinkInv'
  BY <1>1 DEF ConsentInv, LinkInv, AttachedToCurrent, HandlersListen, TurnsTalkToCurrent, Alive
<1>3. ToolsHaveChannels'
  BY <1>1 DEF ConsentInv, ToolsHaveChannels
<1> QED BY <1>2, <1>3

LEMMA UserMessageConsent ==
  ASSUME TypeOK, SlotInv, ConsentInv, NEW c \in Conns, UserMessage(c)
  PROVE  ConsentInv'
<1>1. at[c] \in Channels /\ at[c] = current
  BY DEF UserMessage, Reads, TypeOK, SocketsOK, ConsentInv, LinkInv, AttachedToCurrent
<1>2. /\ Resolve(at[c], Gates, "no")
      /\ refused' = refused \cup {g \in Gates : pending[at[c]][g] \in {"open", "restored"}}
      /\ UNCHANGED <<at, current, ws, stage, owner, clicked>>
  BY DEF UserMessage, sockets, gates
<1>3. GateInv'
  BY <1>1, <1>2, ResolveConsent
<1>4. CASE Running
  <2>1. UNCHANGED <<pc, chan>>
    BY <1>4 DEF UserMessage
  <2> QED BY <1>2, <1>3, <2>1, LinksKept, ToolsKept DEF ConsentInv, Alive
<1>5. CASE ~Running
  <2>1. \A j \in Turns : ~Alive(j)
    BY <1>5, TurnsAreNamed DEF Running, SlotInv, OneTurn
  <2>2. Launch(NoTurn, at[c], <<sent + 1>>)
    BY <1>5 DEF UserMessage
  <2> QED BY <1>1, <1>2, <1>3, <2>1, <2>2, LaunchConsent DEF ConsentInv
<1> QED BY <1>4, <1>5

LEMMA AnswerConsent ==
  ASSUME TypeOK, ConsentInv, NEW c \in Conns, NEW g \in Gates,
         NEW answer \in {"yes", "no"}, Answer(c, g, answer)
  PROVE  ConsentInv'
<1>1. at[c] \in Channels /\ at[c] = current
  BY DEF Answer, Reads, TypeOK, SocketsOK, ConsentInv, LinkInv, AttachedToCurrent
<1>2. /\ Resolve(at[c], {g}, answer)
      /\ UNCHANGED <<at, current, ws, stage, owner, pc, chan>>
  BY DEF Answer, gates, task
<1>3. \/ /\ answer = "no" /\ UNCHANGED clicked
         /\ refused' = refused \cup {h \in {g} : pending[at[c]][h] \in {"open", "restored"}}
      \/ answer = "yes" /\ UNCHANGED refused /\ clicked' = clicked \cup {g}
  BY DEF Answer
<1>4. GateInv'
  BY <1>1, <1>2, <1>3, ResolveConsent
<1> QED BY <1>2, <1>4, LinksKept, ToolsKept DEF ConsentInv, Alive

LEMMA SocketsConsent ==
  ASSUME TypeOK, SlotInv, ConsentInv, "late_close" \notin Hazards,
         NEW c \in Conns, UserStep(c) \/ StopReturns(c) \/ StopTimesOut(c)
  PROVE  ConsentInv'
<1>1. CASE \/ Stop(c) \/ StopReturns(c) \/ StopTimesOut(c)
           \/ \E enabled \in BOOLEAN : SetAutoApprove(c, enabled)
  <2>1. UNCHANGED <<at, links, inflight, pc, chan, gates, choices>>
    BY <1>1 DEF Stop, StopReturns, StopTimesOut, SetAutoApprove, sockets, stored, task
  <2> QED BY <2>1, LinksKept, GatesKept, ToolsKept
          DEF ConsentInv, Alive, links, gates, choices
<1> QED BY <1>1, ConnectConsent, DisconnectConsent, UserMessageConsent, AnswerConsent
        DEF UserStep

----------------------------------------------------------------------------
\* The turn

\* disconnect() only takes entries away and ends tools.
LEMMA WithdrawConsent ==
  ASSUME TypeOK, ConsentInv, NEW k \in Turns, Withdraw(k), UNCHANGED <<clicked, refused, chan>>
  PROVE  GateInv' /\ ToolsHaveChannels'
<1>1. /\ \A ch \in Channels, g \in Gates : pending'[ch][g] \in {pending[ch][g], "none"}
      /\ inflight' \subseteq inflight /\ UNCHANGED <<current, owner>>
  BY DEF Withdraw
<1>2. \A g \in Gates : stage'[g] = stage[g] \/ stage'[g] \in {"cut", "over"}
  BY DEF Withdraw, Closed
<1>3. GateInv'
  BY <1>1, <1>2 DEF ConsentInv, GateInv, DecidedInCurrent, YesIsMeant, OpenNotRefused,
                    UnaskedUnknown
<1>4. ToolsHaveChannels'
  BY <1>1, <1>2 DEF ConsentInv, ToolsHaveChannels, Waiting
<1> QED BY <1>3, <1>4

\* The last of a turn forgets the session's Channel if nobody needs it.
LEMMA ReleaseConsent ==
  ASSUME TypeOK, SlotInv, ConsentInv, NEW k \in Turns, Alive(k), Goto(k, "done"),
         EvictUnused(chan[k]),
         UNCHANGED <<at, ws, chan, pending, inflight, stage, owner, clicked, refused>>
  PROVE  ConsentInv'
<1>1. chan[k] = current /\ chan[k] \in Channels
  BY DEF ConsentInv, LinkInv, TurnsTalkToCurrent
<1>2. \A j \in Turns : pc'[j] \notin Live
  BY OnlyOneAlive DEF TypeOK, TaskOK, Goto, Alive, Live
<1>3. ToolsHaveChannels'
  BY ToolsKept DEF ConsentInv
<1>4. CASE UNCHANGED current
  BY <1>2, <1>3, <1>4, LinksKept, GatesKept DEF ConsentInv
<1>5. CASE current' = NoChannel /\ ws[chan[k]] = NoConn /\ ~HasPending(pending, chan[k])
  <2>1. \A c \in Conns : at[c] = NoChannel
    BY <1>1, <1>5 DEF ConsentInv, LinkInv, AttachedToCurrent, HandlersListen
  <2>2. LinkInv'
    BY <1>2, <2>1 DEF ConsentInv, LinkInv, AttachedToCurrent, HandlersListen,
                      TurnsTalkToCurrent, Alive
  <2>3. \A h \in Channels, g \in Gates : pending[h][g] \notin {"yes", "no", "restored"}
    BY <1>1, <1>5 DEF HasPending, ConsentInv, GateInv, DecidedInCurrent
  <2>4. DecidedInCurrent' /\ YesIsMeant' /\ OpenNotRefused'
    BY <2>3, <1>5, ChatAssumption DEF DecidedInCurrent, YesIsMeant, OpenNotRefused
  <2>5. UnaskedUnknown'
    BY DEF ConsentInv, GateInv, UnaskedUnknown
  <2> QED BY <1>3, <2>2, <2>4, <2>5 DEF ConsentInv, GateInv
<1> QED BY <1>4, <1>5 DEF EvictUnused

LEMMA TurnConsent ==
  ASSUME TypeOK, SlotInv, ConsentInv, NEW k \in Turns, TurnStep(k) \/ Fail(k)
  PROVE  ConsentInv'
<1>1. Alive(k)
  BY DEF TurnStep, Begin, Register, Query, Respond, Abandon, Fail, CloseEngine, End, At,
         Alive, Live
<1>2. CASE Begin(k) \/ Register(k) \/ Query(k) \/ Respond(k) \/ Abandon(k) \/ Fail(k)
  <2>1. UNCHANGED <<at, links, inflight, chan, gates, choices>>
    BY <1>2 DEF Begin, Register, Query, Respond, Abandon, Fail, sockets, stored
  <2>2. UNCHANGED pc \/ \E to \in Live : Goto(k, to)
    BY <1>2 DEF Begin, Register, Query, Respond, Abandon, Fail, Live
  <2>3. \A j \in Turns : pc'[j] \in Live => Alive(j)
    BY <1>1, <2>2, AliveAfterGoto DEF Alive
  <2> QED BY <2>1, <2>3, LinksKept, GatesKept, ToolsKept
          DEF ConsentInv, links, gates, choices
<1>3. CASE CloseEngine(k)
  <2>1. /\ Goto(k, "closing") /\ Withdraw(k)
        /\ UNCHANGED <<at, current, ws, chan, clicked, refused>>
    BY <1>3 DEF CloseEngine, Withdraw, sockets, choices
  <2>2. \A j \in Turns : pc'[j] \in Live => Alive(j)
    BY <1>1, <2>1, AliveAfterGoto
  <2> QED BY <2>1, <2>2, LinksKept, WithdrawConsent DEF ConsentInv
<1>4. CASE End(k)
  <2>1. UNCHANGED <<at, ws, pending, inflight, stage, owner, clicked, refused>>
    BY <1>4 DEF End, sockets, stored, gates, choices
  <2>2. CASE Launch(k, chan[k], ctxQ) /\ UNCHANGED current
    <3>1. chan[k] \in Channels /\ chan[k] = current
      BY <1>1 DEF ConsentInv, LinkInv, TurnsTalkToCurrent
    <3>2. \A j \in Turns : Alive(j) => j = k
      BY <1>1, OnlyOneAlive
    <3>3. LinkInv' /\ ToolsHaveChannels'
      BY <2>1, <2>2, <3>1, <3>2, LaunchConsent
    <3> QED BY <2>1, <2>2, <3>3, GatesKept DEF ConsentInv
  <2>3. CASE Goto(k, "done") /\ EvictUnused(chan[k]) /\ UNCHANGED chan
    BY <1>1, <2>1, <2>3, ReleaseConsent
  <2> QED BY <1>4, <2>2, <2>3 DEF End
<1> QED BY <1>2, <1>3, <1>4 DEF TurnStep

LEMMA UnwindConsent ==
  ASSUME TypeOK, SlotInv, ConsentInv, NEW k \in Turns, UnwindStep(k)
  PROVE  ConsentInv'
<1>1. Alive(k)
  BY DEF UnwindStep, CancelledUnstarted, CancelledOutside, CancelledInside,
         CancelledDisconnecting, Aborted, EndCancelled, At, Alive, Live
<1>2. CASE CancelledUnstarted(k) \/ CancelledOutside(k) \/ CancelledInside(k)
  <2>1. UNCHANGED <<at, links, inflight, chan, gates, choices>>
    BY <1>2 DEF CancelledUnstarted, CancelledOutside, CancelledInside, sockets, stored
  <2>2. Goto(k, "done") \/ Goto(k, "announcing") \/ Goto(k, "aborting")
    BY <1>2 DEF CancelledUnstarted, CancelledOutside, CancelledInside, Announcing
  <2>3. \A j \in Turns : pc'[j] \in Live => Alive(j)
    BY <1>1, <2>2, AliveAfterGoto
  <2> QED BY <2>1, <2>3, LinksKept, GatesKept, ToolsKept
          DEF ConsentInv, links, gates, choices
<1>3. CASE CancelledDisconnecting(k) \/ Aborted(k)
  <2>1. /\ Goto(k, "announcing")
        /\ Withdraw(k) \/ UNCHANGED <<links, stored, gates>>
        /\ UNCHANGED <<at, current, ws, chan, clicked, refused>>
    BY <1>3 DEF CancelledDisconnecting, Aborted, Announcing, Withdraw, sockets, choices, links
  <2>2. \A j \in Turns : pc'[j] \in Live => Alive(j)
    BY <1>1, <2>1, AliveAfterGoto
  <2>3. GateInv' /\ ToolsHaveChannels'
    <3>1. CASE Withdraw(k)
      BY <2>1, <3>1, WithdrawConsent
    <3>2. CASE UNCHANGED <<links, stored, gates>>
      BY <2>1, <3>2, GatesKept, ToolsKept DEF ConsentInv, links, stored, gates
    <3> QED BY <2>1, <3>1, <3>2
  <2> QED BY <2>1, <2>2, <2>3, LinksKept DEF ConsentInv
<1>4. CASE EndCancelled(k)
  <2>1. /\ Goto(k, "done") /\ EvictUnused(chan[k])
        /\ UNCHANGED <<at, ws, chan, pending, inflight, stage, owner, clicked, refused>>
    BY <1>4 DEF EndCancelled, sockets, stored, gates, choices
  <2> QED BY <1>1, <2>1, ReleaseConsent
<1> QED BY <1>2, <1>3, <1>4 DEF UnwindStep

----------------------------------------------------------------------------
\* Tools and restarts

LEMMA RequestConsent ==
  ASSUME TypeOK, ConsentInv, NEW k \in Turns, NEW g \in Gates, NEW what \in Kinds,
         RequestGate(k, g, what)
  PROVE  ConsentInv'
<1>1. /\ stage[g] = "unasked" /\ UNCHANGED <<at, current, ws, pc, chan, clicked, refused>>
      /\ owner' = [owner EXCEPT ![g] = k]
      /\ pc[k] = "thinking" \/ Tools(k) # {}
  BY DEF RequestGate, task, choices
<1>2. /\ \A ch \in Channels, h \in Gates :
           pending'[ch][h] = pending[ch][h] \/ (h = g /\ pending'[ch][h] = "open")
      /\ inflight' \subseteq inflight \cup {g}
  BY DEF RequestGate, TypeOK, LinksOK
<1>3. /\ stage'[g] # "unasked"
      /\ \A h \in Gates \ {g} : stage'[h] = stage[h]
  BY DEF RequestGate, TypeOK, GatesOK
<1>4. g \notin refused /\ \A ch \in Channels : pending[ch][g] = "none"
  BY <1>1 DEF ConsentInv, GateInv, UnaskedUnknown
<1>5. LinkInv'
  BY <1>1, LinksKept DEF ConsentInv, Alive
<1>6. DecidedInCurrent' /\ YesIsMeant' /\ OpenNotRefused'
  BY <1>1, <1>2, <1>4 DEF ConsentInv, GateInv, DecidedInCurrent, YesIsMeant, OpenNotRefused
<1>7. UnaskedUnknown'
  BY <1>1, <1>2, <1>3 DEF ConsentInv, GateInv, UnaskedUnknown
<1>8. ToolsHaveChannels'
  <2>1. chan[k] \in Channels
    <3>1. CASE pc[k] = "thinking"
      BY <3>1 DEF ConsentInv, LinkInv, TurnsTalkToCurrent, Alive, Live
    <3>2. CASE Tools(k) # {}
      BY <3>2 DEF Tools, ConsentInv, ToolsHaveChannels
    <3> QED BY <1>1, <3>1, <3>2
  <2>2. owner'[g] = k /\ \A h \in Gates \ {g} : owner'[h] = owner[h]
    BY <1>1 DEF TypeOK, GatesOK
  <2> QED BY <1>1, <1>3, <2>1, <2>2 DEF ConsentInv, ToolsHaveChannels
<1> QED BY <1>5, <1>6, <1>7, <1>8 DEF ConsentInv, GateInv

LEMMA ToolConsent ==
  ASSUME TypeOK, ConsentInv, NEW g \in Gates, ToolStep(g)
  PROVE  ConsentInv'
<1>1. UNCHANGED <<at, current, ws, pc, chan, owner, clicked, refused>>
  BY DEF ToolStep, Parks, GateAnswered, ToolEnds, sockets, links, task, choices
<1>2. /\ \A ch \in Channels, h \in Gates : pending'[ch][h] \in {pending[ch][h], "none"}
      /\ inflight' \subseteq inflight
  <2>1. CASE Parks(g) \/ ToolEnds(g)
    BY <2>1 DEF Parks, ToolEnds, links, stored
  <2>2. CASE GateAnswered(g)
    BY <2>2 DEF GateAnswered, TypeOK, LinksOK
  <2> QED BY <2>1, <2>2 DEF ToolStep
<1>3. /\ stage[g] \in Waiting \cup {"executing"} /\ stage'[g] # "unasked"
      /\ \A h \in Gates \ {g} : stage'[h] = stage[h]
  BY DEF ToolStep, Parks, GateAnswered, ToolEnds, Waiting, TypeOK, GatesOK
<1>4. LinkInv'
  BY <1>1, LinksKept DEF ConsentInv, Alive
<1>5. GateInv'
  BY <1>1, <1>2, <1>3 DEF ConsentInv, GateInv, DecidedInCurrent, YesIsMeant,
                          OpenNotRefused, UnaskedUnknown
<1>6. ToolsHaveChannels'
  BY <1>1, <1>3 DEF ConsentInv, ToolsHaveChannels
<1> QED BY <1>4, <1>5, <1>6 DEF ConsentInv

LEMMA RestartConsent ==
  ASSUME TypeOK, ConsentInv, Restart
  PROVE  ConsentInv'
<1>1. /\ \A c \in Conns : at'[c] = NoChannel
      /\ \A ch \in Channels : ws'[ch] = NoConn
      /\ \A ch \in Channels, g \in Gates : pending'[ch][g] = "none"
      /\ \A k \in Turns : pc'[k] \notin Live
  BY DEF Restart, NoEntries, Alive, Live
<1>2. /\ \A g \in Gates : stage'[g] \notin Waiting \cup {"executing"}
      /\ \A g \in Gates : stage'[g] = "unasked" => stage[g] = "unasked"
      /\ UNCHANGED <<inflight, refused>>
  BY DEF Restart, Waiting, stored, choices
<1>3. LinkInv'
  BY <1>1, ChatAssumption
     DEF LinkInv, AttachedToCurrent, HandlersListen, TurnsTalkToCurrent, Alive
<1>4. GateInv'
  BY <1>1, <1>2 DEF ConsentInv, GateInv, DecidedInCurrent, YesIsMeant, OpenNotRefused,
                    UnaskedUnknown
<1>5. ToolsHaveChannels'
  BY <1>2 DEF ToolsHaveChannels
<1> QED BY <1>3, <1>4, <1>5 DEF ConsentInv

----------------------------------------------------------------------------

LEMMA ConsentNext ==
  ASSUME TypeOK, SlotInv, ConsentInv, "late_close" \notin Hazards, [Next]_vars
  PROVE  ConsentInv'
<1>1. CASE UNCHANGED vars
  <2>1. UNCHANGED <<at, links, inflight, pc, chan, gates, choices>>
    BY <1>1 DEF vars, sockets, stored, task
  <2> QED BY <2>1, LinksKept, GatesKept, ToolsKept
          DEF ConsentInv, Alive, links, gates, choices
<1>2. CASE \E c \in Conns : UserStep(c) \/ StopReturns(c) \/ StopTimesOut(c)
  BY <1>2, SocketsConsent
<1>3. CASE \E k \in Turns : TurnStep(k) \/ UnwindStep(k) \/ Fail(k)
  BY <1>3, TurnConsent, UnwindConsent
<1>4. CASE \E k \in Turns, g \in Gates, what \in Kinds : RequestGate(k, g, what)
  BY <1>4, RequestConsent
<1>5. CASE \E g \in Gates : ToolStep(g)
  BY <1>5, ToolConsent
<1>6. CASE Restart
  BY <1>6, RestartConsent
<1> QED BY <1>1, <1>2, <1>3, <1>4, <1>5, <1>6 DEF Next

\* The step form of ConsentedOnly.
LEMMA RunsWithConsent ==
  ASSUME TypeOK, ConsentInv, [Next]_vars, NEW g \in ran' \ ran
  PROVE  \/ g \in clicked \ refused
         \/ kind'[g] = "command" /\ auto
<1>1. g \in Gates
  BY TypeNext DEF TypeOK, GatesOK
<1>2. CASE \E k \in Turns, h \in Gates, what \in Kinds : RequestGate(k, h, what)
  <2>1. PICK k \in Turns, h \in Gates, what \in Kinds : RequestGate(k, h, what)
    BY <1>2
  <2>2. h = g /\ AutoApproved(what) /\ kind' = [kind EXCEPT ![h] = what]
    BY <2>1 DEF RequestGate
  <2> QED BY <1>1, <2>2 DEF AutoApproved, TypeOK, GatesOK
<1>3. CASE \E h \in Gates : GateAnswered(h)
  <2>1. PICK h \in Gates : GateAnswered(h)
    BY <1>3
  <2>2. h = g /\ stage[g] = "parked" /\ pending[chan[owner[g]]][g] = "yes"
    BY <2>1 DEF GateAnswered
  <2>3. chan[owner[g]] \in Channels
    BY <1>1, <2>2 DEF ConsentInv, ToolsHaveChannels, Waiting
  <2> QED BY <1>1, <2>2, <2>3 DEF ConsentInv, GateInv, YesIsMeant
<1>4. CASE UNCHANGED ran
  BY <1>4
<1>5. ASSUME NEW k \in Turns, TurnStep(k) \/ UnwindStep(k) \/ Fail(k) PROVE UNCHANGED ran
  BY <1>5 DEF TurnStep, Begin, Register, Query, Respond, Abandon, CloseEngine, End, Fail,
              UnwindStep, CancelledUnstarted, CancelledOutside, CancelledInside,
              CancelledDisconnecting, Aborted, EndCancelled, Withdraw, gates
<1>6. ASSUME NEW c \in Conns, UserStep(c) \/ StopReturns(c) \/ StopTimesOut(c)
      PROVE  UNCHANGED ran
  BY <1>6 DEF UserStep, Connect, Disconnect, UserMessage, Answer, SetAutoApprove, Stop,
              StopReturns, StopTimesOut, gates
<1>7. CASE Restart \/ UNCHANGED vars \/ \E h \in Gates : Parks(h) \/ ToolEnds(h)
  BY <1>7 DEF Restart, vars, gates, Parks, ToolEnds
<1> QED BY <1>2, <1>3, <1>4, <1>5, <1>6, <1>7 DEF Next, ToolStep

\* Nothing runs without consent: an action runs only if the user approved that
\* very gate and had not declined it, or if it is a command of a chat that
\* auto-approves at that moment.  For any number of tabs, Channels, messages and
\* gates, with superseded tabs that keep sending, stops at any await, errors and
\* restarts; the one thing assumed is that a superseded socket's handler ends
\* before that of the socket which replaced it (main.py:1029).
THEOREM NothingWithoutConsent ==
  ASSUME "late_close" \notin Hazards
  PROVE  Spec => ConsentedOnly
<1>1. Init => TypeOK /\ SlotInv /\ ConsentInv
  BY TypeInit, SlotInit, ConsentInit
<1>2. TypeOK /\ SlotInv /\ ConsentInv /\ [Next]_vars => (TypeOK /\ SlotInv /\ ConsentInv)'
  BY TypeNext, SlotNext, ConsentNext
<1>3. TypeOK /\ SlotInv /\ ConsentInv /\ [Next]_vars
        => [\A g \in ran' \ ran :
                \/ g \in clicked \ refused
                \/ kind'[g] = "command" /\ auto]_vars
  BY RunsWithConsent
<1> QED BY <1>1, <1>2, <1>3, PTL DEF Spec, ConsentedOnly

\* A live turn and every handler hold the Channel that a new connection will be
\* given, so a decision made in any tab reaches the turn (app.state.channels
\* against the Channel captured in ws()), under the same assumption.
THEOREM EveryoneOnOneChannel ==
  ASSUME "late_close" \notin Hazards
  PROVE  Spec => [](AttachedToCurrent /\ TurnsTalkToCurrent)
<1>1. Init => TypeOK /\ SlotInv /\ ConsentInv
  BY TypeInit, SlotInit, ConsentInit
<1>2. TypeOK /\ SlotInv /\ ConsentInv /\ [Next]_vars => (TypeOK /\ SlotInv /\ ConsentInv)'
  BY TypeNext, SlotNext, ConsentNext
<1>3. ConsentInv => AttachedToCurrent /\ TurnsTalkToCurrent
  BY DEF ConsentInv, LinkInv
<1> QED BY <1>1, <1>2, <1>3, PTL DEF Spec

----------------------------------------------------------------------------
\* Whoever is attached has a card for every gate that can still be decided.
CardsShown ==
    \A ch \in Channels, g \in Gates :
        pending[ch][g] \in {"open", "restored"} /\ ws[ch] # NoConn => g \in cards[ws[ch]]

LEMMA CardsKept ==
  ASSUME TypeOK, CardsShown, UNCHANGED <<ws, cards>>,
         \A ch \in Channels, g \in Gates :
            pending'[ch][g] \in {"open", "restored"} => pending'[ch][g] = pending[ch][g]
  PROVE  CardsShown'
  BY DEF CardsShown

LEMMA ResolveCloses ==
  ASSUME TypeOK, NEW ch \in Channels, NEW gs \in SUBSET Gates, NEW answer \in {"yes", "no"},
         Resolve(ch, gs, answer)
  PROVE  /\ \A h \in Channels, g \in Gates :
              pending'[h][g] \in {"open", "restored"} => pending'[h][g] = pending[h][g]
         /\ \A g \in gs : pending'[ch][g] \notin {"open", "restored"}
<1>1. \A h \in Channels, g \in Gates :
        pending'[h][g] = IF h # ch THEN pending[h][g]
                         ELSE IF g \in gs /\ pending[ch][g] = "restored" THEN "none"
                         ELSE IF g \in gs /\ pending[ch][g] = "open" THEN answer
                         ELSE pending[ch][g]
  BY DEF Resolve, TypeOK, LinksOK
<1> QED BY <1>1

LEMMA SocketsShowCards ==
  ASSUME TypeOK, ConsentInv, CardsShown, "late_close" \notin Hazards,
         NEW c \in Conns, UserStep(c) \/ StopReturns(c) \/ StopTimesOut(c)
  PROVE  CardsShown'
<1>1. CASE Connect(c)
  <2>1. PICK ch \in Channels :
          /\ UNCHANGED pending \/
             pending' = [pending EXCEPT ![ch] = [g \in Gates |-> Restored(g)]]
          /\ ws' = [ws EXCEPT ![ch] = c]
          /\ cards' = [cards EXCEPT ![c] = Resurfaced(pending'[ch])]
    BY <1>1 DEF Connect
  <2>2. \A h \in Channels \ {ch} : pending'[h] = pending[h] /\ ws'[h] = ws[h] /\ ws[h] # c
    BY <1>1, <2>1, ChatAssumption
       DEF Connect, TypeOK, LinksOK, ConsentInv, LinkInv, HandlersListen
  <2>3. /\ ws'[ch] = c /\ cards'[c] = {g \in Gates : pending'[ch][g] # "none"}
        /\ \A d \in Conns \ {c} : cards'[d] = cards[d]
    BY <2>1 DEF TypeOK, LinksOK, SocketsOK, Resurfaced
  <2> SUFFICES ASSUME NEW h \in Channels, NEW g \in Gates,
                      pending'[h][g] \in {"open", "restored"}, ws'[h] # NoConn
               PROVE  g \in cards'[ws'[h]]
    BY DEF CardsShown
  <2>4. CASE h = ch
    BY <2>3, <2>4
  <2>5. CASE h # ch
    <3>1. ws[h] \in Conns \ {c} /\ g \in cards[ws[h]]
      BY <2>2, <2>5 DEF CardsShown, TypeOK, LinksOK
    <3> QED BY <2>2, <2>3, <2>5, <3>1
  <2> QED BY <2>4, <2>5
<1>2. CASE Disconnect(c)
  <2>1. /\ ws' = [ws EXCEPT ![at[c]] = IF @ = c THEN NoConn ELSE @]
        /\ cards' = [cards EXCEPT ![c] = {}] /\ UNCHANGED pending
    BY <1>2 DEF Disconnect
  <2>2. \A h \in Channels : ws'[h] # NoConn => ws'[h] = ws[h] /\ ws[h] \in Conns \ {c}
    BY <2>1 DEF TypeOK, LinksOK, ConsentInv, LinkInv, HandlersListen
  <2>3. \A d \in Conns \ {c} : cards'[d] = cards[d]
    BY <2>1 DEF TypeOK, SocketsOK
  <2> QED BY <2>1, <2>2, <2>3 DEF CardsShown
<1>3. CASE UserMessage(c)
  <2>1. at[c] \in Channels /\ Resolve(at[c], Gates, "no") /\ UNCHANGED <<ws, cards>>
    BY <1>3 DEF UserMessage, Reads, sockets, TypeOK, SocketsOK
  <2> QED BY <2>1, ResolveCloses, CardsKept
<1>4. CASE \E g \in Gates, answer \in {"yes", "no"} : Answer(c, g, answer)
  <2>1. PICK g \in Gates, answer \in {"yes", "no"} : Answer(c, g, answer)
    BY <1>4
  <2>2. /\ at[c] \in Channels /\ Resolve(at[c], {g}, answer) /\ UNCHANGED ws
        /\ cards' = [cards EXCEPT ![c] = @ \ {g}]
    BY <2>1 DEF Answer, Reads, TypeOK, SocketsOK
  <2>3. /\ \A h \in Channels, f \in Gates :
             pending'[h][f] \in {"open", "restored"} => pending'[h][f] = pending[h][f]
        /\ pending'[at[c]][g] \notin {"open", "restored"}
    BY <2>2, ResolveCloses
  <2> SUFFICES ASSUME NEW h \in Channels, NEW f \in Gates,
                      pending'[h][f] \in {"open", "restored"}, ws'[h] # NoConn
               PROVE  f \in cards'[ws'[h]]
    BY DEF CardsShown
  <2>4. f \in cards[ws[h]] /\ ws[h] \in Conns /\ ws'[h] = ws[h]
    BY <2>2, <2>3 DEF CardsShown, TypeOK, LinksOK
  <2>5. ws[h] = c => f # g
    BY <2>3, <2>4, ChatAssumption DEF ConsentInv, LinkInv, HandlersListen
  <2> QED BY <2>2, <2>4, <2>5 DEF TypeOK, SocketsOK
<1>5. CASE \/ Stop(c) \/ StopReturns(c) \/ StopTimesOut(c)
           \/ \E enabled \in BOOLEAN : SetAutoApprove(c, enabled)
  <2>1. UNCHANGED <<ws, cards, pending>>
    BY <1>5 DEF Stop, StopReturns, StopTimesOut, SetAutoApprove, sockets, links
  <2> QED BY <2>1, CardsKept
<1> QED BY <1>1, <1>2, <1>3, <1>4, <1>5 DEF UserStep

LEMMA TasksShowCards ==
  ASSUME TypeOK, CardsShown,
         NEW k \in Turns, TurnStep(k) \/ UnwindStep(k) \/ Fail(k)
  PROVE  CardsShown'
<1>1. UNCHANGED <<ws, cards>>
  BY DEF TurnStep, Begin, Register, Query, Respond, Abandon, CloseEngine, End, Fail,
         UnwindStep, CancelledUnstarted, CancelledOutside, CancelledInside,
         CancelledDisconnecting, Aborted, EndCancelled, Withdraw, sockets, links
<1>2. UNCHANGED pending \/ Withdraw(k)
  BY DEF TurnStep, Begin, Register, Query, Respond, Abandon, CloseEngine, End, Fail,
         UnwindStep, CancelledUnstarted, CancelledOutside, CancelledInside,
         CancelledDisconnecting, Aborted, EndCancelled, links
<1>3. \A ch \in Channels, g \in Gates : pending'[ch][g] \in {pending[ch][g], "none"}
  BY <1>2 DEF Withdraw
<1> QED BY <1>1, <1>3, CardsKept

LEMMA ToolsShowCards ==
  ASSUME TypeOK, ConsentInv, CardsShown,
         \/ \E k \in Turns, g \in Gates, what \in Kinds : RequestGate(k, g, what)
         \/ \E g \in Gates : ToolStep(g)
  PROVE  CardsShown'
<1>1. CASE \E g \in Gates : ToolStep(g)
  <2>1. PICK g \in Gates : ToolStep(g)
    BY <1>1
  <2>2. UNCHANGED <<ws, cards>>
    BY <2>1 DEF ToolStep, Parks, GateAnswered, ToolEnds, sockets, links
  <2>3. \A ch \in Channels, h \in Gates : pending'[ch][h] \in {pending[ch][h], "none"}
    <3>1. \/ UNCHANGED pending
          \/ pending' = [pending EXCEPT ![chan[owner[g]]][g] = "none"]
      BY <2>1 DEF ToolStep, Parks, GateAnswered, ToolEnds, links
    <3> QED BY <3>1 DEF TypeOK, LinksOK
  <2> QED BY <2>2, <2>3, CardsKept
<1>2. CASE \E k \in Turns, g \in Gates, what \in Kinds : RequestGate(k, g, what)
  <2>1. PICK k \in Turns, g \in Gates, what \in Kinds : RequestGate(k, g, what)
    BY <1>2
  <2>2. CASE UNCHANGED <<pending, cards>>
    BY <2>1, <2>2, CardsKept DEF RequestGate
  <2>3. CASE /\ pending' = [pending EXCEPT ![chan[k]][g] = "open"]
             /\ cards' = [c \in Conns |-> IF ws[chan[k]] = c THEN cards[c] \cup {g} ELSE cards[c]]
    <3>1. UNCHANGED ws
      BY <2>1 DEF RequestGate
    <3> SUFFICES ASSUME NEW h \in Channels, NEW f \in Gates,
                        pending'[h][f] \in {"open", "restored"}, ws[h] # NoConn
                 PROVE  f \in cards'[ws[h]]
      BY <3>1 DEF CardsShown
    <3>2. ws[h] \in Conns
      BY DEF TypeOK, LinksOK
    <3>3. CASE h = chan[k] /\ f = g
      BY <2>3, <3>2, <3>3
    <3>4. CASE h # chan[k] \/ f # g
      <4>1. pending'[h][f] = pending[h][f]
        BY <2>3, <3>4 DEF TypeOK, LinksOK
      <4> QED BY <2>3, <3>2, <4>1 DEF CardsShown
    <3> QED BY <3>3, <3>4
  <2> QED BY <2>1, <2>2, <2>3 DEF RequestGate
<1> QED BY <1>1, <1>2

LEMMA CardsNext ==
  ASSUME TypeOK, ConsentInv, CardsShown, "late_close" \notin Hazards, [Next]_vars
  PROVE  CardsShown'
<1>1. CASE UNCHANGED vars
  BY <1>1, CardsKept DEF vars, sockets, links
<1>2. CASE \E c \in Conns : UserStep(c) \/ StopReturns(c) \/ StopTimesOut(c)
  BY <1>2, SocketsShowCards
<1>3. CASE \E k \in Turns : TurnStep(k) \/ UnwindStep(k) \/ Fail(k)
  BY <1>3, TasksShowCards
<1>4. CASE \/ \E k \in Turns, g \in Gates, what \in Kinds : RequestGate(k, g, what)
           \/ \E g \in Gates : ToolStep(g)
  BY <1>4, ToolsShowCards
<1>5. CASE Restart
  BY <1>5 DEF Restart, CardsShown, NoEntries
<1> QED BY <1>1, <1>2, <1>3, <1>4, <1>5 DEF Next

\* A gate that a live turn is parked on can be decided: it is open in the
\* session's current Channel, and whoever is attached has its card; for any
\* number of tabs, reconnects, gates, stops, errors and restarts, under the
\* same assumption.
THEOREM GatesStayReachable ==
  ASSUME "late_close" \notin Hazards
  PROVE  Spec => []GateReachable
<1> DEFINE Inv == TypeOK /\ SlotInv /\ ConsentInv /\ CardsShown
<1>1. Init => Inv
  <2>1. Init => CardsShown
    BY DEF Init, CardsShown, NoEntries
  <2> QED BY <2>1, TypeInit, SlotInit, ConsentInit
<1>2. Inv /\ [Next]_vars => Inv'
  BY TypeNext, SlotNext, ConsentNext, CardsNext
<1>3. Inv => GateReachable
  <2> SUFFICES ASSUME Inv, NEW g \in Gates, stage[g] = "parked", Alive(owner[g]),
                      pending[chan[owner[g]]][g] = "open"
               PROVE  /\ current = chan[owner[g]]
                      /\ ws[current] # NoConn => g \in cards[ws[current]]
    BY DEF GateReachable
  <2>1. owner[g] \in Turns /\ chan[owner[g]] \in Channels
    BY DEF ConsentInv, ToolsHaveChannels, Waiting
  <2>2. current = chan[owner[g]]
    BY <2>1 DEF ConsentInv, LinkInv, TurnsTalkToCurrent
  <2> QED BY <2>1, <2>2 DEF CardsShown
<1> HIDE DEF Inv
<1> QED BY <1>1, <1>2, <1>3, PTL DEF Spec
----------------------------------------------------------------------------
(* The record on disk *)

\* A tool of a live turn waits for this gate.
Held(g) == stage[g] \in Waiting /\ Alive(owner[g])

\* What a live turn waits for is on record, and in the Channel it is decided in.
WaitingRecorded ==
    \A g \in Gates : Held(g) =>
        g \in inflight /\ current \in Channels /\ pending[current][g] \in {"open", "yes", "no"}

RecordOfWaiting ==
    \A g \in inflight : stage[g] \in Waiting \cup {"lost", "cut"} /\ decided[g] = "none"

UnaskedUndecided == \A g \in Gates : stage[g] = "unasked" => decided[g] = "none"

\* Only a turn that has begun has tools.
AskersBegan ==
    \A g \in Gates : stage[g] \in Waiting \cup {"executing"} =>
        owner[g] \in Turns /\ pc[owner[g]] # "none"

RecordInv == WaitingRecorded /\ RecordOfWaiting /\ UnaskedUndecided /\ AskersBegan

\* A step that asks nothing and decides nothing.
LEMMA RecordKept ==
  ASSUME TypeOK, RecordInv, UNCHANGED <<current, pending, inflight, decided, stage, owner>>,
         \A j \in Turns : pc'[j] \in Live => Alive(j),
         \A j \in Turns : pc'[j] = "none" => pc[j] = "none"
  PROVE  RecordInv'
<1>1. \A g \in Gates : Held(g)' => Held(g)
  BY DEF Held, RecordInv, AskersBegan, Alive
<1>2. WaitingRecorded'
  BY <1>1 DEF RecordInv, WaitingRecorded
<1>3. RecordOfWaiting' /\ UnaskedUndecided' /\ AskersBegan'
  BY DEF RecordInv, RecordOfWaiting, UnaskedUndecided, AskersBegan
<1> QED BY <1>2, <1>3 DEF RecordInv

\* The record is that of the gates, wherever the entries are.
LEMMA EntriesMoved ==
  ASSUME RecordInv, UNCHANGED <<inflight, decided, stage, owner, pc>>, \A g \in Gates : ~Held(g)
  PROVE  RecordInv'
<1>1. \A g \in Gates : ~Held(g)'
  BY DEF Held, Alive
<1> QED BY <1>1 DEF RecordInv, WaitingRecorded, RecordOfWaiting, UnaskedUndecided, AskersBegan

LEMMA HeldInChannel ==
  ASSUME ConsentInv, RecordInv, NEW g \in Gates, Held(g)
  PROVE  /\ owner[g] \in Turns /\ Alive(owner[g]) /\ chan[owner[g]] = current /\ current \in Channels
         /\ g \in inflight /\ pending[current][g] \in {"open", "yes", "no"}
BY DEF RecordInv, AskersBegan, WaitingRecorded, Held, ConsentInv, LinkInv, TurnsTalkToCurrent

\* A decision closes a restored gate here, and only sets the future of another.
LEMMA ResolveKeepsRecord ==
  ASSUME TypeOK, ConsentInv, RecordInv, NEW ch \in Channels, ch = current,
         NEW gs \in SUBSET Gates, NEW answer \in {"yes", "no"}, Resolve(ch, gs, answer),
         UNCHANGED <<current, stage, owner>>,
         \A j \in Turns : pc'[j] = pc[j]
  PROVE  RecordInv'
<1> DEFINE restored == {g \in gs : pending[ch][g] = "restored"}
<1>1. /\ \A g \in Gates :
           pending'[ch][g] = IF g \in restored THEN "none"
                             ELSE IF g \in gs /\ pending[ch][g] = "open" THEN answer
                             ELSE pending[ch][g]
      /\ inflight' = inflight \ restored
      /\ \A g \in Gates : decided'[g] = IF g \in restored THEN answer ELSE decided[g]
  BY DEF Resolve, TypeOK, LinksOK
<1>2. \A g \in Gates : Held(g)' => Held(g)
  BY DEF Held, RecordInv, AskersBegan, Alive
<1>3. \A g \in Gates : Held(g) => g \notin restored
  BY DEF RecordInv, WaitingRecorded
<1>4. \A g \in restored : stage[g] # "unasked"
  BY DEF ConsentInv, GateInv, UnaskedUnknown
<1> HIDE DEF restored
<1>5. WaitingRecorded'
  <2> SUFFICES ASSUME NEW g \in Gates, Held(g)'
               PROVE  g \in inflight' /\ pending'[ch][g] \in {"open", "yes", "no"}
    BY DEF WaitingRecorded
  <2>1. Held(g) /\ g \notin restored
    BY <1>2, <1>3
  <2> QED BY <1>1, <2>1, HeldInChannel
<1>6. RecordOfWaiting'
  BY <1>1 DEF RecordInv, RecordOfWaiting, TypeOK, StoredOK
<1>7. UnaskedUndecided' /\ AskersBegan'
  BY <1>1, <1>4 DEF RecordInv, UnaskedUndecided, AskersBegan
<1> QED BY <1>5, <1>6, <1>7 DEF RecordInv

\* A new turn has no tools.
LEMMA LaunchKeepsRecord ==
  ASSUME TypeOK, StoryInv, ConsentInv, RecordInv, NEW ended \in Turns \cup {NoTurn}, NEW ch, NEW msgs,
         Launch(ended, ch, msgs), \A j \in Turns : Alive(j) => j = ended,
         ended # NoTurn => pc[ended] # "none"
  PROVE  /\ \A g \in Gates : stage[g] \in Waiting \cup {"executing"} =>
              owner[g] \in Turns /\ pc'[owner[g]] # "none" /\ pc'[owner[g]] \notin Live
         /\ NextTurn \in Turns
<1>1. NextTurn \in Turns /\ pc[NextTurn] = "none"
  BY NextIsNew DEF Launch, StoryInv
<1>2. \A j \in Turns \ {NextTurn} : pc'[j] = IF j = ended THEN "done" ELSE pc[j]
  BY DEF Launch
<1>3. ASSUME NEW g \in Gates, stage[g] \in Waiting \cup {"executing"}
      PROVE  owner[g] \in Turns /\ pc'[owner[g]] # "none" /\ pc'[owner[g]] \notin Live
  <2>1. owner[g] \in Turns \ {NextTurn} /\ pc[owner[g]] # "none"
    BY <1>1, <1>3 DEF RecordInv, AskersBegan
  <2> QED BY <1>2, <2>1 DEF Alive, Live
<1> QED BY <1>1, <1>3

LEMMA FreshTurnKeepsRecord ==
  ASSUME RecordInv,
         \A g \in Gates : stage[g] \in Waiting \cup {"executing"} =>
              owner[g] \in Turns /\ pc'[owner[g]] # "none" /\ pc'[owner[g]] \notin Live,
         UNCHANGED <<stage, owner, inflight, decided>>
  PROVE  RecordInv'
<1>1. \A g \in Gates : ~Held(g)'
  BY DEF Held, Alive
<1> QED BY <1>1 DEF RecordInv, WaitingRecorded, RecordOfWaiting, UnaskedUndecided, AskersBegan

LEMMA UserMessageKeepsRecord ==
  ASSUME TypeOK, SlotInv, StoryInv, ConsentInv, RecordInv, NEW c \in Conns, UserMessage(c)
  PROVE  RecordInv'
<1>1. at[c] \in Channels /\ at[c] = current
  BY DEF UserMessage, Reads, TypeOK, SocketsOK, ConsentInv, LinkInv, AttachedToCurrent
<1>2. Resolve(at[c], Gates, "no") /\ UNCHANGED <<current, stage, owner>>
  BY DEF UserMessage, gates
<1>3. CASE Running
  BY <1>1, <1>2, <1>3, ResolveKeepsRecord DEF UserMessage
<1>4. CASE ~Running
  <2>1. \A j \in Turns : ~Alive(j)
    BY <1>4, TurnsAreNamed DEF Running, SlotInv, OneTurn
  <2>2. Launch(NoTurn, at[c], <<sent + 1>>)
    BY <1>4 DEF UserMessage
  <2>3. \A g \in Gates : stage[g] \in Waiting \cup {"executing"} =>
          owner[g] \in Turns /\ pc'[owner[g]] # "none" /\ pc'[owner[g]] \notin Live
    BY <2>1, <2>2, LaunchKeepsRecord
  <2>4. \A g \in Gates : ~Held(g)'
    BY <1>2, <2>3 DEF Held, Alive
  <2> DEFINE restored == {g \in Gates : pending[at[c]][g] = "restored"}
  <2>5. /\ inflight' = inflight \ restored
        /\ \A g \in Gates : decided'[g] = IF g \in restored THEN "no" ELSE decided[g]
    BY <1>2 DEF Resolve
  <2>6. \A g \in restored : stage[g] # "unasked"
    BY <1>1 DEF ConsentInv, GateInv, UnaskedUnknown
  <2> HIDE DEF restored
  <2>7. RecordOfWaiting' /\ UnaskedUndecided'
    BY <1>2, <2>5, <2>6 DEF RecordInv, RecordOfWaiting, UnaskedUndecided, TypeOK, StoredOK
  <2> QED BY <1>2, <2>3, <2>4, <2>7 DEF RecordInv, WaitingRecorded, AskersBegan
<1> QED BY <1>3, <1>4

LEMMA SocketsKeepRecord ==
  ASSUME TypeOK, SlotInv, StoryInv, ConsentInv, RecordInv, "late_close" \notin Hazards,
         NEW c \in Conns, UserStep(c) \/ StopReturns(c) \/ StopTimesOut(c)
  PROVE  RecordInv'
<1>1. CASE Connect(c)
  <2>1. UNCHANGED <<inflight, decided, stage, owner, pc>>
    BY <1>1 DEF Connect, stored, gates, task
  <2>2. CASE current # NoChannel
    <3>1. UNCHANGED <<current, pending>>
      BY <1>1, <2>2 DEF Connect
    <3> QED BY <2>1, <3>1, RecordKept DEF Alive
  <2>3. CASE current = NoChannel
    <3>1. \A g \in Gates : ~Held(g)
      BY <2>3, ChatAssumption, HeldInChannel
    <3> QED BY <2>1, <3>1, EntriesMoved
  <2> QED BY <2>2, <2>3
<1>2. CASE Disconnect(c)
  <2>1. UNCHANGED <<pending, inflight, decided, stage, owner, pc>>
    BY <1>2 DEF Disconnect, stored, gates, task
  <2>2. UNCHANGED current \/ ~Running
    BY <1>2 DEF Disconnect
  <2>3. CASE UNCHANGED current
    BY <2>1, <2>3, RecordKept DEF Alive
  <2>4. CASE ~Running
    <3>1. \A g \in Gates : ~Held(g)
      BY <2>4, HeldInChannel, TurnsAreNamed DEF Running, SlotInv, OneTurn
    <3> QED BY <2>1, <3>1, EntriesMoved
  <2> QED BY <2>2, <2>3, <2>4
<1>3. CASE UserMessage(c)
  BY <1>3, UserMessageKeepsRecord
<1>4. CASE \E g \in Gates, answer \in {"yes", "no"} : Answer(c, g, answer)
  <2>1. PICK g \in Gates, answer \in {"yes", "no"} : Answer(c, g, answer)
    BY <1>4
  <2>2. /\ at[c] \in Channels /\ at[c] = current /\ Resolve(at[c], {g}, answer)
        /\ UNCHANGED <<current, stage, owner, pc>>
    BY <2>1 DEF Answer, Reads, TypeOK, SocketsOK, ConsentInv, LinkInv, AttachedToCurrent, gates, task
  <2> QED BY <2>2, ResolveKeepsRecord
<1>5. CASE \/ Stop(c) \/ StopReturns(c) \/ StopTimesOut(c)
           \/ \E enabled \in BOOLEAN : SetAutoApprove(c, enabled)
  <2>1. UNCHANGED <<current, pending, inflight, decided, stage, owner, pc>>
    BY <1>5 DEF Stop, StopReturns, StopTimesOut, SetAutoApprove, links, stored, gates, task
  <2> QED BY <2>1, RecordKept DEF Alive
<1> QED BY <1>1, <1>2, <1>3, <1>4, <1>5 DEF UserStep

\* disconnect() takes what it ends off the record, but what it cuts short.
LEMMA WithdrawKeepsRecord ==
  ASSUME TypeOK, SlotInv, ConsentInv, RecordInv, NEW k \in Turns, Alive(k), Withdraw(k),
         NEW to \in Live, Goto(k, to)
  PROVE  RecordInv'
<1> DEFINE parked == {g \in Tools(k) : stage[g] = "parked"}
<1>1. /\ \A g \in Gates : stage'[g] = IF g \in Tools(k) THEN Closed(g) ELSE stage[g]
      /\ inflight' = inflight \ parked /\ UNCHANGED <<decided, owner>>
  BY DEF Withdraw
<1>2. \A j \in Turns : (pc'[j] \in Live => Alive(j)) /\ (pc'[j] = "none" => pc[j] = "none")
  BY DEF Goto, TypeOK, TaskOK, Alive, Live
<1>3. \A g \in Gates : ~Held(g)'
  <2> SUFFICES ASSUME NEW g \in Gates, stage'[g] \in Waiting, owner[g] \in Turns, pc'[owner[g]] \in Live
               PROVE  FALSE
    <3>1. \A g \in Gates : stage'[g] \in Waiting => stage[g] \in Waiting
      BY <1>1 DEF Closed, Waiting
    <3>2. \A g \in Gates : stage[g] \in Waiting => owner[g] \in Turns
      BY DEF RecordInv, AskersBegan
    <3> QED BY <1>1, <3>1, <3>2 DEF Held, Alive
  <2>1. g \notin Tools(k) /\ stage[g] \in Waiting
    BY <1>1 DEF Closed, Waiting
  <2>2. owner[g] # k
    BY <2>1 DEF Tools
  <2> QED BY <1>2, <2>2, OnlyOneAlive
<1>4. RecordOfWaiting'
  <2> SUFFICES ASSUME NEW g \in inflight' PROVE stage'[g] \in Waiting \cup {"lost", "cut"} /\ decided[g] = "none"
    BY <1>1 DEF RecordOfWaiting
  <2>1. g \in Gates /\ g \in inflight /\ g \notin parked /\ decided[g] = "none"
        /\ stage[g] \in Waiting \cup {"lost", "cut"}
    BY <1>1 DEF RecordInv, RecordOfWaiting, TypeOK, StoredOK
  <2>2. CASE g \in Tools(k)
    BY <1>1, <2>1, <2>2 DEF Closed, Waiting, Tools
  <2>3. CASE g \notin Tools(k)
    BY <1>1, <2>1, <2>3
  <2> QED BY <2>1, <2>2, <2>3
<1>5. UnaskedUndecided' /\ AskersBegan'
  <2>1. \A g \in Gates : stage'[g] = "unasked" => stage[g] = "unasked"
    BY <1>1 DEF Closed
  <2>2. \A g \in Gates : stage'[g] \in Waiting \cup {"executing"} => stage[g] \in Waiting \cup {"executing"}
    BY <1>1 DEF Closed, Waiting
  <2> QED BY <1>1, <1>2, <2>1, <2>2 DEF RecordInv, UnaskedUndecided, AskersBegan
<1> QED BY <1>3, <1>4, <1>5 DEF RecordInv, WaitingRecorded

LEMMA GotoKeepsRecord ==
  ASSUME TypeOK, RecordInv, NEW k \in Turns, Alive(k), NEW to \in Live \cup Ended, Goto(k, to),
         UNCHANGED <<current, pending, inflight, decided, stage, owner>>
  PROVE  RecordInv'
<1>1. \A j \in Turns : (pc'[j] \in Live => Alive(j)) /\ (pc'[j] = "none" => pc[j] = "none")
  BY DEF Goto, TypeOK, TaskOK, Alive, Live, Ended
<1> QED BY <1>1, RecordKept

\* The last of a turn, which may forget the Channel: no live turn is left.
LEMMA ReleaseKeepsRecord ==
  ASSUME TypeOK, SlotInv, RecordInv, NEW k \in Turns, Alive(k), Goto(k, "done"),
         UNCHANGED <<inflight, decided, stage, owner>>
  PROVE  RecordInv'
<1>1. \A j \in Turns : pc'[j] \notin Live /\ (pc'[j] = "none" => pc[j] = "none")
  BY OnlyOneAlive DEF Goto, TypeOK, TaskOK, Alive, Live
<1>2. \A g \in Gates : stage[g] \in Waiting \cup {"executing"} =>
        owner[g] \in Turns /\ pc'[owner[g]] # "none" /\ pc'[owner[g]] \notin Live
  BY <1>1 DEF RecordInv, AskersBegan
<1> QED BY <1>2, FreshTurnKeepsRecord

LEMMA TurnKeepsRecord ==
  ASSUME TypeOK, SlotInv, StoryInv, ConsentInv, RecordInv, NEW k \in Turns,
         TurnStep(k) \/ UnwindStep(k) \/ Fail(k)
  PROVE  RecordInv'
<1>1. Alive(k)
  BY DEF TurnStep, Begin, Register, Query, Respond, Abandon, Fail, CloseEngine, End, At,
         UnwindStep, CancelledUnstarted, CancelledOutside, CancelledInside,
         CancelledDisconnecting, Aborted, EndCancelled, Alive, Live
<1>2. CASE \/ Begin(k) \/ Register(k) \/ Query(k) \/ Respond(k) \/ Abandon(k) \/ Fail(k)
           \/ CancelledUnstarted(k) \/ CancelledOutside(k) \/ CancelledInside(k)
  <2>1. UNCHANGED <<current, pending, inflight, decided, stage, owner>>
    BY <1>2 DEF Begin, Register, Query, Respond, Abandon, Fail, CancelledUnstarted,
                CancelledOutside, CancelledInside, links, stored, gates
  <2>2. UNCHANGED pc \/ \E to \in Live \cup Ended : Goto(k, to)
    BY <1>2 DEF Begin, Register, Query, Respond, Abandon, Fail, CancelledUnstarted,
                CancelledOutside, CancelledInside, Announcing, Live, Ended
  <2>3. CASE UNCHANGED pc
    BY <2>1, <2>3, RecordKept DEF Alive
  <2>4. CASE \E to \in Live \cup Ended : Goto(k, to)
    BY <1>1, <2>1, <2>4, GotoKeepsRecord
  <2> QED BY <2>2, <2>3, <2>4
<1>3. CASE CloseEngine(k) \/ CancelledDisconnecting(k) \/ Aborted(k)
  <2>1. /\ \E to \in Live : Goto(k, to)
        /\ Withdraw(k) \/ UNCHANGED <<links, stored, gates>>
    BY <1>3 DEF CloseEngine, CancelledDisconnecting, Aborted, Announcing, Live
  <2>2. CASE Withdraw(k)
    BY <1>1, <2>1, <2>2, WithdrawKeepsRecord
  <2>3. CASE UNCHANGED <<links, stored, gates>>
    BY <1>1, <2>1, <2>3, GotoKeepsRecord DEF links, stored, gates
  <2> QED BY <2>1, <2>2, <2>3
<1>4. CASE End(k)
  <2>1. UNCHANGED <<inflight, decided, stage, owner>>
    BY <1>4 DEF End, stored, gates
  <2>2. CASE Launch(k, chan[k], ctxQ)
    <3>1. \A j \in Turns : Alive(j) => j = k
      BY <1>1, OnlyOneAlive
    <3>2. pc[k] # "none"
      BY <1>1 DEF Alive, Live
    <3>3. \A g \in Gates : stage[g] \in Waiting \cup {"executing"} =>
            owner[g] \in Turns /\ pc'[owner[g]] # "none" /\ pc'[owner[g]] \notin Live
      BY <2>2, <3>1, <3>2, LaunchKeepsRecord
    <3> QED BY <2>1, <3>3, FreshTurnKeepsRecord
  <2>3. CASE Goto(k, "done")
    BY <1>1, <2>1, <2>3, ReleaseKeepsRecord
  <2> QED BY <1>4, <2>2, <2>3 DEF End
<1>5. CASE EndCancelled(k)
  <2>1. Goto(k, "done") /\ UNCHANGED <<inflight, decided, stage, owner>>
    BY <1>5 DEF EndCancelled, stored, gates
  <2> QED BY <1>1, <2>1, ReleaseKeepsRecord
<1> QED BY <1>2, <1>3, <1>4, <1>5 DEF TurnStep, UnwindStep

LEMMA RequestKeepsRecord ==
  ASSUME TypeOK, ConsentInv, RecordInv, NEW k \in Turns, NEW g \in Gates, NEW what \in Kinds,
         RequestGate(k, g, what)
  PROVE  RecordInv'
<1>1. /\ stage[g] = "unasked" /\ UNCHANGED <<current, pc, chan>>
      /\ owner' = [owner EXCEPT ![g] = k]
      /\ pc[k] = "thinking" \/ Tools(k) # {}
  BY DEF RequestGate, task
<1>2. owner'[g] = k /\ \A h \in Gates \ {g} : owner'[h] = owner[h] /\ stage'[h] = stage[h]
  BY <1>1 DEF RequestGate, TypeOK, GatesOK
<1>3. pc[k] # "none"
  BY <1>1 DEF Tools, RecordInv, AskersBegan
<1>4. g \notin inflight /\ decided[g] = "none"
  BY <1>1 DEF ConsentInv, GateInv, UnaskedUnknown, RecordInv, UnaskedUndecided
<1>5. stage'[g] \in Waiting \cup {"executing"}
  BY DEF RequestGate, TypeOK, GatesOK, Waiting
<1>6. AskersBegan'
  BY <1>1, <1>2, <1>3 DEF RecordInv, AskersBegan
<1>7. \A h \in Gates \ {g} : Held(h)' <=> Held(h)
  BY <1>1, <1>2 DEF Held, Alive
<1>8. CASE /\ stage' = [stage EXCEPT ![g] = "executing"] /\ decided' = [decided EXCEPT ![g] = "yes"]
           /\ UNCHANGED <<pending, inflight>>
  <2>1. stage'[g] = "executing" /\ \A h \in Gates \ {g} : decided'[h] = decided[h]
    BY <1>8 DEF TypeOK, GatesOK, StoredOK
  <2>2. WaitingRecorded'
    BY <1>1, <1>7, <1>8, <2>1 DEF RecordInv, WaitingRecorded, Held, Waiting
  <2>3. RecordOfWaiting' /\ UnaskedUndecided'
    BY <1>2, <1>4, <1>8, <2>1 DEF RecordInv, RecordOfWaiting, UnaskedUndecided, TypeOK, StoredOK
  <2> QED BY <1>6, <2>2, <2>3 DEF RecordInv
<1>9. CASE /\ stage'[g] \in Waiting /\ pending' = [pending EXCEPT ![chan[k]][g] = "open"]
           /\ inflight' = inflight \cup {g} /\ UNCHANGED decided
  <2>1. \A ch \in Channels, h \in Gates : pending'[ch][h] = IF ch = chan[k] /\ h = g THEN "open" ELSE pending[ch][h]
    BY <1>9 DEF TypeOK, LinksOK
  <2>2. WaitingRecorded'
    <3>1. ASSUME Held(g)' PROVE g \in inflight' /\ current' \in Channels /\ pending'[current'][g] \in {"open", "yes", "no"}
      <4>1. Alive(k)
        BY <1>1, <1>2, <3>1 DEF Held, Alive
      <4>2. chan[k] = current /\ chan[k] \in Channels
        BY <4>1 DEF ConsentInv, LinkInv, TurnsTalkToCurrent
      <4> QED BY <1>1, <1>9, <2>1, <4>2
    <3>2. ASSUME NEW h \in Gates \ {g}, Held(h)'
          PROVE  h \in inflight' /\ current' \in Channels /\ pending'[current'][h] \in {"open", "yes", "no"}
      <4>1. Held(h)
        BY <1>7, <3>2
      <4>2. h \in inflight /\ current \in Channels /\ pending[current][h] \in {"open", "yes", "no"}
        BY <4>1, HeldInChannel
      <4> QED BY <1>1, <1>9, <2>1, <4>2
    <3> QED BY <3>1, <3>2 DEF WaitingRecorded
  <2>3. RecordOfWaiting' /\ UnaskedUndecided'
    BY <1>2, <1>4, <1>9 DEF RecordInv, RecordOfWaiting, UnaskedUndecided, TypeOK, StoredOK, Waiting
  <2> QED BY <1>6, <2>2, <2>3 DEF RecordInv
<1>10. stage' = [stage EXCEPT ![g] = IF "slow_send" \in Hazards /\ ws[chan[k]] # NoConn THEN "asking" ELSE "parked"]
         => stage'[g] \in Waiting
  BY DEF TypeOK, GatesOK, Waiting
<1> QED BY <1>8, <1>9, <1>10 DEF RequestGate

LEMMA ToolKeepsRecord ==
  ASSUME TypeOK, ConsentInv, RecordInv, NEW g \in Gates, ToolStep(g)
  PROVE  RecordInv'
<1>1. UNCHANGED <<current, pc, owner>> /\ \A h \in Gates \ {g} : stage'[h] = stage[h]
  BY DEF ToolStep, Parks, GateAnswered, ToolEnds, links, task, TypeOK, GatesOK
<1>2. stage[g] \in Waiting \cup {"executing"} /\ stage'[g] # "unasked"
  BY DEF ToolStep, Parks, GateAnswered, ToolEnds, Waiting, TypeOK, GatesOK
<1>3. \A h \in Gates \ {g} : Held(h)' <=> Held(h)
  BY <1>1 DEF Held, Alive
<1>4. AskersBegan'
  BY <1>1, <1>2 DEF RecordInv, AskersBegan
<1>5. CASE Parks(g)
  <2>1. stage[g] = "asking" /\ stage'[g] = "parked" /\ UNCHANGED <<pending, inflight, decided>>
    BY <1>5 DEF Parks, links, stored, TypeOK, GatesOK
  <2>2. Held(g)' => Held(g)
    BY <1>1, <2>1 DEF Held, Alive, Waiting
  <2>3. WaitingRecorded'
    BY <1>1, <1>3, <2>1, <2>2 DEF RecordInv, WaitingRecorded
  <2>4. RecordOfWaiting' /\ UnaskedUndecided'
    BY <1>1, <2>1 DEF RecordInv, RecordOfWaiting, UnaskedUndecided, Waiting, TypeOK, StoredOK
  <2> QED BY <1>4, <2>3, <2>4 DEF RecordInv
<1>6. CASE ToolEnds(g)
  <2>1. stage[g] = "executing" /\ stage'[g] = "over" /\ UNCHANGED <<pending, inflight, decided>>
    BY <1>6 DEF ToolEnds, links, stored, TypeOK, GatesOK
  <2>2. ~Held(g)' /\ g \notin inflight
    BY <2>1 DEF Held, Waiting, RecordInv, RecordOfWaiting
  <2>3. WaitingRecorded'
    BY <1>1, <1>3, <2>1, <2>2 DEF RecordInv, WaitingRecorded
  <2>4. RecordOfWaiting' /\ UnaskedUndecided'
    BY <1>1, <2>1, <2>2 DEF RecordInv, RecordOfWaiting, UnaskedUndecided, TypeOK, StoredOK
  <2> QED BY <1>4, <2>3, <2>4 DEF RecordInv
<1>7. CASE GateAnswered(g)
  <2>1. /\ stage'[g] \in {"executing", "over"} /\ inflight' = inflight \ {g}
        /\ \A h \in Gates \ {g} : decided'[h] = decided[h]
        /\ \A ch \in Channels, h \in Gates \ {g} : pending'[ch][h] = pending[ch][h]
    BY <1>7 DEF GateAnswered, TypeOK, GatesOK, LinksOK, StoredOK
  <2>2. ~Held(g)'
    BY <2>1 DEF Held, Waiting
  <2>3. WaitingRecorded'
    BY <1>1, <1>3, <2>1, <2>2 DEF RecordInv, WaitingRecorded
  <2>4. RecordOfWaiting' /\ UnaskedUndecided'
    BY <1>1, <1>2, <2>1 DEF RecordInv, RecordOfWaiting, UnaskedUndecided, TypeOK, StoredOK
  <2> QED BY <1>4, <2>3, <2>4 DEF RecordInv
<1> QED BY <1>5, <1>6, <1>7 DEF ToolStep

LEMMA RestartKeepsRecord == ASSUME TypeOK, RecordInv, Restart PROVE RecordInv'
<1>1. /\ \A g \in Gates : stage'[g] = IF stage[g] \in Waiting \cup {"executing"} THEN "lost" ELSE stage[g]
      /\ UNCHANGED <<inflight, decided>>
  BY DEF Restart, stored
<1>2. \A g \in Gates : stage'[g] \notin Waiting \cup {"executing"}
  BY <1>1 DEF Waiting
<1>3. RecordOfWaiting' /\ UnaskedUndecided'
  BY <1>1 DEF RecordInv, RecordOfWaiting, UnaskedUndecided, TypeOK, StoredOK
<1> QED BY <1>2, <1>3 DEF RecordInv, WaitingRecorded, AskersBegan, Held

LEMMA RecordNext ==
  ASSUME TypeOK, SlotInv, StoryInv, ConsentInv, RecordInv, "late_close" \notin Hazards, [Next]_vars
  PROVE  RecordInv'
<1>1. CASE UNCHANGED vars
  BY <1>1, RecordKept DEF vars, links, stored, gates, task, Alive
<1>2. CASE \E c \in Conns : UserStep(c) \/ StopReturns(c) \/ StopTimesOut(c)
  BY <1>2, SocketsKeepRecord
<1>3. CASE \E k \in Turns : TurnStep(k) \/ UnwindStep(k) \/ Fail(k)
  BY <1>3, TurnKeepsRecord
<1>4. CASE \E k \in Turns, g \in Gates, what \in Kinds : RequestGate(k, g, what)
  BY <1>4, RequestKeepsRecord
<1>5. CASE \E g \in Gates : ToolStep(g)
  BY <1>5, ToolKeepsRecord
<1>6. CASE Restart
  BY <1>6, RestartKeepsRecord
<1> QED BY <1>1, <1>2, <1>3, <1>4, <1>5, <1>6 DEF Next

LEMMA RecordInit == Init => RecordInv
BY DEF Init, RecordInv, WaitingRecorded, RecordOfWaiting, UnaskedUndecided, AskersBegan, Held, Waiting

LEMMA RecordAlways ==
  ASSUME "late_close" \notin Hazards
  PROVE  Spec => []RecordInv
<1> DEFINE Inv == TypeOK /\ SlotInv /\ StoryInv /\ ConsentInv /\ RecordInv
<1>1. Init => Inv
  BY TypeInit, SlotInit, StoryInit, ConsentInit, RecordInit
<1>2. Inv /\ [Next]_vars => Inv'
  BY TypeNext, SlotNext, StoryNext, ConsentNext, RecordNext
<1>3. Inv => RecordInv
  OBVIOUS
<1> HIDE DEF Inv, RecordInv
<1> QED BY <1>1, <1>2, <1>3, PTL DEF Spec

\* The record of in-flight approvals on disk (session.in_flight_approvals) is exact: for any
\* number of tabs, gates, reconnects, stops and restarts it lists what a live turn waits
\* for, and never a gate that was decided; under the same assumption.
THEOREM TheRecordIsExact ==
  ASSUME "late_close" \notin Hazards
  PROVE  Spec => []RecordExact
<1>1. RecordInv => RecordExact
  BY DEF RecordInv, WaitingRecorded, RecordOfWaiting, RecordExact, Held
<1> QED BY <1>1, RecordAlways, PTL

\* A decision reaches the turn that waits for it: no live turn is left parked on a gate
\* whose decision is on record.  Without the assumption it is violated (chat_late_close).
THEOREM DecisionsArrive ==
  ASSUME "late_close" \notin Hazards
  PROVE  Spec => []DecisionReaches
<1>1. RecordInv => DecisionReaches
  BY DEF RecordInv, WaitingRecorded, RecordOfWaiting, DecisionReaches, Held, Waiting
<1> QED BY <1>1, RecordAlways, PTL
=============================================================================
