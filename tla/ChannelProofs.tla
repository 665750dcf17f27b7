---------------------------- MODULE ChannelProofs ----------------------------
(***************************************************************************)
(* What one page sees of the event stream, for any length of the ring and  *)
(* any number of events and turns. The frames that are in the ring are the *)
(* latest ones, without a gap, and an event's number and its id differ by  *)
(* the same amount for as long as the Channel lives. With that, a cursor   *)
(* says exactly which events the pane has, and the attach-time snapshot    *)
(* holds exactly the others.                                               *)
(***************************************************************************)
EXTENDS EventChannel, TLAPS

\* The ids of events are their numbers, shifted by what earlier Channels emitted.
Shift == Len(told) - seq

PlainOK ==
  /\ seq \in Nat /\ cursor \in 0..MaxEvents /\ turns \in 0..MaxTurns
  /\ told \in Seq(Kinds) /\ seq <= Len(told) /\ Len(told) <= MaxEvents
  /\ active \in BOOLEAN /\ patch \in BOOLEAN
  /\ page \in {"away", "greeted", "listed", "replay", "live"}
  /\ streamed \in [Ids -> Nat] /\ listed \subseteq Ids /\ cards \subseteq Ids

GateOK ==
  /\ gate \in 0..Len(told)
  /\ gate # 0 => active

\* The ring holds the latest frames in order.
RingOK ==
  /\ ring \in Seq(Frames) /\ Len(ring) <= BufferMax /\ Len(ring) <= seq
  /\ \A i \in 1..Len(ring) : ring[i].seq = seq - Len(ring) + i /\ ring[i].id = ring[i].seq + Shift

\* What the pane was promised are events that were told, none of them an approval.
OwedOK == \A i \in owed : i \in 1..Len(told) /\ told[i] # "gate"

\* A handshake has frames of this Channel to replay, none of them an approval.
RestOK ==
  /\ rest \subseteq Frames
  /\ page \in {"away", "live"} => rest = {}
  /\ \A f \in rest : f.id = f.seq + Shift /\ f.seq <= seq /\ told[f.id] # "gate"

ChannelInv1 == PlainOK /\ GateOK /\ RingOK /\ OwedOK /\ RestOK

LEMMA Numbers ==
  ASSUME PlainOK
  PROVE  seq \in 0..MaxEvents /\ Len(told) \in 0..MaxEvents /\ Shift \in Nat
         /\ MaxEvents \in Nat /\ MaxTurns \in Nat /\ BufferMax \in Nat /\ BufferMax > 0
BY EventChannelAssumption DEF PlainOK, Shift

LEMMA Untouched ==
  ASSUME ChannelInv1
  PROVE  /\ UNCHANGED <<gate, active, told>> => GateOK'
         /\ UNCHANGED <<ring, seq, told>> => RingOK'
         /\ UNCHANGED <<owed, told>> => OwedOK'
         /\ UNCHANGED <<rest, page, seq, told>> => RestOK'
BY DEF ChannelInv1, GateOK, RingOK, OwedOK, RestOK, Shift

\* Appending a frame and dropping the oldest keeps the ring gapless.
LEMMA RingGrows ==
  ASSUME ChannelInv1, NEW kind \in Kinds, Emit(kind)
  PROVE  RingOK'
<1> DEFINE frame == [seq |-> seq + 1, id |-> Len(told) + 1]
           q == Append(ring, frame)
<1>1. told' = Append(told, kind) /\ seq' = seq + 1 /\ ring' = Keep(q) /\ Len(told) < MaxEvents
  BY DEF Emit
<1>2. frame \in Frames /\ Len(told') = Len(told) + 1 /\ Shift' = Shift
  BY <1>1, Numbers DEF ChannelInv1, PlainOK, Frames, Ids, Shift
<1>3. /\ q \in Seq(Frames) /\ Len(q) = Len(ring) + 1 /\ Len(q) <= seq'
      /\ \A i \in 1..Len(q) : q[i].seq = seq' - Len(q) + i /\ q[i].id = q[i].seq + Shift
  <2>1. ring \in Seq(Frames) /\ Len(ring) \in Nat /\ Len(ring) <= seq /\ seq \in Nat /\ Len(told) \in Nat
    BY Numbers DEF ChannelInv1, RingOK, PlainOK
  <2>2. q \in Seq(Frames) /\ Len(q) = Len(ring) + 1 /\ q[Len(ring) + 1] = frame
        /\ \A i \in 1..Len(ring) : q[i] = ring[i]
    BY <1>2, <2>1
  <2>3. frame.seq = seq + 1 /\ frame.id = frame.seq + Shift
    BY <2>1 DEF Shift
  <2> HIDE DEF frame, q
  <2>4. ASSUME NEW i \in 1..Len(q) PROVE q[i].seq = seq' - Len(q) + i /\ q[i].id = q[i].seq + Shift
    <3>1. CASE i = Len(ring) + 1
      BY <1>1, <2>1, <2>2, <2>3, <3>1
    <3>2. CASE i # Len(ring) + 1
      <4>1. i \in 1..Len(ring) /\ q[i] = ring[i]
        BY <2>1, <2>2, <3>2
      <4>2. ring[i].seq = seq - Len(ring) + i /\ ring[i].id = ring[i].seq + Shift
        BY <4>1 DEF ChannelInv1, RingOK
      <4> QED BY <1>1, <2>1, <2>2, <4>1, <4>2
    <3> QED BY <3>1, <3>2
  <2> QED BY <1>1, <2>1, <2>2, <2>4
<1> HIDE DEF frame, q
<1>4. CASE Len(q) <= BufferMax
  BY <1>1, <1>2, <1>3, <1>4, Numbers DEF Keep, RingOK, ChannelInv1
<1>5. CASE Len(q) > BufferMax
  <2>1. ring' = Tail(q) /\ q # <<>> /\ Len(q) \in Nat
    BY <1>1, <1>3, <1>5, Numbers DEF Keep, ChannelInv1
  <2>2. ring' \in Seq(Frames) /\ Len(ring') = Len(q) - 1 /\ \A i \in 1..Len(ring') : ring'[i] = q[i + 1]
    BY <1>3, <2>1
  <2>3. Len(q) <= BufferMax + 1
    BY <1>3, Numbers DEF ChannelInv1, RingOK
  <2>4. seq' \in Nat
    BY <1>1 DEF ChannelInv1, PlainOK
  <2>5. ASSUME NEW i \in 1..Len(ring')
        PROVE  ring'[i].seq = seq' - Len(ring') + i /\ ring'[i].id = ring'[i].seq + Shift'
    <3>1. i + 1 \in 1..Len(q) /\ ring'[i] = q[i + 1]
      BY <2>1, <2>2
    <3>2. q[i + 1].seq = seq' - Len(q) + (i + 1) /\ q[i + 1].id = q[i + 1].seq + Shift
      BY <1>3, <3>1
    <3> QED BY <1>2, <2>1, <2>2, <2>4, <3>1, <3>2
  <2>6. Len(ring') <= BufferMax /\ Len(ring') <= seq'
    BY <1>3, <2>1, <2>2, <2>3, <2>4, Numbers DEF ChannelInv1
  <2> QED BY <2>2, <2>5, <2>6 DEF RingOK
<1> QED BY <1>3, <1>4, <1>5, Numbers DEF ChannelInv1

LEMMA EmitKeeps == ASSUME ChannelInv1, NEW kind \in Kinds, Emit(kind) PROVE ChannelInv1'
<1> DEFINE frame == [seq |-> seq + 1, id |-> Len(told) + 1]
<1>1. /\ told' = Append(told, kind) /\ seq' = seq + 1 /\ Len(told) < MaxEvents /\ active /\ active' = active
      /\ UNCHANGED <<turns, page, rest, patch, listed>>
      /\ Delivered(frame, kind)
  BY DEF Emit
<1>2. /\ told' \in Seq(Kinds) /\ Len(told') = Len(told) + 1 /\ Len(told) \in Nat
      /\ told'[Len(told')] = kind /\ \A i \in 1..Len(told) : told'[i] = told[i]
  BY <1>1 DEF ChannelInv1, PlainOK
<1>3. Shift' = Shift /\ frame.seq \in 1..MaxEvents /\ frame.id \in Ids
  BY <1>1, <1>2, Numbers DEF ChannelInv1, PlainOK, Ids, Shift
<1>4. cursor' \in 0..MaxEvents /\ streamed' \in [Ids -> Nat] /\ cards' \subseteq Ids
  <2> HIDE DEF frame
  <2> QED BY <1>1, <1>3 DEF ChannelInv1, PlainOK, Delivered
<1>5. PlainOK'
  BY <1>1, <1>2, <1>4, Numbers DEF ChannelInv1, PlainOK
<1>6. GateOK'
  BY <1>1, <1>2 DEF Emit, GateOK
<1>7. OwedOK'
  BY <1>1, <1>2 DEF Emit, ChannelInv1, OwedOK
<1>8. RestOK'
  <2> SUFFICES ASSUME NEW f \in rest
               PROVE  f.id = f.seq + Shift' /\ f.seq <= seq' /\ told'[f.id] # "gate"
    BY <1>1 DEF RestOK, ChannelInv1
  <2>1. f.id \in 1..Len(told) /\ f.seq \in Nat /\ seq \in Nat /\ f.seq <= seq
    BY <1>2, Numbers DEF ChannelInv1, RestOK, Frames, Ids, Shift, PlainOK
  <2> QED BY <1>1, <1>2, <1>3, <2>1 DEF ChannelInv1, RestOK
<1> QED BY <1>5, <1>6, <1>7, <1>8, RingGrows DEF ChannelInv1

\* A frame in the ring, seen as a member of a set.
LEMMA InBuffer ==
  ASSUME ChannelInv1, NEW f \in Buffered
  PROVE  f \in Frames /\ f.id = f.seq + Shift /\ f.seq <= seq
<1>1. PICK i \in 1..Len(ring) : f = ring[i]
  BY DEF Buffered, ToSet, ChannelInv1, RingOK
<1>2. ring[i] \in Frames /\ ring[i].seq = seq - Len(ring) + i /\ ring[i].id = ring[i].seq + Shift
  BY DEF ChannelInv1, RingOK
<1>3. seq - Len(ring) + i <= seq
  BY DEF ChannelInv1, RingOK, PlainOK
<1> QED BY <1>1, <1>2, <1>3

LEMMA ConnectKeeps == ASSUME ChannelInv1, Connect PROVE ChannelInv1'
<1>1. UNCHANGED stream /\ page' = "greeted" /\ rest' \subseteq Missed(0) \cup Missed(cursor)
  BY DEF Connect
<1>2. PlainOK'
  <2>1. cursor' \in {0, cursor} /\ streamed' \in {streamed, [i \in Ids |-> 0]} /\ listed' \in {listed, {}}
        /\ cards' \in {cards, {}} /\ patch' \in BOOLEAN
    BY DEF Connect, Incremental
  <2> QED BY <1>1, <2>1, Numbers DEF ChannelInv1, PlainOK, stream
<1>3. OwedOK'
  <2>1. \A i \in Transcript : i \in 1..Len(told) /\ told[i] # "gate"
    BY DEF Transcript, ChannelInv1, PlainOK
  <2> QED BY <1>1, <2>1 DEF Connect, ChannelInv1, OwedOK, stream
<1>4. RestOK'
  BY <1>1, InBuffer DEF RestOK, Missed, stream, Shift
<1> QED BY <1>1, <1>2, <1>3, <1>4, Untouched DEF ChannelInv1, stream

LEMMA StartReplayKeeps == ASSUME ChannelInv1, StartReplay PROVE ChannelInv1'
<1>1. UNCHANGED stream /\ page' = "replay" /\ rest' \subseteq rest /\ owed' \subseteq owed \cup IdsOf(rest)
      /\ UNCHANGED <<patch, cursor, streamed, listed, cards>>
  BY DEF StartReplay
<1>2. PlainOK'
  BY <1>1 DEF ChannelInv1, PlainOK, stream
<1>3. \A f \in rest : f.id \in 1..Len(told) /\ told[f.id] # "gate"
  BY Numbers DEF ChannelInv1, RestOK, Frames, Ids, Shift, PlainOK
<1>4. OwedOK'
  BY <1>1, <1>3 DEF ChannelInv1, OwedOK, IdsOf, stream
<1>5. RestOK'
  BY <1>1 DEF ChannelInv1, RestOK, stream, Shift
<1> QED BY <1>1, <1>2, <1>4, <1>5, Untouched DEF ChannelInv1, stream

LEMMA ReplayNextKeeps == ASSUME ChannelInv1, NEW frame \in rest, ReplayNext(frame) PROVE ChannelInv1'
<1>1. UNCHANGED <<stream, page, patch, listed, cards, owed>> /\ rest' \subseteq rest /\ page = "replay"
  BY DEF ReplayNext
<1>2. frame.seq \in 1..MaxEvents /\ frame.id \in Ids
  BY DEF ChannelInv1, RestOK, Frames
<1>3. PlainOK'
  BY <1>1, <1>2 DEF ReplayNext, ChannelInv1, PlainOK, stream
<1>4. RestOK'
  BY <1>1 DEF ChannelInv1, RestOK, stream, Shift
<1> QED BY <1>1, <1>3, <1>4, Untouched DEF ChannelInv1, stream

LEMMA RestKeep ==
  ASSUME ChannelInv1, BeginTurn \/ EndTurn \/ Decide \/ SendHistory \/ Reemit \/ Drop
  PROVE  ChannelInv1'
<1>1. CASE BeginTurn
  <2>1. RingOK'
    BY <1>1, EventChannelAssumption, Numbers DEF BeginTurn, ChannelInv1, PlainOK, RingOK
  <2>2. PlainOK'
    BY <1>1, Numbers DEF BeginTurn, ChannelInv1, PlainOK
  <2> QED BY <1>1, <2>1, <2>2, Untouched DEF BeginTurn, ChannelInv1, GateOK
<1>2. CASE Decide
  BY <1>2, Untouched DEF Decide, ChannelInv1, PlainOK, GateOK
<1>3. CASE SendHistory
  <2>1. Transcript \subseteq Ids
    BY Numbers DEF Transcript, Ids, ChannelInv1, PlainOK
  <2>2. PlainOK'
    BY <1>3, <2>1 DEF SendHistory, ChannelInv1, PlainOK, stream
  <2>3. RestOK'
    BY <1>3 DEF SendHistory, ChannelInv1, RestOK, stream, Shift
  <2> QED BY <1>3, <2>2, <2>3, Untouched DEF SendHistory, ChannelInv1, stream
<1>4. CASE Reemit
  <2>1. gate # 0 => gate \in Ids
    BY Numbers DEF ChannelInv1, GateOK, Ids, PlainOK
  <2>2. PlainOK'
    BY <1>4, <2>1 DEF Reemit, ChannelInv1, PlainOK, stream
  <2>3. RestOK'
    BY <1>4 DEF Reemit, ChannelInv1, RestOK, stream
  <2> QED BY <1>4, <2>2, <2>3, Untouched DEF Reemit, ChannelInv1, stream
<1>5. CASE EndTurn \/ Drop
  <2>1. told' = told /\ gate' = gate /\ (gate # 0 => active') /\ owed' = owed
    BY <1>5 DEF EndTurn, Drop, ChannelInv1, GateOK
  <2>2. Forgotten \/ UNCHANGED <<seq, ring>>
    BY <1>5 DEF EndTurn, Drop
  <2>3. RingOK'
    <3>1. CASE Forgotten
      BY <2>1, <3>1, Numbers DEF Forgotten, RingOK, ChannelInv1
    <3> QED BY <2>1, <2>2, <3>1, Untouched
  <2>4. PlainOK'
    <3>1. seq' \in Nat /\ seq' <= Len(told') /\ Len(told) \in Nat
      BY <2>1, <2>2 DEF Forgotten, ChannelInv1, PlainOK
    <3>2. /\ page' \in {page, "away"} /\ active' \in {active, FALSE}
          /\ UNCHANGED <<turns, patch, cursor, streamed, listed, cards>>
      BY <1>5 DEF EndTurn, Drop
    <3> QED BY <2>1, <3>1, <3>2 DEF ChannelInv1, PlainOK
  <2>5. RestOK'
    <3>1. CASE page' = "away"
      BY <1>5, <3>1 DEF EndTurn, Drop, ChannelInv1, RestOK
    <3>2. CASE page' # "away"
      BY <1>5, <2>1, <3>2 DEF EndTurn, Drop, ChannelInv1, RestOK, Shift
    <3> QED BY <3>1, <3>2
  <2> QED BY <2>1, <2>3, <2>4, <2>5 DEF ChannelInv1, GateOK, OwedOK
<1> QED BY <1>1, <1>2, <1>3, <1>4, <1>5

LEMMA Step1 == ChannelInv1 /\ [ChannelNext]_channelVars => ChannelInv1'
<1>1. ASSUME ChannelInv1, ChannelNext PROVE ChannelInv1'
  BY <1>1, EmitKeeps, ConnectKeeps, StartReplayKeeps, ReplayNextKeeps, RestKeep DEF ChannelNext
<1>2. ASSUME ChannelInv1, UNCHANGED channelVars PROVE ChannelInv1'
  BY <1>2, Untouched DEF channelVars, ChannelInv1, PlainOK
<1> QED BY <1>1, <1>2

LEMMA Initially1 == ChannelInit => ChannelInv1
<1> SUFFICES ASSUME ChannelInit PROVE ChannelInv1
  OBVIOUS
<1>1. <<>> \in Seq(Kinds) /\ <<>> \in Seq(Frames) /\ Len(<<>>) = 0
  OBVIOUS
<1>2. PlainOK
  <2>1. 0 \in 0..MaxEvents /\ 0 \in 0..MaxTurns /\ 0 <= MaxEvents
    BY EventChannelAssumption
  <2>2. [i \in Ids |-> 0] \in [Ids -> Nat] /\ 0 \in Nat
    OBVIOUS
  <2>3. /\ seq \in Nat /\ cursor \in 0..MaxEvents /\ turns \in 0..MaxTurns
        /\ active \in BOOLEAN /\ patch \in BOOLEAN /\ page = "away"
    BY <2>1 DEF ChannelInit
  <2>4. told \in Seq(Kinds) /\ seq <= Len(told) /\ Len(told) <= MaxEvents
    BY <1>1, <2>1 DEF ChannelInit
  <2>5. streamed \in [Ids -> Nat] /\ listed \subseteq Ids /\ cards \subseteq Ids
    BY <2>2 DEF ChannelInit
  <2> QED BY <2>3, <2>4, <2>5 DEF PlainOK
<1>3. GateOK /\ RingOK
  BY <1>1, EventChannelAssumption DEF ChannelInit, GateOK, RingOK
<1> QED BY <1>2, <1>3 DEF ChannelInit, ChannelInv1, OwedOK, RestOK

LEMMA Invariant1 == ChannelSpec => []ChannelInv1
BY Initially1, Step1, PTL DEF ChannelSpec

\* Numbers, ids and frames stay in their ranges for any ring and any hazards: a Channel
\* that is forgotten numbers from 0 again and never catches up with the events told.
THEOREM ChannelTypes == ChannelSpec => []ChannelTypeOK
<1>1. ChannelInv1 => ChannelTypeOK
  <2> SUFFICES ASSUME ChannelInv1 PROVE ChannelTypeOK
    OBVIOUS
  <2>1. 1..Len(told) \subseteq Ids /\ gate \in {0} \cup Ids
    BY Numbers DEF ChannelInv1, GateOK, PlainOK, Ids
  <2>2. seq \in 0..MaxEvents /\ owed \subseteq Ids
    BY <2>1, Numbers DEF ChannelInv1, OwedOK
  <2> QED BY <2>1, <2>2 DEF ChannelInv1, ChannelTypeOK, PlainOK, RingOK, RestOK
<1> QED BY <1>1, Invariant1, PTL

\* The card of the gate a turn is parked at is on the attached page, whatever was
\* replayed to it before and also where other pages use the chat.
THEOREM GateCardOnScreen == ChannelSpec => []GateOnScreen
<1>1. ChannelInit => GateOnScreen
  BY DEF ChannelInit, GateOnScreen
<1>2. ASSUME GateOnScreen, ChannelNext PROVE GateOnScreen'
  <2>1. CASE \E kind \in Kinds : Emit(kind)
    <3>1. PICK kind \in Kinds : Emit(kind)
      BY <2>1
    <3>2. page' = page /\ gate = 0
      BY <3>1 DEF Emit
    <3>3. CASE kind = "gate" /\ page = "live"
      BY <3>1, <3>3 DEF Emit, Delivered, Attached, GateOnScreen
    <3>4. CASE kind # "gate" \/ page # "live"
      BY <3>1, <3>2, <3>4 DEF Emit, GateOnScreen
    <3> QED BY <3>3, <3>4
  <2>2. CASE \E frame \in rest : ReplayNext(frame)
    BY <2>2 DEF ReplayNext, GateOnScreen, stream
  <2>3. CASE Connect \/ SendHistory \/ StartReplay \/ Drop
    BY <2>3 DEF Connect, SendHistory, StartReplay, Drop, GateOnScreen
  <2>4. CASE Reemit
    BY <2>4 DEF Reemit, GateOnScreen, stream
  <2>5. CASE BeginTurn \/ EndTurn \/ Decide
    BY <1>2, <2>5 DEF BeginTurn, EndTurn, Decide, GateOnScreen
  <2> QED BY <1>2, <2>1, <2>2, <2>3, <2>4, <2>5 DEF ChannelNext
<1>3. ASSUME GateOnScreen, UNCHANGED channelVars PROVE GateOnScreen'
  BY <1>3 DEF GateOnScreen, channelVars
<1> QED BY <1>1, <1>2, <1>3, PTL DEF ChannelSpec
-----------------------------------------------------------------------------
(* Exactly once. The cursor of a page that is alone and whose connection is  *)
(* not lost while live frames overtake its replay always says what it has.   *)

Shown(i) == streamed[i] > 0 \/ i \in listed

\* A Channel that no page and no turn uses is empty.
IdleEmpty == page = "away" /\ ~active => ring = <<>>

\* The cursor is one of this Channel's numbers, and nothing after it was streamed.
CursorOK ==
  page # "away" \/ active =>
    cursor <= seq /\ \A i \in Ids : streamed[i] > 0 => i <= cursor + Shift

\* What is still to be replayed is not on the pane yet.
RestNew == \A f \in rest : streamed[f.id] = 0

\* How far the promise is kept at each step of the handshake, and while away.
PromiseKept ==
  /\ page \in {"live", "listed"} => \A i \in owed : Shown(i)
  /\ page = "listed" => ~patch
  /\ page = "replay" \/ (page = "greeted" /\ patch) => \A i \in owed : Shown(i) \/ i \in IdsOf(rest)
  /\ page = "greeted" /\ ~patch => \A i \in owed : streamed[i] > 0 \/ told[i] = "text"
  /\ page = "away" /\ active /\ cursor > 0 => \A i \in owed : Shown(i) \/ i > cursor + Shift

ViewInv == IdleEmpty /\ CursorOK /\ RestNew /\ StreamedOnce /\ PromiseKept

LEMMA EmitView ==
  ASSUME ChannelInv1, ViewInv, NEW kind \in Kinds, Emit(kind) PROVE ViewInv'
<1> DEFINE n == Len(told) + 1
           frame == [seq |-> seq + 1, id |-> n]
<1>1. /\ told' = Append(told, kind) /\ seq' = seq + 1 /\ active /\ active' /\ Delivered(frame, kind)
      /\ owed' = IF kind = "gate" THEN owed ELSE owed \cup {n}
      /\ UNCHANGED <<page, rest, patch, listed>>
  BY DEF Emit
<1>2. /\ n \in Nat /\ n \in Ids /\ seq \in Nat /\ Shift \in Nat /\ Shift' = Shift /\ n = seq + 1 + Shift
      /\ cursor \in Nat /\ cursor <= seq /\ \A i \in 1..Len(told) : told'[i] = told[i]
  <2>1. Len(told) \in Nat /\ Len(told) < MaxEvents /\ MaxEvents \in Nat /\ Len(told') = Len(told) + 1
        /\ \A i \in 1..Len(told) : told'[i] = told[i]
    BY <1>1, Numbers DEF Emit, ChannelInv1, PlainOK
  <2>2. cursor \in Nat /\ cursor <= seq /\ seq \in Nat /\ Shift \in Nat
    BY <1>1, Numbers DEF ChannelInv1, PlainOK, ViewInv, CursorOK
  <2> QED BY <1>1, <2>1, <2>2 DEF Shift, Ids
<1>3. streamed \in [Ids -> Nat] /\ streamed[n] = 0
  BY <1>1, <1>2 DEF ViewInv, CursorOK, ChannelInv1, PlainOK
<1>4. \A i \in owed : i \in 1..Len(told) /\ i \in Ids /\ i < n
  BY <1>2, Numbers DEF ChannelInv1, OwedOK, PlainOK, Ids
<1>5. \A f \in rest : f.id # n
  BY <1>2, Numbers DEF ChannelInv1, RestOK, PlainOK, Frames, Ids
<1>6. CASE page = "away"
  <2>1. UNCHANGED <<cursor, streamed>>
    BY <1>1, <1>6 DEF Delivered, Attached
  <2>2. CursorOK' /\ RestNew' /\ StreamedOnce' /\ IdleEmpty'
    BY <1>1, <1>2, <1>6, <2>1 DEF ViewInv, CursorOK, RestNew, StreamedOnce, IdleEmpty
  <2>3. cursor > 0 => \A i \in owed' : Shown(i)' \/ i > cursor + Shift
    BY <1>1, <1>2, <1>6, <2>1 DEF ViewInv, PromiseKept, Shown
  <2> QED BY <1>1, <1>2, <1>6, <2>1, <2>2, <2>3 DEF ViewInv, PromiseKept
<1>7. CASE page # "away"
  <2>1. cursor' = seq'
    BY <1>1, <1>2, <1>7 DEF Delivered, Attached
  <2>2. \/ kind = "gate" /\ streamed' = streamed
        \/ kind # "gate" /\ streamed' = [streamed EXCEPT ![n] = @ + 1]
    BY <1>1, <1>7 DEF Delivered, Attached
  <2>3. /\ streamed' \in [Ids -> Nat] /\ (kind # "gate" => streamed'[n] = 1) /\ streamed'[n] <= 1
        /\ \A i \in Ids \ {n} : streamed'[i] = streamed[i]
    BY <1>2, <1>3, <2>2
  <2> HIDE DEF frame, n
  <2>4. CursorOK'
    <3>1. \A i \in Ids : i \in Nat /\ (streamed[i] > 0 => i <= cursor + Shift)
      BY <1>7, Numbers DEF ViewInv, CursorOK, Ids, ChannelInv1
    <3>2. ASSUME NEW i \in Ids, streamed'[i] > 0 PROVE i <= cursor' + Shift'
      <4>1. CASE i = n
        BY <1>1, <1>2, <2>1, <4>1
      <4>2. CASE i # n
        <5>1. streamed[i] > 0 /\ i \in Nat /\ i <= cursor + Shift
          BY <2>3, <3>1, <3>2, <4>2
        <5> QED BY <1>1, <1>2, <2>1, <5>1
      <4> QED BY <4>1, <4>2
    <3> QED BY <1>1, <1>2, <2>1, <3>2 DEF CursorOK
  <2>5. RestNew' /\ StreamedOnce' /\ IdleEmpty'
    BY <1>1, <1>5, <1>7, <2>3 DEF ViewInv, RestNew, StreamedOnce, IdleEmpty, ChannelInv1, RestOK, Frames
  <2>6. \A i \in owed : (streamed[i] > 0 => streamed'[i] > 0) /\ told'[i] = told[i]
    BY <1>2, <1>4, <2>3
  <2>7. \A i \in owed' : i \in owed \/ streamed'[i] > 0
    BY <1>1, <2>3
  <2>8. PromiseKept'
    BY <1>1, <1>7, <2>6, <2>7 DEF ViewInv, PromiseKept, Shown
  <2> QED BY <2>4, <2>5, <2>8 DEF ViewInv
<1> QED BY <1>6, <1>7

\* Within the window, what the cursor has not seen is in the ring.
LEMMA Covered ==
  ASSUME ChannelInv1, Incremental, NEW i \in owed, i > cursor + Shift
  PROVE  i \in IdsOf(Missed(cursor))
<1>1. /\ seq \in Nat /\ cursor \in Nat /\ Shift \in Nat /\ Len(told) = seq + Shift
      /\ Len(ring) \in Nat /\ i \in 1..Len(told) /\ told[i] # "gate"
  BY Numbers DEF ChannelInv1, PlainOK, RingOK, OwedOK, Shift
<1>2. Len(ring) >= 1 /\ Head(ring) = ring[1]
  BY DEF Incremental, ChannelInv1, RingOK
<1>3. seq - Len(ring) <= cursor
  <2>1. ring[1].seq = seq - Len(ring) + 1
    BY <1>1, <1>2 DEF ChannelInv1, RingOK
  <2>2. ring[1].seq - 1 <= cursor
    BY <1>2 DEF Incremental, MinBuffered
  <2> QED BY <1>1, <2>1, <2>2
<1> DEFINE k == i - Shift - (seq - Len(ring))
<1>4. k \in 1..Len(ring)
  BY <1>1, <1>2, <1>3
<1>5. ring[k].seq = seq - Len(ring) + k /\ ring[k].id = ring[k].seq + Shift
  BY <1>4 DEF ChannelInv1, RingOK
<1>6. ring[k].id = i /\ ring[k].seq > cursor
  BY <1>1, <1>5
<1>7. ring[k] \in Buffered
  BY <1>4 DEF Buffered, ToSet, ChannelInv1, RingOK
<1> HIDE DEF k
<1>8. ring[k] \in Missed(cursor)
  BY <1>1, <1>6, <1>7 DEF Missed
<1> QED BY <1>6, <1>8 DEF IdsOf

LEMMA ConnectView == ASSUME ChannelInv1, ViewInv, Connect PROVE ViewInv'
<1>1. page = "away" /\ page' = "greeted" /\ UNCHANGED stream /\ patch' = Incremental /\ Shift' = Shift
  BY DEF Connect, stream, Shift
<1>2. CASE Incremental
  <2>1. UNCHANGED <<cursor, streamed, listed, owed>> /\ rest' = Missed(cursor) /\ patch'
    BY <1>1, <1>2 DEF Connect
  <2>2. active /\ cursor > 0
    BY <1>1, <1>2 DEF ViewInv, IdleEmpty, Incremental
  <2>3. ASSUME NEW f \in Missed(cursor) PROVE streamed[f.id] = 0
    <3>1. f \in Frames /\ f.id = f.seq + Shift /\ f.seq > cursor
      BY InBuffer DEF Missed
    <3>2. f.id \in Ids /\ ~(f.id <= cursor + Shift) /\ streamed[f.id] \in Nat
      BY <3>1, Numbers DEF Frames, ChannelInv1, PlainOK, Ids
    <3> QED BY <2>2, <3>2 DEF ViewInv, CursorOK
  <2>4. \A i \in owed : Shown(i) \/ i \in IdsOf(Missed(cursor))
    BY <1>1, <1>2, <2>2, Covered DEF ViewInv, PromiseKept
  <2>5. PromiseKept'
    BY <1>1, <2>1, <2>4 DEF PromiseKept, Shown
  <2>6. CursorOK' /\ IdleEmpty' /\ StreamedOnce' /\ RestNew'
    BY <1>1, <2>1, <2>2, <2>3 DEF ViewInv, CursorOK, IdleEmpty, StreamedOnce, RestNew, stream
  <2> QED BY <2>5, <2>6 DEF ViewInv
<1>3. CASE ~Incremental
  <2>1. /\ cursor' = 0 /\ streamed' = [i \in Ids |-> 0] /\ rest' = Missed(0) /\ owed' = Transcript /\ ~patch'
    BY <1>1, <1>3 DEF Connect
  <2>2. \A f \in Missed(0) : f.id \in Ids
    BY InBuffer DEF Missed, Frames
  <2>3. \A i \in Transcript : told[i] = "text"
    BY DEF Transcript
  <2>4. CursorOK' /\ IdleEmpty' /\ StreamedOnce' /\ RestNew'
    BY <1>1, <2>1, <2>2, Numbers DEF CursorOK, IdleEmpty, StreamedOnce, RestNew, stream, ChannelInv1, PlainOK
  <2>5. PromiseKept'
    BY <1>1, <2>1, <2>3 DEF PromiseKept, stream
  <2> QED BY <2>4, <2>5 DEF ViewInv
<1> QED BY <1>2, <1>3

LEMMA HandshakeView ==
  ASSUME ChannelInv1, ViewInv, SendHistory \/ StartReplay \/ Reemit PROVE ViewInv'
<1>1. UNCHANGED <<stream, cursor, streamed, patch>> /\ page # "away" /\ page' # "away" /\ rest' \subseteq rest
      /\ Shift' = Shift
  BY DEF SendHistory, StartReplay, Reemit, stream, Shift
<1>2. CursorOK' /\ IdleEmpty' /\ StreamedOnce' /\ RestNew'
  BY <1>1 DEF ViewInv, CursorOK, IdleEmpty, StreamedOnce, RestNew, stream
<1>3. CASE SendHistory
  <2>1. \A i \in owed : told[i] = "text" => i \in Transcript
    BY DEF ChannelInv1, OwedOK, Transcript, PlainOK
  <2>2. page = "greeted" /\ ~patch /\ page' = "listed" /\ listed' = Transcript /\ owed' = owed
    BY <1>3 DEF SendHistory
  <2>3. \A i \in owed : streamed[i] > 0 \/ told[i] = "text"
    BY <2>2 DEF ViewInv, PromiseKept
  <2>4. PromiseKept'
    BY <1>1, <2>1, <2>2, <2>3 DEF PromiseKept, Shown
  <2> QED BY <1>2, <2>4 DEF ViewInv
<1>4. CASE StartReplay
  BY <1>2, <1>4 DEF StartReplay, ViewInv, PromiseKept, Shown, IdsOf
<1>5. CASE Reemit
  BY <1>2, <1>5 DEF Reemit, ViewInv, PromiseKept, Shown, IdsOf
<1> QED BY <1>3, <1>4, <1>5

LEMMA ReplayView ==
  ASSUME ChannelInv1, ViewInv, NEW frame \in rest, ReplayNext(frame) PROVE ViewInv'
<1>1. /\ page = "replay" /\ UNCHANGED <<stream, page, patch, listed, owed>> /\ Shift' = Shift
      /\ rest' = rest \ {frame}
      /\ streamed' = [streamed EXCEPT ![frame.id] = @ + 1]
      /\ cursor' = IF cursor > frame.seq THEN cursor ELSE frame.seq
  BY DEF ReplayNext, stream, Shift
<1>2. \A f \in rest : f \in Frames /\ f.id = f.seq + Shift /\ f.seq <= seq /\ f.seq \in Nat /\ f.id \in Ids
  BY Numbers DEF ChannelInv1, RestOK, Frames, PlainOK
<1>3. /\ seq \in Nat /\ Shift \in Nat /\ cursor \in Nat /\ streamed \in [Ids -> Nat]
      /\ streamed[frame.id] = 0 /\ cursor <= seq
  BY <1>1, Numbers DEF ChannelInv1, PlainOK, ViewInv, RestNew, CursorOK
<1>4. /\ streamed' \in [Ids -> Nat] /\ streamed'[frame.id] = 1
      /\ \A i \in Ids : i # frame.id => streamed'[i] = streamed[i]
  BY <1>1, <1>2, <1>3
<1>5. \A f \in rest' : f.id # frame.id
  BY <1>1, <1>2, <1>3 DEF Frames
<1>6. RestNew' /\ StreamedOnce'
  BY <1>1, <1>2, <1>4, <1>5 DEF ViewInv, RestNew, StreamedOnce
<1>7. CursorOK'
  <2>1. cursor' \in Nat /\ cursor <= cursor' /\ frame.seq <= cursor' /\ cursor' <= seq
    BY <1>1, <1>2, <1>3
  <2>2. \A i \in Ids : streamed[i] > 0 => i <= cursor + Shift
    BY <1>1 DEF ViewInv, CursorOK
  <2>3. \A i \in Ids : i \in Nat
    BY Numbers DEF Ids, ChannelInv1
  <2>4. ASSUME NEW i \in Ids, streamed'[i] > 0 PROVE i <= cursor' + Shift
    BY <1>2, <1>3, <1>4, <2>1, <2>2, <2>3, <2>4
  <2> QED BY <1>1, <2>1, <2>4 DEF CursorOK, stream
<1>8. ASSUME NEW i \in owed PROVE Shown(i)' \/ i \in IdsOf(rest)'
  <2>1. Shown(i) \/ i \in IdsOf(rest)
    BY <1>1 DEF ViewInv, PromiseKept
  <2>2. i \in Ids
    BY Numbers DEF ChannelInv1, OwedOK, PlainOK, Ids
  <2> QED BY <1>1, <1>4, <2>1, <2>2 DEF Shown, IdsOf
<1>9. PromiseKept'
  BY <1>1, <1>8 DEF PromiseKept
<1> QED BY <1>1, <1>6, <1>7, <1>9 DEF ViewInv, IdleEmpty

LEMMA TurnView ==
  ASSUME ChannelInv1, ViewInv, BeginTurn \/ EndTurn \/ Decide, "other_page" \notin ChannelHazards
  PROVE  ViewInv'
<1>1. UNCHANGED <<told, page, rest, patch, cursor, streamed, listed, owed>>
  BY DEF BeginTurn, EndTurn, Decide
<1>2. CASE BeginTurn \/ Decide
  BY <1>1, <1>2 DEF BeginTurn, Decide, ViewInv, IdleEmpty, CursorOK, RestNew, StreamedOnce, PromiseKept, Shown,
     Shift, IdsOf
<1>3. CASE EndTurn
  <2>1. CASE page = "away"
    BY <1>1, <1>3, <2>1 DEF EndTurn, Forgotten, ViewInv, IdleEmpty, CursorOK, RestNew, StreamedOnce,
       PromiseKept, Shown
  <2>2. CASE page # "away"
    BY <1>1, <1>3, <2>2 DEF EndTurn, ViewInv, IdleEmpty, CursorOK, RestNew, StreamedOnce, PromiseKept, Shown,
       Shift, IdsOf
  <2> QED BY <2>1, <2>2
<1> QED BY <1>2, <1>3

LEMMA DropView ==
  ASSUME ChannelInv1, ViewInv, Drop, "late_drop" \notin ChannelHazards
  PROVE  ViewInv'
<1>1. /\ page # "away" /\ page' = "away" /\ rest' = {} /\ CursorBehind
      /\ UNCHANGED <<active, gate, told, cursor, streamed, listed, owed>>
  BY DEF Drop, Attached
<1>2. RestNew' /\ StreamedOnce'
  BY <1>1 DEF ViewInv, RestNew, StreamedOnce
<1>3. CASE ~active
  <2>1. ring' = <<>>
    BY <1>1, <1>3 DEF Drop, Forgotten, ChannelInv1, GateOK
  <2> QED BY <1>1, <1>2, <1>3, <2>1 DEF ViewInv, IdleEmpty, CursorOK, PromiseKept
<1>4. CASE active
  <2>1. UNCHANGED <<seq, ring>> /\ Shift' = Shift
    BY <1>1, <1>4 DEF Drop, Shift
  <2>2. CursorOK' /\ IdleEmpty'
    BY <1>1, <1>4, <2>1 DEF ViewInv, CursorOK, IdleEmpty
  <2>3. ASSUME cursor > 0, NEW i \in owed PROVE Shown(i) \/ i > cursor + Shift
    <3>1. Shown(i) \/ ((patch \/ page = "replay") /\ \A f \in rest : f.seq > cursor)
      BY <1>1, <2>3, Numbers DEF CursorBehind, ViewInv, PromiseKept, ChannelInv1, PlainOK
    <3>2. ASSUME patch \/ page = "replay", \A f \in rest : f.seq > cursor
          PROVE  Shown(i) \/ i > cursor + Shift
      <4>1. Shown(i) \/ i \in IdsOf(rest)
        BY <1>1, <3>2 DEF ViewInv, PromiseKept, ChannelInv1, PlainOK
      <4>2. \A f \in rest : f.id = f.seq + Shift /\ f.seq \in Nat /\ Shift \in Nat /\ cursor \in Nat
        BY Numbers DEF ChannelInv1, RestOK, Frames, PlainOK
      <4> QED BY <3>2, <4>1, <4>2 DEF IdsOf
    <3> QED BY <3>1, <3>2
  <2>4. PromiseKept'
    BY <1>1, <2>1, <2>3 DEF PromiseKept, Shown
  <2> QED BY <1>2, <2>2, <2>4 DEF ViewInv
<1> QED BY <1>3, <1>4

LEMMA ViewInvariant == ASSUME ChannelHazards = {} PROVE ChannelSpec => []ViewInv
<1>1. ChannelInit => ViewInv
  BY DEF ChannelInit, ViewInv, IdleEmpty, CursorOK, RestNew, StreamedOnce, PromiseKept
<1>2. ASSUME ChannelInv1, ViewInv, ChannelNext PROVE ViewInv'
  BY <1>2, EmitView, ConnectView, HandshakeView, ReplayView, TurnView, DropView DEF ChannelNext
<1>3. ASSUME ChannelInv1, ViewInv, UNCHANGED channelVars PROVE ViewInv'
  BY <1>3 DEF channelVars, ViewInv, IdleEmpty, CursorOK, RestNew, StreamedOnce, PromiseKept, Shown, Shift, IdsOf
<1>4. ChannelInv1 /\ ViewInv /\ [ChannelNext]_channelVars => ViewInv'
  BY <1>2, <1>3
<1> HIDE DEF ChannelInv1, ViewInv
<1> QED BY <1>1, <1>4, Invariant1, PTL DEF ChannelSpec

\* However a page's connections come and go and a turn emits between the steps of a
\* handshake, whatever the ring forgets, a page that is live shows all it was promised.
THEOREM NothingIsMissed == ASSUME ChannelHazards = {} PROVE ChannelSpec => []NothingMissed
<1>1. ViewInv => NothingMissed
  BY DEF ViewInv, PromiseKept, NothingMissed, Shown
<1> HIDE DEF ViewInv
<1> QED BY <1>1, ViewInvariant, PTL

\* No event is rendered twice on one pane: what is replayed lies after the cursor and was
\* buffered before the page was attached, what comes live was not.
THEOREM StreamedAtMostOnce == ASSUME ChannelHazards = {} PROVE ChannelSpec => []StreamedOnce
<1>1. ViewInv => StreamedOnce
  BY DEF ViewInv
<1> HIDE DEF ViewInv
<1> QED BY <1>1, ViewInvariant, PTL
=============================================================================
