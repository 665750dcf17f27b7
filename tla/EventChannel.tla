---------------------------- MODULE EventChannel ----------------------------
(***************************************************************************)
(* What one browser page sees of a chat's event stream: the Channel's      *)
(* sequence numbers and bounded replay buffer (app/agent/channel.py), the  *)
(* /ws handshake that chooses between patching the page's cached pane and  *)
(* rebuilding it (app/main.py), and the page's cursor (app/ui/app.js).     *)
(* The handshake is split at its awaits: a turn that runs in the           *)
(* background emits between any two of its sends.                          *)
(***************************************************************************)
EXTENDS Naturals, Sequences, FiniteSets, SequencesExt

CONSTANTS
  BufferMax,      \* LIVE_BUFFER_MAX, the length of the ring
  MaxEvents,      \* bound: events emitted over the whole run
  MaxTurns,       \* bound: turns begun
  ChannelHazards  \* which of the two exposures below the environment has

ASSUME EventChannelAssumption ==
  /\ BufferMax \in Nat \ {0} /\ MaxEvents \in Nat /\ MaxTurns \in Nat
  /\ ChannelHazards \subseteq {"late_drop", "other_page"}
     \* late_drop:  the page's connection fails while a handshake is under way
     \*             and a live frame has already moved the page's cursor
     \* other_page: another page uses the chat while this one is away

VARIABLES
  seq,       \* Channel._seq, the number of the latest buffered event
  ring,      \* Channel._buffer: the latest BufferMax frames of the turn
  active,    \* Channel._turn_active
  gate,      \* the frame id of the undecided approval, 0 when there is none
  told,      \* the kind of every event emitted so far: an id indexes it
  turns,     \* turns begun
  page,      \* how far the handshake of the page's socket has come
  rest,      \* frames of the attach-time snapshot still to be replayed, oldest first
  patch,     \* the handshake's `incremental`
  cursor,    \* the page's lastSeq
  streamed,  \* how often each frame was rendered since the pane was cleared
  listed,    \* ids rendered by the last `history` frame
  cards,     \* approval cards on the pane
  owed       \* ids the pane has been promised

channelVars == <<seq, ring, active, gate, told, turns, page, rest, patch, cursor,
                 streamed, listed, cards, owed>>
stream == <<seq, ring, active, gate, told, turns>>

Ids   == 1..MaxEvents
Kinds == {"text", "output", "gate"}
Frames == [seq : 1..MaxEvents, id : Ids]
Attached == page # "away"

\* Assistant text is appended to session.messages before it is emitted, so the
\* transcript holds exactly the texts told; console output is never in it.
Transcript == {i \in DOMAIN told : told[i] = "text"}

Keep(q) == IF Len(q) > BufferMax THEN Tail(q) ELSE q
MinBuffered == Head(ring).seq
Buffered == ToSet(ring)
IdsOf(frames) == {f.id : f \in frames}

ChannelTypeOK ==
  /\ seq \in 0..MaxEvents /\ cursor \in 0..MaxEvents /\ turns \in 0..MaxTurns
  /\ ring \in Seq(Frames) /\ Len(ring) <= BufferMax
  /\ told \in Seq(Kinds) /\ gate \in {0} \cup Ids
  /\ active \in BOOLEAN /\ patch \in BOOLEAN
  /\ page \in {"away", "greeted", "listed", "replay", "live"}
  /\ rest \subseteq Frames /\ streamed \in [Ids -> Nat]
  /\ listed \subseteq Ids /\ cards \subseteq Ids /\ owed \subseteq Ids

ChannelInit ==
  /\ seq = 0 /\ ring = <<>> /\ active = FALSE /\ gate = 0 /\ told = <<>> /\ turns = 0
  /\ page = "away" /\ rest = {} /\ patch = FALSE /\ cursor = 0
  /\ streamed = [i \in Ids |-> 0] /\ listed = {} /\ cards = {} /\ owed = {}
-----------------------------------------------------------------------------
(* The turn. *)

\* A message starts a turn; the page sends it over its attached socket.
BeginTurn ==
  /\ ~active /\ turns < MaxTurns
  /\ page = "live" \/ ("other_page" \in ChannelHazards /\ page = "away")
  /\ turns' = turns + 1 /\ active' = TRUE /\ ring' = <<>>
  /\ UNCHANGED <<seq, gate, told, page, rest, patch, cursor, streamed, listed, cards, owed>>

\* The page renders a live frame at once and moves its cursor to it.
Delivered(frame, kind) ==
  IF ~Attached THEN UNCHANGED <<cursor, streamed, cards>>
  ELSE /\ cursor' = IF cursor > frame.seq THEN cursor ELSE frame.seq
       /\ IF kind = "gate"
            THEN cards' = cards \cup {frame.id} /\ UNCHANGED streamed
            ELSE streamed' = [streamed EXCEPT ![frame.id] = @ + 1] /\ UNCHANGED cards

\* A turn parked at its gate emits nothing; a gate that opens parks the turn.
Emit(kind) ==
  /\ active /\ gate = 0 /\ Len(told) < MaxEvents
  /\ LET frame == [seq |-> seq + 1, id |-> Len(told) + 1]
     IN  /\ told' = Append(told, kind)
         /\ seq' = seq + 1
         /\ ring' = Keep(Append(ring, frame))
         /\ gate' = IF kind = "gate" THEN frame.id ELSE 0
         /\ owed' = IF kind = "gate" THEN owed ELSE owed \cup {frame.id}
         /\ Delivered(frame, kind)
  /\ UNCHANGED <<active, turns, page, rest, patch, listed>>

\* A Channel with no socket, no undecided gate and no running turn is dropped
\* from app.state.channels; the next connection makes a new one, numbered from 0.
Forgotten == seq' = 0 /\ ring' = <<>>

EndTurn ==
  /\ active /\ gate = 0
  /\ active' = FALSE
  /\ IF page = "away" THEN Forgotten ELSE UNCHANGED <<seq, ring>>
  /\ UNCHANGED <<gate, told, turns, page, rest, patch, cursor, streamed, listed, cards, owed>>

\* The user decides the gate from its card.
Decide ==
  /\ page = "live" /\ gate # 0 /\ gate \in cards
  /\ gate' = 0
  /\ UNCHANGED <<seq, ring, active, told, turns, page, rest, patch, cursor, streamed,
                 listed, cards, owed>>
-----------------------------------------------------------------------------
(* The page. *)

\* Bug: a cursor that fell off the buffer is patched from the frames still in it.
IncrementalUnbounded == cursor > 0 /\ ring # <<>> /\ cursor <= seq

\* The cursor is sent only when it is positive; the window test says whether
\* the page's pane can be patched with what it missed.
Incremental ==
  /\ cursor > 0
  /\ ring # <<>>
  /\ MinBuffered - 1 <= cursor /\ cursor <= seq

Missed(after) == {f \in Buffered : f.seq > after /\ told[f.id] # "gate"}

\* Attach: ws, the cutoff and the snapshot are taken without an await before
\* `ready` is sent. A page that is not patched clears its pane and its cursor.
Connect ==
  /\ page = "away"
  /\ page' = "greeted" /\ patch' = Incremental
  /\ IF Incremental
       THEN rest' = Missed(cursor) /\ UNCHANGED <<cursor, streamed, listed, cards, owed>>
       ELSE /\ rest' = Missed(0)
            /\ cursor' = 0 /\ streamed' = [i \in Ids |-> 0] /\ listed' = {} /\ cards' = {}
            /\ owed' = Transcript
  /\ UNCHANGED stream

\* The history is built after `ready` was sent: it lists what has been told by then.
SendHistory ==
  /\ page = "greeted" /\ ~patch
  /\ page' = "listed" /\ listed' = Transcript
  /\ UNCHANGED <<stream, rest, patch, cursor, streamed, cards, owed>>

\* Bug: the live buffer is replayed up to its head, not up to the attach cutoff.
StartReplayUncapped ==
  /\ page = IF patch THEN "greeted" ELSE "listed"
  /\ page' = "replay"
  /\ IF patch \/ active
       THEN owed' = owed \cup IdsOf(rest) /\ rest' = IF patch THEN rest ELSE Missed(0)
       ELSE rest' = {} /\ UNCHANGED owed
  /\ UNCHANGED <<stream, patch, cursor, streamed, listed, cards>>

\* A patch is replayed even when the turn has ended; a rebuilt page gets the
\* buffer only if the turn is still active after the history was sent.
StartReplay ==
  /\ page = IF patch THEN "greeted" ELSE "listed"
  /\ page' = "replay"
  /\ IF patch \/ active
       THEN owed' = owed \cup IdsOf(rest) /\ UNCHANGED rest
       ELSE rest' = {} /\ UNCHANGED owed
  /\ UNCHANGED <<stream, patch, cursor, streamed, listed, cards>>

ReplayNext(frame) ==
  /\ page = "replay" /\ \A f \in rest : frame.seq <= f.seq
  /\ streamed' = [streamed EXCEPT ![frame.id] = @ + 1]
  /\ cursor' = IF cursor > frame.seq THEN cursor ELSE frame.seq
  /\ rest' = rest \ {frame}
  /\ UNCHANGED <<stream, page, patch, listed, cards, owed>>

\* Bug: gates are left to the buffer, which the replay skips them in.
ReemitNothing ==
  /\ page = "replay" /\ rest = {}
  /\ page' = "live"
  /\ UNCHANGED <<stream, rest, patch, cursor, streamed, listed, cards, owed>>

\* The undecided gate is sent again, without a number, after the replay.
Reemit ==
  /\ page = "replay" /\ rest = {}
  /\ page' = "live"
  /\ cards' = IF gate # 0 THEN cards \cup {gate} ELSE cards
  /\ UNCHANGED <<stream, rest, patch, cursor, streamed, listed, owed>>

\* No live frame has overtaken what the handshake still has to send.
CursorBehind ==
  \/ page = "live" \/ cursor = 0
  \/ (patch \/ page = "replay") /\ \A f \in rest : f.seq > cursor

Drop ==
  /\ Attached
  /\ CursorBehind \/ "late_drop" \in ChannelHazards
  /\ page' = "away" /\ rest' = {}
  /\ IF ~active /\ gate = 0 THEN Forgotten ELSE UNCHANGED <<seq, ring>>
  /\ UNCHANGED <<active, gate, told, turns, patch, cursor, streamed, listed, cards, owed>>

ChannelNext ==
  \/ BeginTurn \/ EndTurn \/ Decide
  \/ \E kind \in Kinds : Emit(kind)
  \/ Connect \/ SendHistory \/ StartReplay \/ Reemit \/ Drop
  \/ \E frame \in rest : ReplayNext(frame)

ChannelSpec == ChannelInit /\ [][ChannelNext]_channelVars
-----------------------------------------------------------------------------
\* A page whose handshake is over shows everything it was promised: the whole
\* transcript, and every frame that was buffered or emitted since its pane was
\* last rebuilt, whatever the ring has forgotten meanwhile.
NothingMissed ==
  page = "live" => \A i \in owed : streamed[i] > 0 \/ i \in listed

\* No numbered frame is rendered twice on one pane, though the turn goes on
\* emitting to the socket while the buffer is replayed to it.
StreamedOnce == \A i \in Ids : streamed[i] <= 1

\* An attached page has the card of the gate its turn is parked at, although the
\* replay skips approval frames: without it the turn could never go on.
GateOnScreen == (page = "live" /\ gate # 0) => gate \in cards
=============================================================================
