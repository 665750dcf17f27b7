-------------------------- MODULE CommandGateProofs --------------------------
(***************************************************************************)
(* What holds of the command gate for any number of chats, calls, turns    *)
(* and slots: the cap, the access block and the shutdown.                  *)
(***************************************************************************)
EXTENDS CommandGate, FiniteSetTheorems, TLAPS

\* A call that has its turn's tool lock.
Busy(k) == phase[k] \notin {"idle", "waiting"}

KindsOK ==
  /\ phase \in [Calls -> Phases] /\ op \in [Calls -> Ops]
  /\ access \in [Chats -> {"unknown", "cleared", "blocked"}]
  /\ turn \in [Chats -> {"idle", "running", "cancelled"}]

\* Whoever changes the system, or is being reaped, holds one of the slots.
UnderWay == {k \in Calls : op[k] \in Mutating /\ phase[k] \in {"running", "reaping"}}
SlotsHeld ==
  /\ IsFiniteSet(holders) /\ Cardinality(holders) <= Slots
  /\ UnderWay \subseteq holders

\* One call of a turn at a time is past the lock, and one that was let through to its
\* gate or into the queue is still not blocked.
OnePastLock == \A j, k \in Calls : ChatOf[j] = ChatOf[k] /\ Busy(j) /\ Busy(k) => j = k
StillCleared ==
  \A k \in Calls : op[k] \in Deploys /\ phase[k] \in {"gate", "queued"} => access[ChatOf[k]] # "blocked"

\* What a call does to itself, whichever its step is.
CallMoves(k) ==
  /\ \A j \in Calls \ {k} : phase'[j] = phase[j] /\ op'[j] = op[j]
  /\ phase'[k] # "idle" => op'[k] = op[k] \/ phase[k] = "idle"
  /\ phase'[k] = "idle" => op'[k] = "read"

LEMMA CallKinds ==
  ASSUME KindsOK, NEW k \in Calls, CallNext(k)
  PROVE  KindsOK' /\ CallMoves(k) /\ UNCHANGED turnVars
<1> USE CommandGateAssumption
<1>1. ChatOf[k] \in Chats /\ turn' = turn /\ UNCHANGED turnVars
  BY DEF CallNext, Arrive, Refuse, Ask, RunUnasked, Fetch, Approve, Decline, Acquire, Exit, Timeout,
         Reaped, CancelLands, turnVars
<1>2. CASE \E p \in Phases : Moves(k, p)
  <2>1. phase' \in [Calls -> Phases] /\ op' \in [Calls -> Ops] /\ CallMoves(k)
    BY <1>2 DEF Moves, KindsOK, CallMoves, Ops
  <2>2. access' \in [Chats -> {"unknown", "cleared", "blocked"}]
    BY <1>1 DEF CallNext, Arrive, Refuse, Ask, RunUnasked, Fetch, Approve, Decline, Acquire, Exit, Timeout,
       Reaped, CancelLands, facts, KindsOK
  <2> QED BY <1>1, <2>1, <2>2 DEF KindsOK
<1>3. CASE Arrive(k)
  <2>1. PICK o \in OpsOf[k] : op' = [op EXCEPT ![k] = o]
    BY <1>3 DEF Arrive
  <2>2. o \in Ops
    BY <2>1 
  <2> QED BY <1>1, <1>3, <2>1, <2>2 DEF Arrive, KindsOK, CallMoves, facts, Phases
<1>4. Arrive(k) \/ \E p \in Phases : Moves(k, p)
  BY DEF CallNext, Arrive, Refuse, Ask, RunUnasked, Fetch, Approve, Decline, Acquire, Exit, Timeout,
         Reaped, CancelLands, Proceeds, Kill, Phases
<1> QED BY <1>2, <1>3, <1>4

LEMMA CallSlots ==
  ASSUME KindsOK, SlotsHeld, NEW k \in Calls, CallNext(k)
  PROVE  SlotsHeld'
<1> USE CommandGateAssumption
<1>1. KindsOK' /\ CallMoves(k)
  BY CallKinds
<1>2. UnderWay' \subseteq UnderWay \cup {k}
  BY <1>1 DEF UnderWay, CallMoves
<1>3. CASE holders' = holders /\ k \notin UnderWay'
  BY <1>2, <1>3 DEF SlotsHeld
<1>4. CASE holders' = holders /\ k \in UnderWay
  BY <1>2, <1>4 DEF SlotsHeld
<1>5. CASE holders' = holders \ {k} /\ k \notin UnderWay'
  <2>1. IsFiniteSet(holders') /\ Cardinality(holders') <= Cardinality(holders) /\ Cardinality(holders) \in Nat
        /\ Cardinality(holders') \in Nat
    BY <1>5, FS_Subset, FS_CardinalityType DEF SlotsHeld
  <2> QED BY <1>2, <1>5, <2>1 DEF SlotsHeld
<1>6. CASE holders' = holders \cup {k} /\ Cardinality(holders) < Slots
  <2>1. IsFiniteSet(holders) /\ Cardinality(holders) \in Nat
    BY FS_CardinalityType DEF SlotsHeld
  <2>2. IsFiniteSet(holders \cup {k}) /\ Cardinality(holders \cup {k}) <= Cardinality(holders) + 1
    <3>1. IsFiniteSet(holders \cup {k}) /\ Cardinality(holders \cup {k}) =
            IF k \in holders THEN Cardinality(holders) ELSE Cardinality(holders) + 1
      BY <2>1, FS_AddElement, ZenonT(30)
    <3> QED BY <2>1, <3>1
  <2>3. Cardinality(holders \cup {k}) \in Nat
    BY <2>2, FS_CardinalityType
  <2> QED BY <1>2, <1>6, <2>1, <2>2, <2>3 DEF SlotsHeld
<1>7. CASE Arrive(k)
  BY <1>1, <1>3, <1>7 DEF Arrive, KindsOK, UnderWay
<1>8. CASE Refuse(k) \/ Ask(k) \/ Fetch(k) \/ Decline(k)
  BY <1>1, <1>3, <1>8 DEF Refuse, Ask, Fetch, Decline, Moves, KindsOK, UnderWay
<1>9. CASE RunUnasked(k) \/ Approve(k)
  <2>1. holders' = holders /\ Proceeds(k)
    BY <1>9 DEF RunUnasked, Approve
  <2>2. k \notin UnderWay'
    BY <2>1 DEF Proceeds, Heavy, Moves, KindsOK, UnderWay
  <2> QED BY <1>3, <2>1, <2>2
<1>10. CASE Acquire(k)
  <2>1. CASE holders' = holders \cup {k}
    BY <1>6, <1>10, <2>1 DEF Acquire
  <2>2. CASE holders' = holders /\ Moves(k, "idle")
    BY <1>3, <2>2 DEF Moves, KindsOK, UnderWay
  <2> QED BY <1>10, <2>1, <2>2 DEF Acquire
<1>11. CASE Exit(k) \/ Reaped(k)
  BY <1>5, <1>11 DEF Exit, Reaped, Moves, KindsOK, UnderWay
<1>12. ASSUME phase[k] = "running", Kill(k) PROVE SlotsHeld'
  <2>1. holders' = holders /\ (k \in UnderWay' => k \in UnderWay)
    BY <1>12 DEF Kill, Moves, KindsOK, UnderWay
  <2> QED BY <1>3, <1>4, <2>1
<1>13. CASE Timeout(k)
  BY <1>12, <1>13 DEF Timeout
<1>14. CASE CancelLands(k)
  <2>1. CASE phase[k] = "running"
    BY <1>12, <1>14, <2>1 DEF CancelLands
  <2>2. CASE phase[k] # "running"
    BY <1>3, <1>14, <2>2 DEF CancelLands, Moves, KindsOK, UnderWay
  <2> QED BY <2>1, <2>2
<1> QED BY <1>7, <1>8, <1>9, <1>10, <1>11, <1>13, <1>14 DEF CallNext

LEMMA CallLock ==
  ASSUME KindsOK, OnePastLock, NEW k \in Calls, CallNext(k)
  PROVE  OnePastLock'
<1>1. CallMoves(k) /\ KindsOK'
  BY CallKinds
<1>2. CASE \A j \in CallsOf(ChatOf[k]) : ~Busy(j)
  BY <1>1, <1>2 DEF OnePastLock, CallMoves, Busy, CallsOf
<1>3. CASE Busy(k)' => Busy(k)
  BY <1>1, <1>3 DEF OnePastLock, CallMoves, Busy
<1>4. CASE Dispatched(k)
  BY <1>2, <1>4 DEF Dispatched, ToolLockFree, Busy
<1>5. CASE ~Dispatched(k)
  <2>1. phase'[k] \in {"idle", "waiting"} \/ phase[k] \in {"gate", "queued", "running", "reaping"}
    BY <1>5 DEF CallNext, Arrive, Refuse, Ask, RunUnasked, Fetch, Approve, Decline, Acquire, Exit, Timeout,
       Reaped, CancelLands, Moves, Kill, KindsOK
  <2> QED BY <1>3, <2>1 DEF Busy
<1> QED BY <1>4, <1>5

LEMMA CallCleared ==
  ASSUME KindsOK, OnePastLock, StillCleared, NEW k \in Calls, CallNext(k)
  PROVE  StillCleared'
<1> USE CommandGateAssumption
<1>1. CallMoves(k) /\ KindsOK'
  BY CallKinds
<1>2. CASE Exit(k)
  <2> SUFFICES ASSUME NEW j \in Calls, op'[j] \in Deploys, phase'[j] \in {"gate", "queued"}
               PROVE  access'[ChatOf[j]] # "blocked"
    BY DEF StillCleared
  <2>1. j # k /\ phase[j] = phase'[j] /\ op[j] = op'[j]
    BY <1>1, <1>2 DEF Exit, Moves, KindsOK, CallMoves
  <2>2. ChatOf[j] # ChatOf[k]
    BY <1>2, <2>1 DEF Exit, OnePastLock, Busy
  <2>3. access'[ChatOf[j]] = access[ChatOf[j]]
    BY <1>2, <2>2 DEF Exit, KindsOK
  <2> QED BY <2>1, <2>3 DEF StillCleared
<1>3. CASE ~Exit(k)
  <2>1. access' = access
    BY <1>3 DEF CallNext, Arrive, Refuse, Ask, RunUnasked, Fetch, Approve, Decline, Acquire, Timeout,
       Reaped, CancelLands, facts
  <2>2. CASE phase'[k] \notin {"gate", "queued"}
    BY <1>1, <2>1, <2>2 DEF StillCleared, CallMoves
  <2>3. CASE Ask(k) \/ RunUnasked(k)
    <3>1. ~GatedBlock(k)
      BY <2>3 DEF Ask, RunUnasked, Refused
    <3>2. op'[k] \in Deploys => access[ChatOf[k]] # "blocked"
      BY <1>1, <2>3, <3>1 DEF GatedBlock, CallMoves, Ask, RunUnasked, Dispatched, Deploys
    <3> QED BY <1>1, <2>1, <3>2 DEF StillCleared, CallMoves
  <2>4. CASE Approve(k)
    BY <1>1, <2>1, <2>4 DEF Approve, StillCleared, CallMoves, Deploys
  <2>5. Ask(k) \/ RunUnasked(k) \/ Approve(k) \/ phase'[k] \notin {"gate", "queued"}
    BY <1>3 DEF CallNext, Arrive, Refuse, Fetch, Decline, Acquire, Timeout, Reaped, CancelLands, Moves, Kill,
       KindsOK
  <2> QED BY <2>2, <2>3, <2>4, <2>5
<1> QED BY <1>2, <1>3

\* A call that starts its child does so from its gate, from the queue or right after
\* the check of the lock's holder.
LEMMA CallStarts ==
  ASSUME KindsOK, StillCleared, NEW k \in Calls, CallNext(k), NEW j \in Calls, j \in children' \ children,
         op[j] \in Deploys
  PROVE  access[ChatOf[j]] # "blocked"
<1>1. j = k /\ (RunUnasked(k) \/ Approve(k) \/ Acquire(k))
  BY DEF CallNext, Arrive, Refuse, Ask, RunUnasked, Fetch, Approve, Decline, Acquire, Exit, Timeout,
     Reaped, CancelLands, Kill, Proceeds
<1>2. CASE RunUnasked(k)
  BY <1>1, <1>2 DEF RunUnasked, Refused, GatedBlock
<1>3. CASE Approve(k) \/ Acquire(k)
  BY <1>1, <1>3 DEF Approve, Acquire, StillCleared
<1> QED BY <1>1, <1>2, <1>3
-----------------------------------------------------------------------------
(* The shutdown. *)

\* Every handle is one of a turn that was begun.
HandlesOK ==
  /\ gen \in [Chats -> Nat]
  /\ todo \subseteq Chats \X Nat /\ seen \subseteq Chats \X Nat
  /\ \A h \in todo \cup seen : h[2] <= gen[h[1]]

\* Children belong to running calls, those to turns; what was cancelled in an earlier pass
\* is done.
ChildrenOwned ==
  /\ children = {k \in Calls : phase[k] = "running"}
  /\ \A k \in Calls : phase[k] # "idle" => turn[ChatOf[k]] # "idle"
SweepKept ==
  /\ sweep = "up" => seen = {}
  /\ \A h \in seen \ todo : Done(h)
  /\ sweep = "swept" => Active = {} /\ ~probing

LEMMA CallChildren ==
  ASSUME KindsOK, ChildrenOwned, NEW k \in Calls, CallNext(k)
  PROVE  ChildrenOwned'
<1> USE CommandGateAssumption
<1>1. KindsOK' /\ CallMoves(k) /\ turn' = turn
  BY CallKinds DEF turnVars
<1>2. phase'[k] # "idle" => turn[ChatOf[k]] # "idle"
  BY DEF ChildrenOwned, CallNext, Arrive, Refuse, Ask, RunUnasked, Dispatched, Fetch, Approve, Decline, Acquire,
     Exit, Timeout, Reaped, CancelLands, Moves, Kill, KindsOK
<1>3. CASE phase'[k] = "running" /\ children' = children \cup {k}
  BY <1>1, <1>2, <1>3 DEF ChildrenOwned, CallMoves
<1>4. CASE phase'[k] # "running" /\ children' = children \ {k}
  BY <1>1, <1>2, <1>4 DEF ChildrenOwned, CallMoves
<1>5. CASE phase'[k] # "running" /\ phase[k] # "running" /\ children' = children
  BY <1>1, <1>2, <1>5 DEF ChildrenOwned, CallMoves
<1>6. CASE Arrive(k) \/ Refuse(k) \/ Ask(k) \/ Fetch(k) \/ Decline(k) \/ Reaped(k)
  BY <1>5, <1>6 DEF Arrive, Refuse, Ask, Fetch, Decline, Reaped, Dispatched, Moves, KindsOK
<1>7. CASE RunUnasked(k) \/ Approve(k)
  <2>1. Proceeds(k) /\ phase[k] # "running"
    BY <1>7 DEF RunUnasked, Approve, Dispatched
  <2> QED BY <1>3, <1>5, <2>1 DEF Proceeds, Moves, KindsOK
<1>8. CASE Acquire(k)
  BY <1>3, <1>5, <1>8 DEF Acquire, Moves, KindsOK
<1>9. CASE Exit(k) \/ Timeout(k)
  BY <1>4, <1>9 DEF Exit, Timeout, Kill, Moves, KindsOK
<1>10. CASE CancelLands(k)
  BY <1>4, <1>5, <1>10 DEF CancelLands, Kill, Moves, KindsOK
<1> QED BY <1>6, <1>7, <1>8, <1>9, <1>10 DEF CallNext

LEMMA CallSweep ==
  ASSUME HandlesOK, SweepKept, UNCHANGED turnVars
  PROVE  HandlesOK' /\ SweepKept'
BY DEF HandlesOK, SweepKept, turnVars, Done, Active

\* A handle that is done stays done: a later turn of its chat has a later number.
LEMMA TurnStep ==
  ASSUME KindsOK, HandlesOK, ChildrenOwned, SweepKept, NEW c \in Chats,
         StartTurn(c) \/ TurnEnds(c) \/ Stop(c)
  PROVE  KindsOK' /\ HandlesOK' /\ ChildrenOwned' /\ SweepKept'
<1> USE CommandGateAssumption
<1>1. UNCHANGED <<calls, sweep, todo, seen, probing>>
  BY DEF StartTurn, TurnEnds, Stop
<1>2. KindsOK'
  BY <1>1 DEF StartTurn, TurnEnds, Stop, KindsOK, calls
<1>3. ChildrenOwned'
  BY <1>1 DEF StartTurn, TurnEnds, Stop, KindsOK, calls, ChildrenOwned, CallsOf
<1>4. gen' \in [Chats -> Nat] /\ \A d \in Chats : gen[d] <= gen'[d]
  BY DEF StartTurn, TurnEnds, Stop, HandlesOK
<1>5. HandlesOK'
  BY <1>1, <1>4 DEF HandlesOK
<1>6. ASSUME NEW h \in seen, Done(h) PROVE Done(h)'
  <2>1. h[1] \in Chats /\ h[2] \in Nat /\ h[2] <= gen[h[1]]
    BY DEF HandlesOK
  <2>2. CASE h[1] # c
    BY <1>6, <2>1, <2>2 DEF Done, StartTurn, TurnEnds, Stop, KindsOK, HandlesOK
  <2>3. CASE h[1] = c
    BY <1>6, <2>1, <2>3 DEF Done, StartTurn, TurnEnds, Stop, KindsOK, HandlesOK
  <2> QED BY <2>2, <2>3
<1>7. sweep # "swept"
  BY DEF StartTurn, TurnEnds, Stop, SweepKept, Active
<1>8. SweepKept'
  BY <1>1, <1>6, <1>7 DEF SweepKept
<1> QED BY <1>2, <1>3, <1>5, <1>8

LEMMA ShutdownStep ==
  ASSUME KindsOK, HandlesOK, ChildrenOwned, SweepKept,
         \/ Prewarm \/ PrewarmEnds \/ BeginSweep \/ NextPass
         \/ \E h \in todo : SweepCancel(h)
  PROVE  KindsOK' /\ HandlesOK' /\ ChildrenOwned' /\ SweepKept' /\ UNCHANGED calls
<1> USE CommandGateAssumption
<1>1. CASE Prewarm \/ PrewarmEnds
  BY <1>1 DEF Prewarm, PrewarmEnds, KindsOK, HandlesOK, ChildrenOwned, SweepKept, calls, Done, Active
<1>2. \A c \in Chats : Handle(c) \in Chats \X Nat /\ Handle(c)[1] = c /\ Handle(c)[2] = gen[c] /\ gen[c] <= gen[c]
  BY DEF Handle, HandlesOK
<1>3. CASE BeginSweep
  <2>1. HandlesOK'
    BY <1>2, <1>3 DEF BeginSweep, HandlesOK, Active
  <2> QED BY <1>3, <2>1 DEF BeginSweep, KindsOK, ChildrenOwned, SweepKept, calls
<1>4. CASE NextPass
  <2>1. HandlesOK'
    BY <1>2, <1>4 DEF NextPass, HandlesOK, Active, LateHandles
  <2>2. \A h \in seen : Done(h)
    BY <1>4 DEF NextPass, SweepKept
  <2>3. LateHandles = {} => Active = {}
    BY <1>2, <2>2 DEF LateHandles, Active, Done
  <2>4. Active' = Active /\ \A h \in seen' : Done(h)'
    BY <1>4, <2>2 DEF NextPass, Active, Done
  <2>5. SweepKept'
    BY <1>4, <2>3, <2>4 DEF NextPass, SweepKept
  <2> QED BY <1>4, <2>1, <2>5 DEF NextPass, KindsOK, ChildrenOwned, calls
<1>5. ASSUME NEW h \in todo, SweepCancel(h)
      PROVE  KindsOK' /\ HandlesOK' /\ ChildrenOwned' /\ SweepKept' /\ UNCHANGED calls
  <2>1. h[1] \in Chats /\ seen' = seen \cup {h} /\ todo' = todo /\ gen' = gen
    BY <1>5 DEF HandlesOK, SweepCancel
  <2>2. HandlesOK'
    BY <2>1 DEF HandlesOK
  <2>3. turn' \in [Chats -> {"idle", "running", "cancelled"}]
        /\ \A c \in Chats : turn'[c] = "idle" <=> turn[c] = "idle"
    BY <1>5, <2>1 DEF SweepCancel, KindsOK, Done
  <2>4. KindsOK' /\ ChildrenOwned'
    BY <1>5, <2>3 DEF SweepCancel, KindsOK, ChildrenOwned, calls
  <2>5. \A g \in seen : Done(g)' <=> Done(g)
    BY <2>1, <2>3 DEF Done, HandlesOK
  <2>6. SweepKept'
    BY <1>5, <2>1, <2>5 DEF SweepKept, SweepCancel
  <2> QED BY <1>5, <2>2, <2>4, <2>6 DEF SweepCancel
<1> QED BY <1>1, <1>3, <1>4, <1>5
-----------------------------------------------------------------------------
(* The invariant, and what follows from it. *)

GateInv ==
  /\ KindsOK /\ SlotsHeld /\ OnePastLock /\ StillCleared
  /\ HandlesOK /\ ChildrenOwned /\ SweepKept

LEMMA CallsUntouched ==
  ASSUME GateInv, UNCHANGED calls
  PROVE  SlotsHeld' /\ OnePastLock' /\ StillCleared'
BY DEF GateInv, calls, SlotsHeld, UnderWay, OnePastLock, Busy, StillCleared

LEMMA GateInitially == GateInit => GateInv
<1> SUFFICES ASSUME GateInit PROVE GateInv
  OBVIOUS
<1>1. IsFiniteSet({}) /\ Cardinality({}) = 0
  BY FS_EmptySet
<1>2. SlotsHeld
  BY <1>1, CommandGateAssumption DEF GateInit, SlotsHeld, UnderWay
<1>3. KindsOK /\ OnePastLock /\ StillCleared
  BY DEF GateInit, KindsOK, Phases, Ops, OnePastLock, Busy, StillCleared
<1>4. HandlesOK /\ ChildrenOwned /\ SweepKept
  BY DEF GateInit, HandlesOK, ChildrenOwned, SweepKept
<1> QED BY <1>2, <1>3, <1>4 DEF GateInv

LEMMA GateStep == GateInv /\ [GateNext]_gateVars => GateInv'
<1> SUFFICES ASSUME GateInv, [GateNext]_gateVars PROVE GateInv'
  OBVIOUS
<1>1. CASE \E k \in Calls : CallNext(k)
  <2>1. PICK k \in Calls : CallNext(k)
    BY <1>1
  <2>2. KindsOK' /\ UNCHANGED turnVars
    BY <2>1, CallKinds DEF GateInv
  <2>3. SlotsHeld' /\ OnePastLock' /\ StillCleared' /\ ChildrenOwned'
    BY <2>1, CallSlots, CallLock, CallCleared, CallChildren DEF GateInv
  <2> QED BY <2>2, <2>3, CallSweep DEF GateInv
<1>2. CASE \E c \in Chats : StartTurn(c) \/ TurnEnds(c) \/ Stop(c)
  <2>1. PICK c \in Chats : StartTurn(c) \/ TurnEnds(c) \/ Stop(c)
    BY <1>2
  <2>2. UNCHANGED calls
    BY <2>1 DEF StartTurn, TurnEnds, Stop
  <2>3. KindsOK' /\ HandlesOK' /\ ChildrenOwned' /\ SweepKept'
    BY <2>1, TurnStep DEF GateInv
  <2> QED BY <2>2, <2>3, CallsUntouched DEF GateInv
<1>3. CASE Prewarm \/ PrewarmEnds \/ BeginSweep \/ NextPass \/ \E h \in todo : SweepCancel(h)
  <2>1. KindsOK' /\ HandlesOK' /\ ChildrenOwned' /\ SweepKept' /\ UNCHANGED calls
    BY <1>3, ShutdownStep DEF GateInv
  <2> QED BY <2>1, CallsUntouched DEF GateInv
<1>4. CASE UNCHANGED gateVars
  BY <1>4 DEF GateInv, gateVars, KindsOK, SlotsHeld, UnderWay, OnePastLock, Busy, StillCleared, HandlesOK,
     ChildrenOwned, SweepKept, Done, Active
<1> QED BY <1>1, <1>2, <1>3, <1>4 DEF GateNext

LEMMA GateInvariant == GateSpec => []GateInv
BY GateInitially, GateStep, PTL DEF GateSpec

\* However many chats ask for however many commands, those that change the system and
\* run, or are still being reaped after a kill, are never more than the slots.
THEOREM HeavyIsBounded == GateSpec => []HeavyBounded
<1>1. GateInv => HeavyBounded
  <2> SUFFICES ASSUME GateInv PROVE HeavyBounded
    OBVIOUS
  <2>1. UnderWay \in SUBSET holders /\ IsFiniteSet(holders) /\ Cardinality(holders) <= Slots
    BY DEF GateInv, SlotsHeld
  <2>2. IsFiniteSet(UnderWay) /\ Cardinality(UnderWay) <= Cardinality(holders)
    BY <2>1, FS_Subset
  <2>3. Cardinality(UnderWay) \in Nat /\ Cardinality(holders) \in Nat
    BY <2>1, <2>2, FS_CardinalityType
  <2>4. Cardinality(UnderWay) <= Slots
    BY <2>1, <2>2, <2>3, CommandGateAssumption
  <2> QED BY <2>4 DEF HeavyBounded, UnderWay
<1> QED BY <1>1, GateInvariant, PTL

\* Once a graceful shutdown is over, no turn, no child process and no probe is left, in
\* however many chats turns end and start follow-up turns while it sweeps.
THEOREM ShutdownLeavesNothing == GateSpec => []ShutdownClean
<1>1. GateInv => ShutdownClean
  BY CommandGateAssumption DEF GateInv, ShutdownClean, SweepKept, ChildrenOwned, Active
<1> QED BY <1>1, GateInvariant, PTL

\* A deploy whose chat knows its model to be blocked never gets a child process, however
\* long it was parked at its gate or queued since it was checked.
THEOREM BlockedDeploysNeverStart == GateSpec => BlockedNeverStarts
<1>1. GateInv /\ GateInv' /\ [GateNext]_gateVars =>
        [\A k \in children' \ children : op[k] \in Deploys => access[ChatOf[k]] # "blocked"]_gateVars
  <2> SUFFICES ASSUME GateInv, GateInv', GateNext, NEW j \in children' \ children, op[j] \in Deploys
               PROVE  access[ChatOf[j]] # "blocked"
    BY DEF gateVars
  <2>1. j \in Calls
    BY DEF GateInv, ChildrenOwned
  <2>2. PICK k \in Calls : CallNext(k)
    BY ShutdownStep DEF GateNext, GateInv, StartTurn, TurnEnds, Stop, calls
  <2> QED BY <2>1, <2>2, CallStarts DEF GateInv
<1> HIDE DEF GateInv
<1> QED BY <1>1, GateInvariant, PTL DEF GateSpec, BlockedNeverStarts
=============================================================================
