----------------------------- MODULE StreamProofs -----------------------------
(***************************************************************************)
(* One response of the engine, for any number of tool uses, any arguments  *)
(* and any length of the watchdog: ids are paired with dispatches by what  *)
(* they ask for, a tool row follows its text, and a turn is given up only  *)
(* in silence.                                                             *)
(***************************************************************************)
EXTENDS AgentStream, FiniteSetTheorems, WellFoundedInduction, TLAPS

Entries == {"text", "call", "result"} \X Nat

TalkOK ==
  /\ written \in Nat /\ read \in 0..written /\ wire \in Seq(Entries)
  /\ wedged \in BOOLEAN /\ nudging \in BOOLEAN
ClockOK == silent \in Nat /\ quiet \in Nat /\ nudged \in BOOLEAN /\ ended \in {"no", "result", "stalled"}
ToolsOK ==
  /\ payload \in [Uses -> Payloads] /\ stage \in [Uses -> Stages] /\ pending \subseteq Uses
  /\ label \in [Uses -> Uses \cup {0}]
  /\ results \in [Uses -> Uses \cup {0}] /\ rows \in [Uses -> Uses \cup {0}]

\* A use whose tool was entered has taken an id.
Labelled == \A u \in Uses : stage[u] \in {"held", "running", "done"} => label[u] # 0

\* A result waits under an id that asked for what gave it.
OwnResults == \A u \in Uses : results[u] # 0 => payload[results[u]] = payload[u]

\* The ids that are stashed and the uses that have not taken one, among those that
\* ask for p.
Stashed(p) == {u \in pending : payload[u] = p}
Awaiting(p) == {u \in Uses : stage[u] \in {"allowed", "retracted", "called"} /\ payload[u] = p}

\* As many ids are stashed for these arguments as uses with them still have to take one:
\* a use that is never dispatched leaves its id to no other use than one that asks the same.
Paired == \A p \in Payloads : Cardinality(Stashed(p)) = Cardinality(Awaiting(p))

\* An id that has not been allowed yet is not stashed.
FreshAbsent == \A u \in pending : stage[u] # "none"

PairInv == ToolsOK /\ Labelled /\ OwnResults /\ NeverCrossLabelled /\ Paired /\ FreshAbsent

LEMMA ZeroIsNoUse == 0 \notin Uses /\ Uses \subseteq Nat /\ IsFiniteSet(Uses)
BY AgentStreamAssumption

\* Among ids there is an oldest one.
LEMMA OldestIs ==
  ASSUME NEW S, S \subseteq Uses, S # {}
  PROVE  Oldest(S) \in S /\ \A w \in S : Oldest(S) <= w
<1>1. S \subseteq Nat
  BY ZeroIsNoUse
<1>2. \E x \in S : \A y \in S : ~(<<y, x>> \in OpToRel(<, Nat))
  BY <1>1, NatLessThanWellFounded, WFMin, Zenon
<1>3. PICK x \in S : \A y \in S : ~(<<y, x>> \in OpToRel(<, Nat))
  BY <1>2
<1>4. \A y \in S : ~(y < x)
  BY <1>1, <1>3 DEF OpToRel
<1>5. \A y \in S : x <= y
  BY <1>1, <1>4
<1> QED BY <1>5 DEF Oldest

\* What is stashed and what waits is finite, whatever it asks for.
LEMMA SidesAreFinite ==
  ASSUME ToolsOK, NEW p
  PROVE  IsFiniteSet(Stashed(p)) /\ IsFiniteSet(Awaiting(p))
<1>1. Stashed(p) \subseteq Uses /\ Awaiting(p) \subseteq Uses
  BY DEF Stashed, Awaiting, ToolsOK
<1> QED BY <1>1, ZeroIsNoUse, FS_Subset

\* The id a dispatch takes was stashed for a use that asks the same.
LEMMA TakenAlike ==
  ASSUME PairInv, NEW u \in Uses, stage[u] = "called"
  PROVE  TakenId(u) \in Stashed(payload[u]) /\ TakenId(u) \in Uses
<1> DEFINE p == payload[u]
<1>1. p \in Payloads /\ u \in Awaiting(p)
  BY DEF PairInv, ToolsOK, Awaiting
<1>2. IsFiniteSet(Stashed(p)) /\ IsFiniteSet(Awaiting(p))
  BY SidesAreFinite DEF PairInv
<1>3. Cardinality(Awaiting(p)) # 0
  BY <1>1, <1>2, FS_EmptySet
<1>4. Stashed(p) # {}
  BY <1>1, <1>3, FS_EmptySet DEF PairInv, Paired
<1>5. TakenId(u) = Oldest(Stashed(p))
  BY <1>4 DEF TakenId, Stashed
<1>6. Stashed(p) \subseteq Uses
  BY DEF Stashed, PairInv, ToolsOK
<1> QED BY <1>4, <1>5, <1>6, OldestIs

\* Steps that neither stash nor take an id, nor move a use out of the three stages.
LEMMA StillPaired ==
  ASSUME PairInv, UNCHANGED <<payload, pending>>,
         \A u \in Uses : /\ stage'[u] = "none" <=> stage[u] = "none"
                         /\ stage'[u] \in {"allowed", "retracted", "called"}
                              <=> stage[u] \in {"allowed", "retracted", "called"}
  PROVE  Paired' /\ FreshAbsent'
<1>1. \A p : Stashed(p)' = Stashed(p) /\ Awaiting(p)' = Awaiting(p)
  BY DEF Stashed, Awaiting
<1>2. Paired'
  BY <1>1 DEF PairInv, Paired
<1> QED BY <1>2 DEF PairInv, FreshAbsent, ToolsOK

LEMMA AllowPairs == ASSUME PairInv, NEW u \in Uses, Allow(u) PROVE PairInv'
<1>1. /\ stage[u] = "none" /\ stage' = [stage EXCEPT ![u] = "allowed"] /\ pending' = pending \cup {u}
      /\ UNCHANGED <<payload, label, results, rows>>
  BY DEF Allow, Moved
<1>2. ToolsOK' /\ stage'[u] = "allowed" /\ \A v \in Uses \ {u} : stage'[v] = stage[v]
  BY <1>1 DEF PairInv, ToolsOK, Stages
<1>3. Labelled' /\ OwnResults' /\ NeverCrossLabelled'
  BY <1>1, <1>2 DEF PairInv, Labelled, OwnResults, NeverCrossLabelled
<1>4. u \notin pending
  BY <1>1 DEF PairInv, FreshAbsent
<1>5. ASSUME NEW p \in Payloads PROVE (Cardinality(Stashed(p)) = Cardinality(Awaiting(p)))'
  <2>1. Cardinality(Stashed(p)) = Cardinality(Awaiting(p))
    BY DEF PairInv, Paired
  <2>2. IsFiniteSet(Stashed(p)) /\ IsFiniteSet(Awaiting(p)) /\ u \notin Stashed(p) /\ u \notin Awaiting(p)
    BY <1>1, <1>4, SidesAreFinite DEF PairInv, Stashed, Awaiting
  <2>3. CASE payload[u] = p
    <3>1. Stashed(p)' = Stashed(p) \cup {u} /\ Awaiting(p)' = Awaiting(p) \cup {u}
      BY <1>1, <1>2, <2>3 DEF Stashed, Awaiting
    <3>2. /\ Cardinality(Stashed(p) \cup {u}) = Cardinality(Stashed(p)) + 1
          /\ Cardinality(Awaiting(p) \cup {u}) = Cardinality(Awaiting(p)) + 1
      BY <2>2, FS_AddElement, ZenonT(30)
    <3> QED BY <2>1, <3>1, <3>2
  <2>4. CASE payload[u] # p
    <3>1. Stashed(p)' = Stashed(p) /\ Awaiting(p)' = Awaiting(p)
      BY <1>1, <1>2, <2>4 DEF Stashed, Awaiting
    <3> QED BY <2>1, <3>1
  <2> QED BY <2>3, <2>4
<1>6. FreshAbsent'
  BY <1>1, <1>2 DEF PairInv, FreshAbsent, ToolsOK
<1> QED BY <1>2, <1>3, <1>5, <1>6 DEF PairInv, Paired

LEMMA TakePairs == ASSUME PairInv, NEW u \in Uses, Take(u) PROVE PairInv'
<1> DEFINE id == TakenId(u)
<1>1. /\ stage[u] = "called" /\ stage' = [stage EXCEPT ![u] = "held"] /\ pending' = pending \ {id}
      /\ label' = [label EXCEPT ![u] = id] /\ UNCHANGED <<payload, results, rows>>
  BY DEF Take, Moved
<1>2. id \in Stashed(payload[u]) /\ id \in Uses /\ payload[id] = payload[u] /\ id \in pending
  BY <1>1, TakenAlike DEF Stashed
<1> HIDE DEF id
<1>3. ToolsOK'
  BY <1>1, <1>2 DEF PairInv, ToolsOK, Stages
<1>4. /\ stage'[u] = "held" /\ label'[u] = id
      /\ \A v \in Uses \ {u} : stage'[v] = stage[v] /\ label'[v] = label[v]
  BY <1>1 DEF PairInv, ToolsOK
<1>5. Labelled' /\ OwnResults' /\ NeverCrossLabelled'
  <2>1. id # 0
    BY <1>2, ZeroIsNoUse
  <2> QED BY <1>1, <1>2, <1>4, <2>1 DEF PairInv, Labelled, OwnResults, NeverCrossLabelled
<1>6. ASSUME NEW p \in Payloads PROVE (Cardinality(Stashed(p)) = Cardinality(Awaiting(p)))'
  <2>1. Cardinality(Stashed(p)) = Cardinality(Awaiting(p))
    BY DEF PairInv, Paired
  <2>2. IsFiniteSet(Stashed(p)) /\ IsFiniteSet(Awaiting(p))
    BY SidesAreFinite DEF PairInv
  <2>3. CASE payload[u] = p
    <3>1. id \in Stashed(p) /\ u \in Awaiting(p)
      BY <1>1, <1>2, <2>3 DEF Awaiting
    <3>2. Stashed(p)' = Stashed(p) \ {id} /\ Awaiting(p)' = Awaiting(p) \ {u}
      BY <1>1, <1>4 DEF Stashed, Awaiting
    <3>3. /\ Cardinality(Stashed(p) \ {id}) = Cardinality(Stashed(p)) - 1
          /\ Cardinality(Awaiting(p) \ {u}) = Cardinality(Awaiting(p)) - 1
      BY <2>2, <3>1, FS_RemoveElement, ZenonT(30)
    <3> QED BY <2>1, <3>2, <3>3
  <2>4. CASE payload[u] # p
    <3>1. Stashed(p)' = Stashed(p) /\ Awaiting(p)' = Awaiting(p)
      BY <1>1, <1>2, <1>4, <2>4 DEF Stashed, Awaiting
    <3> QED BY <2>1, <3>1
  <2> QED BY <2>3, <2>4
<1>7. FreshAbsent'
  BY <1>1, <1>4 DEF PairInv, FreshAbsent, ToolsOK
<1> QED BY <1>3, <1>5, <1>6, <1>7 DEF PairInv, Paired

LEMMA MovePairs ==
  ASSUME PairInv, NEW u \in Uses, Retract(u) \/ Dispatch(u) \/ Start(u)
  PROVE  PairInv'
<1>1. PICK s \in {"retracted", "called", "running"} :
        /\ stage' = [stage EXCEPT ![u] = s]
        /\ stage[u] = IF s = "running" THEN "held" ELSE "allowed"
  BY DEF Retract, Dispatch, Start, Moved
<1>2. UNCHANGED <<payload, tools>>
  BY DEF Retract, Dispatch, Start
<1>3. ToolsOK' /\ stage'[u] = s /\ \A v \in Uses \ {u} : stage'[v] = stage[v]
  BY <1>1, <1>2 DEF PairInv, ToolsOK, Stages, tools
<1>4. Labelled' /\ OwnResults' /\ NeverCrossLabelled'
  BY <1>1, <1>2, <1>3 DEF PairInv, Labelled, OwnResults, NeverCrossLabelled, tools
<1>5. Paired' /\ FreshAbsent'
  BY <1>1, <1>2, <1>3, StillPaired DEF tools
<1> QED BY <1>3, <1>4, <1>5 DEF PairInv

LEMMA ResultPairs == ASSUME PairInv, NEW u \in Uses, Finish(u) \/ ReadResult(u) PROVE PairInv'
<1>1. PICK s \in {"done", "reported"} :
        stage' = [stage EXCEPT ![u] = s] /\ stage[u] = IF s = "done" THEN "running" ELSE "done"
  BY DEF Finish, ReadResult, Moved
<1>2. UNCHANGED <<payload, pending, label>>
  BY DEF Finish, ReadResult
<1>3. stage' \in [Uses -> Stages] /\ stage'[u] = s /\ \A v \in Uses \ {u} : stage'[v] = stage[v]
  BY <1>1 DEF PairInv, ToolsOK, Stages
<1>4. label[u] \in Uses /\ payload[label[u]] = payload[u]
  BY <1>1 DEF PairInv, Labelled, NeverCrossLabelled, ToolsOK
<1>5. /\ results' \in [Uses -> Uses \cup {0}] /\ rows' \in [Uses -> Uses \cup {0}]
      /\ OwnResults' /\ \A v \in Uses : rows'[v] # 0 => payload[rows'[v]] = payload[v]
  <2>1. CASE Finish(u)
    <3>1. results' = [results EXCEPT ![label[u]] = u] /\ rows' = rows
      BY <2>1 DEF Finish
    <3>2. /\ results' \in [Uses -> Uses \cup {0}] /\ results'[label[u]] = u
          /\ \A v \in Uses \ {label[u]} : results'[v] = results[v]
      BY <1>4, <3>1 DEF PairInv, ToolsOK
    <3> QED BY <1>2, <1>4, <3>1, <3>2 DEF PairInv, OwnResults, NeverCrossLabelled, ToolsOK
  <2>2. CASE ReadResult(u)
    <3> DEFINE r == IF results[u] # 0 THEN results[u] ELSE u
    <3>1. results' = [results EXCEPT ![u] = 0] /\ rows' = [rows EXCEPT ![u] = r]
      BY <2>2 DEF ReadResult
    <3>2. r \in Uses /\ payload[r] = payload[u]
      BY DEF PairInv, OwnResults, ToolsOK
    <3> HIDE DEF r
    <3>3. /\ results' \in [Uses -> Uses \cup {0}] /\ rows' \in [Uses -> Uses \cup {0}]
          /\ results'[u] = 0 /\ rows'[u] = r
          /\ \A v \in Uses \ {u} : results'[v] = results[v] /\ rows'[v] = rows[v]
      BY <3>1, <3>2 DEF PairInv, ToolsOK
    <3> QED BY <1>2, <3>2, <3>3 DEF PairInv, OwnResults, NeverCrossLabelled
  <2> QED BY <2>1, <2>2
<1>6. ToolsOK' /\ Labelled' /\ NeverCrossLabelled'
  BY <1>1, <1>2, <1>3, <1>5 DEF PairInv, ToolsOK, Labelled, NeverCrossLabelled
<1>7. Paired' /\ FreshAbsent'
  BY <1>1, <1>2, <1>3, StillPaired
<1> QED BY <1>5, <1>6, <1>7 DEF PairInv

LEMMA StillPairInv == ASSUME PairInv, UNCHANGED <<payload, stage, tools>> PROVE PairInv'
<1>1. Paired' /\ FreshAbsent'
  BY StillPaired DEF tools
<1> QED BY <1>1 DEF PairInv, ToolsOK, Labelled, OwnResults, NeverCrossLabelled, tools

LEMMA PairStep == PairInv /\ [StreamNext]_streamVars => PairInv'
<1>1. ASSUME PairInv, CliWrites \/ Wedge \/ ReadMessage \/ ReadEnd \/ Poll PROVE PairInv'
  BY <1>1, StillPairInv DEF CliWrites, Wedge, ReadMessage, ReadEnd, Poll
<1>2. ASSUME PairInv, UNCHANGED streamVars PROVE PairInv'
  BY <1>2, StillPairInv DEF streamVars, tools
<1> QED BY <1>1, <1>2, AllowPairs, TakePairs, MovePairs, ResultPairs DEF StreamNext

LEMMA PairInit == StreamInit => PairInv
<1> SUFFICES ASSUME StreamInit PROVE PairInv
  OBVIOUS
<1>1. \A p : Stashed(p) = {} /\ Awaiting(p) = {}
  BY DEF StreamInit, Stashed, Awaiting
<1>2. Paired
  BY <1>1 DEF Paired
<1>3. ToolsOK
  BY DEF StreamInit, ToolsOK, Stages
<1> QED BY <1>2, <1>3 DEF StreamInit, PairInv, Labelled, OwnResults, NeverCrossLabelled, FreshAbsent

LEMMA PairInvariant == StreamSpec => []PairInv
BY PairInit, PairStep, PTL DEF StreamSpec

\* Whatever is allowed and then never dispatched, and however the dispatches overtake the
\* stream, a use's events, its result and its mirrored row carry an id that asked the same.
THEOREM IdsMatchArguments == StreamSpec => []NeverCrossLabelled
<1>1. PairInv => NeverCrossLabelled
  BY DEF PairInv
<1> HIDE DEF PairInv
<1> QED BY <1>1, PairInvariant, PTL
-----------------------------------------------------------------------------
(* Messages and their order on the wire. *)

LEMMA LabelsAreNumbers == ASSUME PairInv, NEW u \in Uses PROVE label[u] \in Nat
<1>1. label[u] \in Uses \cup {0}
  BY DEF PairInv, ToolsOK
<1>2. \A v \in Uses \cup {0} : v \in Nat
  BY AgentStreamAssumption
<1> QED BY <1>1, <1>2, Zenon

LEMMA TalkStep == TalkOK /\ PairInv /\ [StreamNext]_streamVars => TalkOK'
<1> SUFFICES ASSUME TalkOK, PairInv, [StreamNext]_streamVars PROVE TalkOK'
  OBVIOUS
<1>1. CASE CliWrites
  BY <1>1 DEF CliWrites, TalkOK
<1>2. CASE ReadMessage
  <2>1. <<"text", read + 1>> \in Entries
    BY DEF TalkOK, Entries
  <2> QED BY <1>2, <2>1 DEF ReadMessage, TalkOK
<1>3. ASSUME NEW u \in Uses, Start(u) \/ Finish(u) PROVE TalkOK'
  <2>1. label[u] \in Nat
    BY LabelsAreNumbers
  <2>2. <<"call", label[u]>> \in Entries /\ <<"result", label[u]>> \in Entries
    BY <2>1 DEF Entries
  <2>3. /\ UNCHANGED <<written, read, wedged, nudging>>
        /\ wire' \in {Append(wire, <<"call", label[u]>>), Append(wire, <<"result", label[u]>>)}
    BY <1>3 DEF Start, Finish
  <2>4. wire' \in Seq(Entries)
    <3>1. wire \in Seq(Entries)
      BY DEF TalkOK
    <3>2. CASE wire' = Append(wire, <<"call", label[u]>>)
      BY <2>2, <3>1, <3>2
    <3>3. CASE wire' = Append(wire, <<"result", label[u]>>)
      BY <2>2, <3>1, <3>3
    <3> QED BY <2>3, <3>2, <3>3
  <2> QED BY <2>3, <2>4 DEF TalkOK
<1>4. ASSUME NEW u \in Uses, Allow(u) \/ Retract(u) \/ Dispatch(u) \/ Take(u) \/ ReadResult(u) PROVE TalkOK'
  BY <1>4 DEF Allow, Retract, Dispatch, Take, ReadResult, TalkOK
<1>5. CASE Wedge \/ ReadEnd \/ Poll
  BY <1>5 DEF Wedge, ReadEnd, Poll, TalkOK
<1>6. CASE UNCHANGED streamVars
  BY <1>6 DEF streamVars, TalkOK
<1> QED BY <1>1, <1>2, <1>3, <1>4, <1>5, <1>6 DEF StreamNext

\* The text of every message that was processed is on the wire.
TextsTold == \A m \in 1..read : \E n \in DOMAIN wire : wire[n] = <<"text", m>>

OrderInv == TextsTold /\ TextFirst

\* What is on the wire keeps its place when an entry is appended.
LEMMA Appended ==
  ASSUME TalkOK, NEW e \in Entries, wire' = Append(wire, e)
  PROVE  /\ DOMAIN wire' = 1..(Len(wire) + 1) /\ wire'[Len(wire) + 1] = e /\ Len(wire) \in Nat
         /\ DOMAIN wire = 1..Len(wire) /\ \A n \in 1..Len(wire) : wire'[n] = wire[n]
BY DEF TalkOK

LEMMA OrderStep == TalkOK /\ PairInv /\ OrderInv /\ [StreamNext]_streamVars => OrderInv'
<1> SUFFICES ASSUME TalkOK, PairInv, OrderInv, [StreamNext]_streamVars PROVE OrderInv'
  OBVIOUS
<1>1. ASSUME NEW e \in Entries, wire' = Append(wire, e), e[1] # "call", read' \in {read, read + 1},
             read' = read + 1 => e = <<"text", read + 1>>
      PROVE  OrderInv'
  <2>1. read \in Nat
    BY DEF TalkOK
  <2>2. TextsTold'
    <3> SUFFICES ASSUME NEW m \in 1..read' PROVE \E n \in DOMAIN wire' : wire'[n] = <<"text", m>>
      BY DEF TextsTold
    <3>1. CASE m \in 1..read
      BY <1>1, <3>1, Appended DEF OrderInv, TextsTold
    <3>2. CASE m \notin 1..read
      <4>1. read' = read + 1 /\ m = read + 1
        BY <1>1, <2>1, <3>2
      <4> QED BY <1>1, <4>1, Appended
    <3> QED BY <3>1, <3>2
  <2>3. TextFirst'
    <3> SUFFICES ASSUME NEW n \in DOMAIN wire', wire'[n][1] = "call"
                 PROVE  \E m \in 1..(n - 1) : wire'[m] = <<"text", MsgOf[wire'[n][2]]>>
      BY DEF TextFirst
    <3>1. n \in 1..Len(wire) /\ wire'[n] = wire[n] /\ Len(wire) \in Nat
      BY <1>1, Appended
    <3>2. PICK m \in 1..(n - 1) : wire[m] = <<"text", MsgOf[wire[n][2]]>>
      BY <1>1, <3>1, Appended DEF OrderInv, TextFirst
    <3>3. m \in 1..Len(wire)
      BY <3>1, <3>2
    <3> QED BY <1>1, <3>1, <3>2, <3>3, Appended
  <2> QED BY <2>2, <2>3 DEF OrderInv
<1>2. CASE ReadMessage
  <2>1. <<"text", read + 1>> \in Entries /\ <<"text", read + 1>>[1] # "call"
    BY DEF TalkOK, Entries
  <2> QED BY <1>1, <1>2, <2>1 DEF ReadMessage
<1>3. ASSUME NEW u \in Uses, Finish(u) PROVE OrderInv'
  <2>1. <<"result", label[u]>> \in Entries /\ <<"result", label[u]>>[1] # "call"
    BY LabelsAreNumbers DEF Entries
  <2>2. read' = read /\ wire' = Append(wire, <<"result", label[u]>>) /\ read \in Nat
    BY <1>3 DEF Finish, TalkOK
  <2> QED BY <1>1, <2>1, <2>2
<1>4. ASSUME NEW u \in Uses, Start(u) PROVE OrderInv'
  <2> DEFINE e == <<"call", label[u]>>
  <2>1. label[u] \in Uses /\ MsgOf[label[u]] <= read /\ stage[u] = "held"
    BY <1>4 DEF Start, Mirrored, PairInv, Labelled, ToolsOK
  <2>2. MsgOf[label[u]] \in 1..read
    BY <2>1, AgentStreamAssumption DEF TalkOK
  <2>3. e \in Entries /\ wire' = Append(wire, e) /\ read' = read
    BY <1>4, <2>1, ZeroIsNoUse DEF Start, Entries
  <2>4. e[2] = label[u]
    OBVIOUS
  <2> HIDE DEF e
  <2>5. TextsTold'
    BY <2>3, Appended DEF OrderInv, TextsTold
  <2>6. ASSUME NEW n \in DOMAIN wire', wire'[n][1] = "call"
        PROVE  \E m \in 1..(n - 1) : wire'[m] = <<"text", MsgOf[wire'[n][2]]>>
    <3>1. CASE n = Len(wire) + 1
      <4>1. PICK m \in DOMAIN wire : wire[m] = <<"text", MsgOf[label[u]]>>
        BY <2>2 DEF OrderInv, TextsTold
      <4>2. m \in 1..(n - 1) /\ wire'[m] = wire[m] /\ wire'[n] = e
        BY <2>3, <3>1, <4>1, Appended
      <4> QED BY <2>4, <4>1, <4>2
    <3>2. CASE n # Len(wire) + 1
      <4>1. n \in 1..Len(wire) /\ wire'[n] = wire[n] /\ Len(wire) \in Nat
        BY <2>3, <3>2, Appended
      <4>2. PICK m \in 1..(n - 1) : wire[m] = <<"text", MsgOf[wire[n][2]]>>
        BY <2>3, <2>6, <4>1, Appended DEF OrderInv, TextFirst
      <4>3. m \in 1..Len(wire)
        BY <4>1, <4>2
      <4> QED BY <2>3, <4>1, <4>2, <4>3, Appended
    <3> QED BY <3>1, <3>2
  <2> QED BY <2>5, <2>6 DEF OrderInv, TextFirst
<1>5. ASSUME UNCHANGED <<wire, read>> PROVE OrderInv'
  BY <1>5 DEF OrderInv, TextsTold, TextFirst
<1>6. ASSUME NEW u \in Uses, Allow(u) \/ Retract(u) \/ Dispatch(u) \/ Take(u) \/ ReadResult(u)
      PROVE  OrderInv'
  BY <1>5, <1>6 DEF Allow, Retract, Dispatch, Take, ReadResult
<1>7. CASE CliWrites \/ Wedge \/ ReadEnd \/ Poll \/ UNCHANGED streamVars
  BY <1>5, <1>7 DEF CliWrites, Wedge, ReadEnd, Poll, streamVars
<1> QED BY <1>2, <1>3, <1>4, <1>6, <1>7 DEF StreamNext

LEMMA TalkInit == StreamInit => TalkOK /\ OrderInv
<1> SUFFICES ASSUME StreamInit PROVE TalkOK /\ OrderInv
  OBVIOUS
<1>1. wire = <<>> /\ read = 0 /\ written = 0 /\ wedged = FALSE /\ nudging \in BOOLEAN
  BY DEF StreamInit
<1>2. wire \in Seq(Entries) /\ DOMAIN wire = {} /\ 1..read = {}
  BY <1>1
<1>3. TalkOK
  <2>1. 0 \in Nat /\ 0 \in 0..0 /\ FALSE \in BOOLEAN
    OBVIOUS
  <2>2. written \in Nat /\ read \in 0..written /\ wedged \in BOOLEAN
    BY <1>1, <2>1, Zenon
  <2> QED BY <1>1, <1>2, <2>2, Zenon DEF TalkOK
<1>4. OrderInv
  BY <1>2, Zenon DEF OrderInv, TextsTold, TextFirst
<1> QED BY <1>3, <1>4

LEMMA TalkInvariant == StreamSpec => []TalkOK
<1> HIDE DEF TalkOK, PairInv
<1> QED BY TalkInit, TalkStep, PairInvariant, PTL DEF StreamSpec

\* Dispatches and messages travel on two channels, and a dispatch may be first: still no
\* tool is announced before the text of the message whose id it took.
THEOREM TextComesFirst == StreamSpec => []TextFirst
<1>1. OrderInv => TextFirst
  BY DEF OrderInv
<1> HIDE DEF TalkOK, PairInv, OrderInv
<1> QED BY <1>1, TalkInit, OrderStep, TalkInvariant, PairInvariant, PTL DEF StreamSpec
-----------------------------------------------------------------------------
(* The watchdog. *)

\* The watchdog's own clock says how long the stream has been silent without a tool.
ClockInv ==
  /\ ClockOK /\ nudging \in BOOLEAN /\ quiet = silent
  /\ ended = "stalled" => silent >= IF nudging THEN Watchdog + 2 ELSE Watchdog

LEMMA ClockStep == ClockInv /\ [StreamNext]_streamVars => ClockInv'
<1> SUFFICES ASSUME ClockInv, [StreamNext]_streamVars PROVE ClockInv'
  OBVIOUS
<1>1. ASSUME UNCHANGED <<nudging, clock, ended>> PROVE ClockInv'
  BY <1>1 DEF ClockInv, ClockOK, clock
<1>2. ASSUME UNCHANGED <<nudging, ended>>, ended = "no", Speaks PROVE ClockInv'
  BY <1>2 DEF ClockInv, ClockOK, Speaks
<1>3. CASE Poll
  <2>1. CASE Depth > 0
    BY <1>3, <2>1 DEF Poll, PollDuringTool, ClockInv, ClockOK
  <2>2. CASE ~(Depth > 0)
    <3>1. /\ silent' = Later(silent) /\ quiet' = Later(quiet) /\ nudging' = nudging
          /\ nudged' = (nudged \/ (nudging /\ silent' >= Watchdog))
          /\ ended' = IF GivesUp(silent') THEN "stalled" ELSE "no"
      BY <1>3, <2>2 DEF Poll
    <3>2. silent' \in Nat /\ quiet' = silent' /\ nudged' \in BOOLEAN
      BY <3>1, AgentStreamAssumption DEF ClockInv, ClockOK, Later
    <3>3. GivesUp(silent') => silent' >= IF nudging THEN Watchdog + 2 ELSE Watchdog
      BY DEF GivesUp
    <3> QED BY <3>1, <3>2, <3>3 DEF ClockInv, ClockOK
  <2> QED BY <2>1, <2>2
<1>4. ASSUME NEW u \in Uses, ReadResult(u) PROVE ClockInv'
  BY <1>2, <1>4 DEF ReadResult
<1>5. ASSUME NEW u \in Uses, Allow(u) \/ Retract(u) \/ Dispatch(u) \/ Take(u) \/ Start(u) \/ Finish(u)
      PROVE  ClockInv'
  BY <1>1, <1>5 DEF Allow, Retract, Dispatch, Take, Start, Finish
<1>6. CASE ReadMessage
  BY <1>2, <1>6 DEF ReadMessage
<1>7. CASE ReadEnd
  BY <1>7 DEF ReadEnd, ClockInv, ClockOK, clock
<1>8. CASE CliWrites \/ Wedge \/ UNCHANGED streamVars
  BY <1>1, <1>8 DEF CliWrites, Wedge, streamVars, clock
<1> QED BY <1>3, <1>4, <1>5, <1>6, <1>7, <1>8 DEF StreamNext

LEMMA ClockInvariant == StreamSpec => []ClockInv
<1>1. ASSUME StreamInit PROVE ClockInv
  <2>1. silent = 0 /\ quiet = 0 /\ nudged = FALSE /\ ended = "no" /\ nudging \in BOOLEAN
    BY <1>1 DEF StreamInit
  <2> QED BY <2>1 DEF ClockInv, ClockOK
<1> QED BY <1>1, ClockStep, PTL DEF StreamSpec

\* A turn is given up only after a whole watchdog of polls, and two more where the engine
\* nudges, in each of which the stream was silent and no tool was running.
THEOREM GivesUpInSilence == StreamSpec => []StallsOnlyInSilence
<1>1. ClockInv => StallsOnlyInSilence
  BY DEF ClockInv, StallsOnlyInSilence
<1> HIDE DEF ClockInv
<1> QED BY <1>1, ClockInvariant, PTL

\* The stream keeps its types.
THEOREM StreamTypes == StreamSpec => []StreamTypeOK
<1>1. TalkOK /\ PairInv /\ ClockInv => StreamTypeOK
  BY DEF TalkOK, PairInv, ToolsOK, ClockInv, ClockOK, StreamTypeOK
<1> HIDE DEF TalkOK, PairInv, ClockInv
<1> QED BY <1>1, TalkInvariant, PairInvariant, ClockInvariant, PTL
=============================================================================
