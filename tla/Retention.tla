----------------------------- MODULE Retention -----------------------------
(***************************************************************************)
(* Which items of a managed scratch area the retention pass removes        *)
(* (app/storage/retention.py): caps on age, count and bytes, the oldest    *)
(* first, and never an active session. An item is a record                 *)
(* [id, mtime, size, active], a set of caps a record [age, items, bytes]   *)
(* in which 0 is no cap. The modification times of an area are distinct.   *)
(***************************************************************************)
EXTENDS Naturals, Sequences, FiniteSets, SequencesExt

\* Active items are dropped up front.
OldestFirst(items) ==
  LET idle == {i \in items : ~i.active}
  IN  CHOOSE line \in [1..Cardinality(idle) -> idle] :
        \A m, n \in 1..Cardinality(idle) : m < n => line[m].mtime < line[n].mtime

Bytes(line, places) == SumFunction([n \in places |-> line[n].size])

TooOld(line, caps, now) ==
  {n \in DOMAIN line : caps.age > 0 /\ now - line[n].mtime > caps.age}

\* Bug: one item more than the cap is kept.
OverflowByOne(line, caps) == {n \in DOMAIN line : caps.items > 0 /\ n + caps.items < Len(line)}

Overflow(line, caps) == {n \in DOMAIN line : caps.items > 0 /\ n + caps.items <= Len(line)}

\* From the oldest forward, until what survives fits.
OverBytes(line, caps, gone) ==
  LET after[n \in 0..Len(line)] ==
        IF n = 0 THEN gone
        ELSE IF Bytes(line, DOMAIN line \ after[n - 1]) > caps.bytes THEN after[n - 1] \cup {n}
        ELSE after[n - 1]
  IN  IF caps.bytes = 0 THEN gone ELSE after[Len(line)]

\* The ids that gc_area removes.
Pruned(items, caps, now) ==
  LET line == OldestFirst(items)
      gone == TooOld(line, caps, now) \cup Overflow(line, caps)
  IN  {line[n].id : n \in OverBytes(line, caps, gone)}
-----------------------------------------------------------------------------
\* What the pass leaves is within every cap, and nothing more than that took is gone:
\* the oldest ones, none of them of an active session, none of which could be kept.
RemovesLeast(items, caps, now, gone) ==
  LET old  == {i \in items : i.id \in gone}
      within(kept) ==
        LET idle == {i \in kept : ~i.active}
        IN  /\ caps.age > 0 => \A i \in idle : now - i.mtime <= caps.age
            /\ caps.items > 0 => Cardinality(idle) <= caps.items
            /\ caps.bytes > 0 => SumFunction([i \in idle |-> i.size]) <= caps.bytes
  IN  /\ \A i \in old : ~i.active
      /\ \A i \in old, j \in items \ old : j.active \/ i.mtime < j.mtime
      /\ within(items \ old)
      /\ \A i \in old : (\A j \in old : j.mtime <= i.mtime) => ~within((items \ old) \cup {i})
=============================================================================
