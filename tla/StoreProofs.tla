----------------------------- MODULE StoreProofs -----------------------------
(***************************************************************************)
(* What holds of the chats, shares and results on disk, for any chats,     *)
(* tokens, caps, places and reports, and any number of writes.             *)
(***************************************************************************)
EXTENDS ChatStore, ResultStore, FiniteSetTheorems, FunctionTheorems, TLAPS
-----------------------------------------------------------------------------
(* The retention pass. *)

\* The items of one area can be told apart by their modification times.
Datable(items) ==
  /\ IsFiniteSet(items)
  /\ \A i \in items : i.mtime \in Nat
  /\ \A i, j \in items : i # j => i.mtime # j.mtime

\* An item's place in the order is the number of items that are not newer.
LEMMA OldestFirstExists ==
  ASSUME NEW S, Datable(S)
  PROVE  \E line \in [1..Cardinality(S) -> S] :
           \A m, n \in 1..Cardinality(S) : m < n => line[m].mtime < line[n].mtime
<1> DEFINE N == Cardinality(S)
           upTo(s) == {u \in S : u.mtime <= s.mtime}
           rank == [s \in S |-> Cardinality(upTo(s))]
<1>1. IsFiniteSet(S) /\ N \in Nat
  BY FS_CardinalityType DEF Datable
<1>2. ASSUME NEW s \in S PROVE IsFiniteSet(upTo(s)) /\ rank[s] \in 1..N
  <2>1. upTo(s) \in SUBSET S /\ s \in upTo(s)
    BY DEF Datable
  <2>2. IsFiniteSet(upTo(s)) /\ Cardinality(upTo(s)) <= N /\ Cardinality(upTo(s)) \in Nat
    BY <1>1, <2>1, FS_Subset, FS_CardinalityType
  <2>3. Cardinality(upTo(s)) # 0
    BY <2>1, <2>2, FS_EmptySet
  <2> QED BY <1>1, <2>2, <2>3
<1>3. ASSUME NEW s \in S, NEW u \in S, s.mtime < u.mtime PROVE rank[s] < rank[u]
  <2>1. upTo(s) \in SUBSET upTo(u)
    BY <1>3 DEF Datable
  <2>2. u \in upTo(u) /\ u \notin upTo(s)
    BY <1>3 DEF Datable
  <2>3. upTo(s) # upTo(u)
    BY <2>2
  <2>4. rank[s] = Cardinality(upTo(s)) /\ rank[u] = Cardinality(upTo(u))
    OBVIOUS
  <2> HIDE DEF upTo, rank
  <2>5. Cardinality(upTo(s)) <= Cardinality(upTo(u)) /\ Cardinality(upTo(s)) # Cardinality(upTo(u))
    BY <1>2, <2>1, <2>3, FS_Subset
  <2>6. rank[s] \in Nat /\ rank[u] \in Nat
    BY <1>1, <1>2
  <2> QED BY <2>4, <2>5, <2>6
<1> HIDE DEF rank, upTo
<1>4. rank \in [S -> 1..N]
  BY <1>2 DEF rank
<1>5. \A s, u \in S : rank[s] = rank[u] => s = u
  <2> SUFFICES ASSUME NEW s \in S, NEW u \in S, s # u PROVE rank[s] # rank[u]
    OBVIOUS
  <2>1. s.mtime < u.mtime \/ u.mtime < s.mtime
    BY DEF Datable
  <2>2. rank[s] \in Nat /\ rank[u] \in Nat
    BY <1>2
  <2> QED BY <1>3, <2>1, <2>2
<1>6. rank \in Injection(S, 1..N)
  BY <1>4, <1>5 DEF Injection, IsInjective
<1>7. IsFiniteSet(1..N) /\ Cardinality(1..N) = N
  BY <1>1, FS_Interval
<1>8. rank \in Surjection(S, 1..N)
  BY <1>6, <1>7, FS_Injection
<1>9. \A n \in 1..N : \E s \in S : rank[s] = n
  BY <1>8 DEF Surjection
<1> DEFINE line == [n \in 1..N |-> CHOOSE s \in S : rank[s] = n]
<1>10. \A n \in 1..N : line[n] \in S /\ rank[line[n]] = n
  BY <1>9
<1>11. line \in [1..N -> S]
  BY <1>10
<1> HIDE DEF line
<1>12. ASSUME NEW m \in 1..N, NEW n \in 1..N, m < n PROVE line[m].mtime < line[n].mtime
  <2>1. line[m] \in S /\ line[n] \in S /\ rank[line[m]] < rank[line[n]]
    BY <1>10, <1>12
  <2>2. line[m].mtime \in Nat /\ line[n].mtime \in Nat
    BY <2>1 DEF Datable
  <2>3. ASSUME line[m].mtime = line[n].mtime PROVE FALSE
    <3>1. line[m] = line[n]
      BY <2>1, <2>3 DEF Datable
    <3> QED BY <1>1, <1>10, <1>12, <3>1
  <2>4. ASSUME line[n].mtime < line[m].mtime PROVE FALSE
    <3>1. rank[line[n]] < rank[line[m]]
      BY <1>3, <2>1, <2>4
    <3>2. n < m
      BY <1>10, <3>1
    <3> QED BY <1>1, <1>12, <3>2
  <2> QED BY <2>2, <2>3, <2>4
<1> QED BY <1>11, <1>12

\* Under a count cap alone, with nothing active: what is removed is older than as many items
\* as the cap allows, all of which are kept.
LEMMA PrunedLeavesNewer ==
  ASSUME NEW S, Datable(S), NEW K \in Nat, NEW now,
         \A i \in S : ~i.active,
         \A i, j \in S : i.id = j.id => i = j,
         NEW s \in S, s.id \in Pruned(S, [age |-> 0, items |-> K, bytes |-> 0], now)
  PROVE  \E kept \in SUBSET S :
           /\ IsFiniteSet(kept) /\ Cardinality(kept) = K
           /\ \A k \in kept : /\ s.mtime < k.mtime
                              /\ k.id \notin Pruned(S, [age |-> 0, items |-> K, bytes |-> 0], now)
<1> DEFINE caps == [age |-> 0, items |-> K, bytes |-> 0]
           line == OldestFirst(S)
           N == Cardinality(S)
           gone == {n \in 1..N : K > 0 /\ n + K <= N}
<1>1. N \in Nat
  BY FS_CardinalityType DEF Datable
<1>2. S = {i \in S : ~i.active}
  OBVIOUS
<1>3. /\ line \in [1..N -> S]
      /\ \A m, n \in 1..N : m < n => line[m].mtime < line[n].mtime
  <2>1. line = CHOOSE l \in [1..N -> S] : \A m, n \in 1..N : m < n => l[m].mtime < l[n].mtime
    BY <1>2 DEF OldestFirst
  <2> HIDE DEF line
  <2> QED BY <2>1, OldestFirstExists
<1> HIDE DEF line
<1>4. DOMAIN line = 1..N /\ Len(line) = N
  BY <1>1, <1>3
<1>5. TooOld(line, caps, now) = {}
  BY DEF TooOld
<1>6. Overflow(line, caps) = gone
  BY <1>4 DEF Overflow
<1>7. Pruned(S, caps, now) = {line[n].id : n \in gone}
  <2>1. \A l, g : OverBytes(l, caps, g) = g
    BY DEF OverBytes
  <2>2. Pruned(S, caps, now) = {line[n].id : n \in OverBytes(line, caps, TooOld(line, caps, now) \cup Overflow(line, caps))}
    BY DEF Pruned, line
  <2>3. TooOld(line, caps, now) \cup Overflow(line, caps) = gone
    BY <1>5, <1>6
  <2> HIDE DEF caps
  <2> QED BY <2>1, <2>2, <2>3
<1>8. PICK n \in gone : s = line[n]
  <2>1. PICK n \in gone : s.id = line[n].id
    BY <1>7
  <2>2. line[n] \in S
    BY <1>3, <2>1
  <2> QED BY <2>1, <2>2
<1>9. n \in 1..N /\ n + K <= N /\ N - K \in Nat /\ n <= N - K
  BY <1>1, <1>8
<1> DEFINE places == (N - K + 1)..N
           kept == {line[m] : m \in places}
<1>10. \A m \in places : m \in 1..N /\ n < m /\ m \notin gone
  BY <1>1, <1>9
<1>11. \A m, o \in 1..N : line[m] = line[o] => m = o
  <2> SUFFICES ASSUME NEW m \in 1..N, NEW o \in 1..N, m # o PROVE line[m] # line[o]
    OBVIOUS
  <2>1. m < o \/ o < m
    BY <1>1
  <2>2. line[m] \in S /\ line[o] \in S /\ line[m].mtime \in Nat /\ line[o].mtime \in Nat
    BY <1>3 DEF Datable
  <2>3. line[m].mtime < line[o].mtime \/ line[o].mtime < line[m].mtime
    BY <1>3, <2>1
  <2> QED BY <2>2, <2>3
<1>12. IsFiniteSet(places) /\ Cardinality(places) = K
  <2>1. N - K + 1 \in Int /\ N \in Int /\ (IF N - K + 1 > N THEN 0 ELSE N - (N - K + 1) + 1) = K
    BY <1>1, <1>9
  <2> QED BY <2>1, FS_Interval
<1> HIDE DEF places
<1>13. IsFiniteSet(kept) /\ Cardinality(kept) = K
  <2> DEFINE f == [m \in places |-> line[m]]
  <2>1. f \in Bijection(places, kept)
    <3>1. f \in [places -> kept]
      OBVIOUS
    <3>2. \A m, o \in places : f[m] = f[o] => m = o
      BY <1>10, <1>11
    <3>3. \A k \in kept : \E m \in places : f[m] = k
      OBVIOUS
    <3> HIDE DEF f, kept
    <3> QED BY <3>1, <3>2, <3>3 DEF Bijection, Injection, Surjection, IsInjective
  <2> HIDE DEF f
  <2>2. ExistsBijection(places, kept)
    BY <2>1 DEF ExistsBijection
  <2> HIDE DEF kept
  <2> QED BY <1>12, <2>2, FS_Bijection
<1>14. ASSUME NEW k \in kept PROVE k \in S /\ s.mtime < k.mtime /\ k.id \notin Pruned(S, caps, now)
  <2>1. PICK m \in places : k = line[m]
    OBVIOUS
  <2>2. k \in S /\ s.mtime < k.mtime
    BY <1>3, <1>8, <1>9, <1>10, <2>1
  <2>3. ASSUME NEW o \in gone, k.id = line[o].id PROVE FALSE
    <3>1. line[o] \in S /\ k = line[o]
      BY <1>3, <2>2, <2>3
    <3>2. m = o
      BY <1>10, <1>11, <2>1, <3>1
    <3> QED BY <1>10, <3>2
  <2> QED BY <1>7, <2>2, <2>3
<1> HIDE DEF kept
<1> QED BY <1>13, <1>14

-----------------------------------------------------------------------------
(* The chats. *)

\* What the chats' variables hold; a chat's turn and file are a minted chat's.
ChatsKept ==
  /\ live \subseteq minted /\ minted \subseteq ChatIds /\ Saved \subseteq minted
  /\ text \in [ChatIds -> 0..MaxMessages] /\ writes \in 0..MaxWrites
  /\ disk \in [ChatIds -> [messages : 0..MaxMessages, at : 0..MaxWrites]]
  /\ task \in [ChatIds -> {"none", "running", "cancelled"}]
  /\ \A c \in ChatIds : task[c] # "none" => c \in minted
  /\ saving \subseteq minted /\ \A c, d \in saving : c = d

\* A server that is down holds nothing in memory.
DownIsEmpty ==
  ~serving => live = {} /\ saving = {} /\ \A c \in ChatIds : task[c] = "none"
\* No two snapshots were written at once.
SavedApart ==
  /\ \A c \in ChatIds : disk[c].at <= writes
  /\ \A c, d \in Saved : c # d => disk[c].at # disk[d].at
\* Whoever can write a chat's snapshot holds at least what the snapshot has.
HoldersAhead ==
  \A c \in Saved : c \in live \cup saving \/ task[c] # "none" => disk[c].messages <= text[c]

ChatsInv == ChatsKept /\ DownIsEmpty /\ SavedApart /\ HoldersAhead

LEMMA ChatsInit == StoreInit => ChatsInv
  BY ChatStoreAssumption
     DEF StoreInit, ChatsInv, ChatsKept, DownIsEmpty, SavedApart, HoldersAhead, Saved, NoFile

\* A step that leaves the files alone: nobody takes hold of a chat with less than its snapshot.
LEMMA QuietStep ==
  ASSUME ChatsInv, ChatsKept', DownIsEmpty', UNCHANGED <<disk>>, writes <= writes', writes' \in Nat,
         \A c \in Saved : c \in (live \cup saving)' \/ task'[c] # "none" => disk[c].messages <= text'[c]
  PROVE  ChatsInv'
<1>1. Saved' = Saved
  BY DEF Saved
<1>2. SavedApart'
  <2>1. \A c \in ChatIds : disk[c].at \in Nat /\ writes \in Nat
    BY DEF ChatsInv, ChatsKept
  <2> QED BY <1>1, <2>1 DEF ChatsInv, SavedApart
<1>3. HoldersAhead'
  BY <1>1 DEF HoldersAhead
<1> QED BY <1>2, <1>3 DEF ChatsInv

\* os.replace writes no less than the snapshot it replaces, later than every other one.
LEMMA ReplaceKeeps ==
  ASSUME ChatsInv, NEW c \in ChatIds, Replace(c)
  PROVE  /\ ChatsInv'
         /\ disk' = [disk EXCEPT ![c] = [messages |-> text[c], at |-> writes + 1]]
         /\ c \in Saved => disk[c].messages <= text[c]
<1> USE DEF ChatsInv, ChatsKept
<1>1. /\ serving /\ c \in saving /\ writes < MaxWrites /\ writes' = writes + 1 /\ saving' = {}
      /\ disk' = [disk EXCEPT ![c] = [messages |-> text[c], at |-> writes + 1]]
      /\ UNCHANGED <<serving, live, text, minted, task>>
  BY DEF Replace
<1>2. writes \in Nat /\ MaxWrites \in Nat /\ writes + 1 \in 0..MaxWrites /\ text[c] \in 0..MaxMessages
  BY <1>1, ChatStoreAssumption
<1>3. disk' \in [ChatIds -> [messages : 0..MaxMessages, at : 0..MaxWrites]]
  BY <1>1, <1>2
<1>4. /\ disk'[c].at = writes + 1 /\ disk'[c].messages = text[c]
      /\ \A d \in ChatIds \ {c} : disk'[d] = disk[d]
  BY <1>1
<1>5. \A d \in ChatIds : disk[d].at \in Nat
  OBVIOUS
<1>6. Saved' = Saved \cup {c}
  <2>1. writes + 1 > 0
    BY <1>2
  <2> QED BY <1>4, <2>1 DEF Saved
<1>7. ChatsKept'
  <2>1. Saved' \subseteq minted'
    BY <1>1, <1>6
  <2> QED BY <1>1, <1>2, <1>3, <2>1
<1>8. SavedApart'
  <2>1. \A d \in ChatIds \ {c} : disk'[d].at <= writes
    BY <1>4 DEF SavedApart
  <2>2. \A d \in ChatIds : disk'[d].at <= writes'
    BY <1>1, <1>2, <1>4, <1>5, <2>1
  <2>3. \A d \in ChatIds \ {c} : disk'[d].at # disk'[c].at
    BY <1>2, <1>4, <1>5, <2>1
  <2>4. \A d, e \in Saved \ {c} : d # e => disk'[d].at # disk'[e].at
    BY <1>4 DEF SavedApart, Saved
  <2> QED BY <1>6, <2>2, <2>3, <2>4 DEF SavedApart, Saved
<1>9. HoldersAhead'
  <2>1. \A d \in Saved \ {c} : d \in live' \cup saving' \/ task'[d] # "none" => disk'[d].messages <= text'[d]
    BY <1>1, <1>4 DEF HoldersAhead, Saved
  <2>2. disk'[c].messages <= text'[c]
    BY <1>1, <1>2, <1>4
  <2> QED BY <1>6, <2>1, <2>2 DEF HoldersAhead
<1>10. DownIsEmpty'
  BY <1>1 DEF DownIsEmpty
<1>11. c \in Saved => disk[c].messages <= text[c]
  BY <1>1 DEF HoldersAhead
<1> QED BY <1>1, <1>7, <1>8, <1>9, <1>10, <1>11

\* Deletion and pruning take files away, and whoever held a chat still holds it.
LEMMA RemovalKeeps ==
  ASSUME ChatsInv, ChatsKept', DownIsEmpty', UNCHANGED <<text, saving, writes>>, live' \subseteq live,
         \A c \in ChatIds : task'[c] # "none" => task[c] # "none",
         NEW gone, disk' = [c \in ChatIds |-> IF c \in gone THEN NoFile ELSE disk[c]]
  PROVE  ChatsInv'
<1> USE DEF ChatsInv
<1>1. Saved' = Saved \ gone
  BY DEF Saved, NoFile
<1>2. \A c \in Saved' : c \in Saved /\ disk'[c] = disk[c]
  BY <1>1 DEF Saved
<1>3. SavedApart'
  <2>1. \A c \in ChatIds : disk'[c].at <= writes
    <3>1. ASSUME NEW c \in ChatIds, c \in gone PROVE disk'[c].at <= writes
      <4>1. disk'[c].at = 0
        BY <3>1 DEF NoFile
      <4> QED BY <4>1 DEF ChatsKept
    <3>2. ASSUME NEW c \in ChatIds, c \notin gone PROVE disk'[c].at <= writes
      BY <3>2 DEF SavedApart
    <3> QED BY <3>1, <3>2
  <2> QED BY <1>2, <2>1 DEF SavedApart
<1>4. HoldersAhead'
  BY <1>2 DEF HoldersAhead, Saved
<1> QED BY <1>3, <1>4

\* Loading a chat sets its messages to its snapshot's, unless it is in memory already.
LEMMA LoadKeeps ==
  ASSUME ChatsInv, NEW c \in ChatIds, GetOrLoad(c), UNCHANGED <<minted, disk, saving, task, serving>>,
         writes <= writes', writes' \in 0..MaxWrites, serving
  PROVE  ChatsInv'
<1> USE DEF ChatsInv
<1>1. c \in minted /\ live' = live \cup {c}
  BY DEF GetOrLoad, ChatsKept
<1>2. text' = text \/ (c \notin live /\ text' = [text EXCEPT ![c] = disk[c].messages])
  BY DEF GetOrLoad
<1>3. disk[c].messages \in 0..MaxMessages /\ disk[c].messages \in Nat
  BY ChatStoreAssumption DEF ChatsKept
<1>4. text' \in [ChatIds -> 0..MaxMessages]
  BY <1>2, <1>3 DEF ChatsKept
<1>5. Saved' = Saved
  BY DEF Saved
<1>6. ChatsKept'
  BY <1>1, <1>4, <1>5 DEF ChatsKept
<1>7. ASSUME NEW d \in Saved, d \in (live \cup saving)' \/ task'[d] # "none"
      PROVE  disk[d].messages <= text'[d]
  <2>1. d \in ChatIds
    BY DEF Saved
  <2>2. CASE c \notin live /\ text' = [text EXCEPT ![c] = disk[c].messages]
    <3>1. CASE d = c
      <4>1. text'[d] = disk[d].messages
        BY <2>1, <2>2, <3>1 DEF ChatsKept
      <4> QED BY <1>3, <3>1, <4>1
    <3>2. CASE d # c
      <4>1. text'[d] = text[d]
        BY <2>1, <2>2, <3>2 DEF ChatsKept
      <4> QED BY <1>1, <1>7, <3>2, <4>1 DEF HoldersAhead
    <3> QED BY <3>1, <3>2
  <2>3. CASE text' = text
    <3>1. CASE d \in live \cup saving \/ task[d] # "none"
      BY <2>3, <3>1 DEF HoldersAhead
    <3>2. CASE ~(d \in live \cup saving \/ task[d] # "none")
      <4>1. d = c /\ c \notin live
        BY <1>1, <1>7, <3>2
      <4>2. text' = [text EXCEPT ![c] = disk[c].messages]
        BY <4>1 DEF GetOrLoad
      <4>3. text'[d] = disk[d].messages
        BY <4>1, <4>2 DEF ChatsKept
      <4> QED BY <1>3, <4>1, <4>3
    <3> QED BY <3>1, <3>2
  <2> QED BY <1>2, <2>2, <2>3
<1>8. writes' \in Nat /\ DownIsEmpty'
  BY ChatStoreAssumption DEF DownIsEmpty
<1> QED BY <1>6, <1>7, <1>8, QuietStep

\* A message more.
LEMMA SaysType ==
  ASSUME ChatsKept, NEW c \in ChatIds, Says(c)
  PROVE  /\ text' \in [ChatIds -> 0..MaxMessages]
         /\ \A d \in ChatIds : text[d] <= text'[d]
<1>1. text[c] \in Nat /\ text[c] + 1 \in 0..MaxMessages /\ text' = [text EXCEPT ![c] = text[c] + 1]
  BY ChatStoreAssumption DEF ChatsKept, Says
<1>2. \A d \in ChatIds : text[d] \in Nat
  BY DEF ChatsKept
<1>3. text' \in [ChatIds -> 0..MaxMessages]
  BY <1>1 DEF ChatsKept
<1>4. ASSUME NEW d \in ChatIds PROVE text[d] <= text'[d]
  BY <1>1, <1>2 DEF ChatsKept
<1> QED BY <1>3, <1>4

\* A turn's step: it holds the chat, and it may be about to write the snapshot.
LEMMA TurnKeeps ==
  ASSUME ChatsInv, serving, NEW c \in ChatIds, c \in live \/ task[c] # "none", saving = {},
         saving' = {c} \/ saving' = {}, UNCHANGED <<serving, live, minted, disk, writes>>,
         Says(c) \/ UNCHANGED text,
         NEW s \in {"none", "running", "cancelled"}, task' = [task EXCEPT ![c] = s]
  PROVE  ChatsInv'
<1> USE DEF ChatsInv
<1>1. c \in minted
  BY DEF ChatsKept
<1>2. text' \in [ChatIds -> 0..MaxMessages] /\ \A d \in ChatIds : text[d] <= text'[d]
  <2>1. CASE UNCHANGED text
    <3>1. \A d \in ChatIds : text[d] \in Nat
      BY DEF ChatsKept
    <3> QED BY <2>1, <3>1 DEF ChatsKept
  <2> QED BY <2>1, SaysType
<1>3. Saved' = Saved
  BY DEF Saved
<1>4. task' \in [ChatIds -> {"none", "running", "cancelled"}] /\ \A d \in ChatIds : task'[d] # "none" => d \in minted
  BY <1>1 DEF ChatsKept
<1>5. ChatsKept'
  BY <1>1, <1>2, <1>3, <1>4 DEF ChatsKept
<1>6. ASSUME NEW d \in Saved, d \in (live \cup saving)' \/ task'[d] # "none"
      PROVE  disk[d].messages <= text'[d]
  <2>1. d \in ChatIds /\ (d \in live \cup saving \/ task[d] # "none")
    BY <1>6 DEF Saved, ChatsKept
  <2>2. disk[d].messages <= text[d] /\ text[d] <= text'[d]
    BY <1>2, <2>1 DEF HoldersAhead
  <2>3. disk[d].messages \in Nat
    BY <2>1 DEF ChatsKept
  <2>4. text[d] \in Nat /\ text'[d] \in Nat
    <3>1. text \in [ChatIds -> 0..MaxMessages]
      BY DEF ChatsKept
    <3> QED BY <1>2, <2>1, <3>1
  <2> QED BY <2>2, <2>3, <2>4
<1>7. writes <= writes' /\ writes' \in Nat /\ DownIsEmpty'
  BY DEF DownIsEmpty, ChatsKept
<1> QED BY <1>5, <1>6, <1>7, QuietStep

LEMMA EraseKeeps ==
  ASSUME ChatsInv, NEW chats \in SUBSET ChatIds, Erase(chats)
  PROVE  ChatsInv'
<1> USE DEF ChatsInv
<1>1. /\ serving /\ live' = live \ chats
      /\ disk' = [c \in ChatIds |-> IF c \in chats THEN NoFile ELSE disk[c]]
      /\ task' = [c \in ChatIds |-> IF c \in chats \cap Saved /\ task[c] = "running"
                                    THEN "cancelled" ELSE task[c]]
      /\ UNCHANGED <<serving, text, minted, saving, writes>>
  BY DEF Erase, Serves
<1>2. Saved' \subseteq Saved
  BY <1>1 DEF Saved, NoFile
<1>3. NoFile \in [messages : 0..MaxMessages, at : 0..MaxWrites]
  BY ChatStoreAssumption DEF NoFile
<1>4. disk' \in [ChatIds -> [messages : 0..MaxMessages, at : 0..MaxWrites]]
  BY <1>1, <1>3 DEF ChatsKept
<1>5. /\ task' \in [ChatIds -> {"none", "running", "cancelled"}]
      /\ \A c \in ChatIds : task'[c] # "none" => task[c] # "none"
  BY <1>1 DEF ChatsKept
<1>6. ChatsKept' /\ DownIsEmpty'
  BY <1>1, <1>2, <1>4, <1>5 DEF ChatsKept, DownIsEmpty
<1> QED BY <1>1, <1>5, <1>6, RemovalKeeps

\* What the retention pass of a start removes.
Gone == Pruned({Aged(c, disk[c].at) : c \in Saved}, Caps, writes)

LEMMA StartupKeeps ==
  ASSUME ChatsInv, Startup
  PROVE  ChatsInv' /\ disk' = [c \in ChatIds |-> IF c \in Gone THEN NoFile ELSE disk[c]]
<1> USE DEF ChatsInv
<1>1. /\ ~serving /\ serving'
      /\ disk' = [c \in ChatIds |-> IF c \in Gone THEN NoFile ELSE disk[c]]
      /\ UNCHANGED <<live, text, minted, saving, writes, task>>
  BY DEF Startup, Gone
<1> HIDE DEF Gone
<1>2. Saved' \subseteq Saved
  BY <1>1 DEF Saved, NoFile
<1>3. NoFile \in [messages : 0..MaxMessages, at : 0..MaxWrites]
  BY ChatStoreAssumption DEF NoFile
<1>4. disk' \in [ChatIds -> [messages : 0..MaxMessages, at : 0..MaxWrites]]
  BY <1>1, <1>3 DEF ChatsKept
<1>5. ChatsKept' /\ DownIsEmpty'
  BY <1>1, <1>2, <1>4 DEF ChatsKept, DownIsEmpty
<1>6. ChatsInv'
  BY <1>1, <1>5, RemovalKeeps
<1> QED BY <1>1, <1>6

LEMMA ChatsNext == ChatsInv /\ [StoreNext]_storeVars => ChatsInv'
<1> SUFFICES ASSUME ChatsInv, [StoreNext]_storeVars PROVE ChatsInv'
  OBVIOUS
<1>1. ASSUME UNCHANGED <<serving, live, text, minted, disk, saving, writes, task>> PROVE ChatsInv'
  <2>1. Saved' = Saved
    BY <1>1 DEF Saved
  <2> QED BY <1>1, <2>1 DEF ChatsInv, ChatsKept, DownIsEmpty, SavedApart, HoldersAhead
<1>2. ASSUME NEW c \in ChatIds, Mint(c) PROVE ChatsInv'
  <2>1. /\ c \notin minted /\ minted' = minted \cup {c} /\ live' = live \cup {c} /\ serving
        /\ UNCHANGED <<serving, text, disk, saving, writes, task>>
    BY <1>2 DEF Mint, Serves
  <2>2. Saved' = Saved /\ c \notin Saved
    BY <2>1 DEF Saved, ChatsInv, ChatsKept
  <2>3. ChatsKept' /\ DownIsEmpty'
    BY <2>1, <2>2 DEF ChatsInv, ChatsKept, DownIsEmpty
  <2>4. writes' \in Nat /\ writes <= writes'
    BY <2>1 DEF ChatsInv, ChatsKept
  <2>5. \A d \in Saved : d \in (live \cup saving)' \/ task'[d] # "none" => disk[d].messages <= text'[d]
    BY <2>1, <2>2 DEF ChatsInv, HoldersAhead
  <2> QED BY <2>1, <2>3, <2>4, <2>5, QuietStep
<1>3. ASSUME NEW c \in ChatIds, Open(c) PROVE ChatsInv'
  BY <1>3, LoadKeeps DEF Open, Serves, ChatsInv, ChatsKept
<1>4. ASSUME NEW c \in ChatIds, NEW t \in Tokens, Share(c, t) PROVE ChatsInv'
  <2>1. /\ GetOrLoad(c) /\ serving /\ writes < MaxWrites /\ writes' = writes + 1
        /\ UNCHANGED <<serving, minted, disk, saving, task>>
    BY <1>4 DEF Share, Serves
  <2>2. writes <= writes' /\ writes' \in 0..MaxWrites
    BY <2>1, ChatStoreAssumption DEF ChatsInv, ChatsKept
  <2> QED BY <2>1, <2>2, LoadKeeps
<1>5. ASSUME NEW c \in ChatIds, Message(c) \/ TurnSaves(c) \/ StopTurn(c) \/ Unwind(c)
      PROVE  ChatsInv'
  <2>1. /\ serving /\ saving = {}
        /\ c \in live \/ task[c] # "none"
        /\ saving' = {c} \/ saving' = {}
        /\ Says(c) \/ UNCHANGED text
        /\ UNCHANGED <<serving, live, minted, disk, writes>>
    BY <1>5 DEF Message, TurnSaves, StopTurn, Unwind, Serves, Persist
  <2>2. task \in [ChatIds -> {"none", "running", "cancelled"}]
    BY DEF ChatsInv, ChatsKept
  <2>3. \E s \in {"none", "running", "cancelled"} : task' = [task EXCEPT ![c] = s]
    <3>1. CASE UNCHANGED task
      <4>1. task' = [task EXCEPT ![c] = task[c]] /\ task[c] \in {"none", "running", "cancelled"}
        BY <2>2, <3>1
      <4> QED BY <4>1
    <3> QED BY <1>5, <3>1 DEF Message, TurnSaves, StopTurn, Unwind
  <2>4. PICK s \in {"none", "running", "cancelled"} : task' = [task EXCEPT ![c] = s]
    BY <2>3
  <2> QED BY <2>1, <2>4, TurnKeeps
<1>6. ASSUME NEW c \in ChatIds, Replace(c) PROVE ChatsInv'
  BY <1>6, ReplaceKeeps
<1>7. ASSUME NEW chats \in SUBSET ChatIds, Erase(chats) PROVE ChatsInv'
  BY <1>7, EraseKeeps
<1>8. CASE Crash
  <2>1. /\ ~serving' /\ live' = {} /\ saving' = {} /\ task' = [c \in ChatIds |-> "none"]
        /\ UNCHANGED <<text, minted, disk, writes>>
    BY <1>8 DEF Crash
  <2>2. Saved' = Saved
    BY <2>1 DEF Saved
  <2>3. ChatsKept' /\ DownIsEmpty' /\ writes' \in Nat /\ writes <= writes'
    BY <2>1, <2>2 DEF ChatsInv, ChatsKept, DownIsEmpty
  <2>4. \A d \in Saved : ~(d \in (live \cup saving)' \/ task'[d] # "none")
    BY <2>1 DEF Saved
  <2> QED BY <2>1, <2>3, <2>4, QuietStep
<1>9. CASE Startup
  BY <1>9, StartupKeeps
<1>10. ASSUME NEW c \in ChatIds, RunCharts(c) PROVE ChatsInv'
  BY <1>1, <1>10 DEF RunCharts
<1>11. ASSUME NEW t \in Tokens, Revoke(t) PROVE ChatsInv'
  BY <1>1, <1>11 DEF Revoke
<1>12. ASSUME NEW c \in ChatIds, DeleteSession(c) PROVE ChatsInv'
  BY <1>7, <1>12 DEF DeleteSession
<1>13. CASE DeleteNamespace(ChatIds)
  <2>1. ChatIds \cap Saved \in SUBSET ChatIds
    OBVIOUS
  <2> QED BY <1>7, <1>13, <2>1 DEF DeleteNamespace
<1>14. CASE UNCHANGED storeVars
  BY <1>1, <1>14 DEF storeVars
<1> QED
  BY <1>2, <1>3, <1>4, <1>5, <1>6, <1>8, <1>9, <1>10, <1>11, <1>12, <1>13, <1>14 DEF StoreNext

-----------------------------------------------------------------------------
\* The snapshots of the chats as the retention pass of a start sees them.
Snapshots == {Aged(c, disk[c].at) : c \in Saved}

LEMMA SnapshotsDatable ==
  ASSUME ChatsInv, ~serving
  PROVE  /\ Datable(Snapshots)
         /\ \A i \in Snapshots : ~i.active
         /\ \A i, j \in Snapshots : i.id = j.id => i = j
<1> USE DEF ChatsInv
<1>1. ASSUME NEW c \in Saved
      PROVE  /\ c \in ChatIds /\ disk[c].at \in 1..writes /\ writes \in Nat
             /\ Aged(c, disk[c].at).id = c /\ Aged(c, disk[c].at).mtime = disk[c].at
             /\ ~Aged(c, disk[c].at).active
  <2>1. c \in ChatIds /\ disk[c].at > 0 /\ disk[c].at <= writes
    BY DEF Saved, SavedApart
  <2>2. disk[c].at \in Nat /\ writes \in Nat
    BY <2>1 DEF ChatsKept
  <2>3. live = {}
    BY DEF DownIsEmpty
  <2>4. disk[c].at \in 1..writes
    BY <2>1, <2>2
  <2> QED BY <2>1, <2>2, <2>3, <2>4 DEF Aged
<1>2. \A i, j \in Snapshots : i.id = j.id => i = j
  BY <1>1 DEF Snapshots
<1>3. \A i, j \in Snapshots : i # j => i.mtime # j.mtime
  BY <1>1 DEF Snapshots, SavedApart
<1>4. \A i \in Snapshots : i.mtime \in 1..writes /\ i.mtime \in Nat /\ ~i.active
  BY <1>1 DEF Snapshots
<1>5. IsFiniteSet(Snapshots)
  <2> DEFINE date == [i \in Snapshots |-> i.mtime]
  <2>1. date \in [Snapshots -> 1..writes]
    BY <1>4
  <2>2. \A i, j \in Snapshots : date[i] = date[j] => i = j
    BY <1>3
  <2> HIDE DEF date
  <2>3. date \in Injection(Snapshots, 1..writes)
    BY <2>1, <2>2 DEF Injection, IsInjective
  <2>4. IsFiniteSet(1..writes)
    <3>1. writes \in Int /\ 1 \in Int
      BY DEF ChatsKept
    <3> QED BY <3>1, FS_Interval
  <2> QED BY <2>3, <2>4, FS_Injection
<1> QED BY <1>2, <1>3, <1>4, <1>5 DEF Datable

\* A snapshot that a start prunes leaves as many more recent ones as the cap allows.
LEMMA PruningLeavesNewer ==
  ASSUME ChatsInv, Startup, NEW c \in Saved, c \in Gone
  PROVE  Cardinality({d \in ChatIds : disk'[d].at > disk[c].at}) >= KeepItems
<1> DEFINE s == Aged(c, disk[c].at)
           left == {d \in ChatIds : disk'[d].at > disk[c].at}
<1>1. ~serving /\ disk' = [d \in ChatIds |-> IF d \in Gone THEN NoFile ELSE disk[d]]
  BY StartupKeeps DEF Startup
<1>2. s \in Snapshots /\ s.id = c /\ s.mtime = disk[c].at /\ KeepItems \in Nat
  BY ChatStoreAssumption DEF Snapshots, Aged
<1>3. Gone = Pruned(Snapshots, [age |-> 0, items |-> KeepItems, bytes |-> 0], writes)
  BY DEF Gone, Snapshots, Caps
<1> HIDE DEF s
<1>4. PICK kept \in SUBSET Snapshots :
        /\ IsFiniteSet(kept) /\ Cardinality(kept) = KeepItems
        /\ \A k \in kept : s.mtime < k.mtime /\ k.id \notin Gone
  <2>1. s.id \in Pruned(Snapshots, [age |-> 0, items |-> KeepItems, bytes |-> 0], writes)
    BY <1>2, <1>3
  <2>2. /\ Datable(Snapshots)
        /\ \A i \in Snapshots : ~i.active
        /\ \A i, j \in Snapshots : i.id = j.id => i = j
    BY <1>1, SnapshotsDatable
  <2> HIDE DEF Snapshots, Gone
  <2> QED BY <1>2, <1>3, <2>1, <2>2, PrunedLeavesNewer
<1>5. \A k \in kept : k.id \in left
  <2> SUFFICES ASSUME NEW k \in kept PROVE k.id \in left
    OBVIOUS
  <2>1. PICK d \in Saved : k = Aged(d, disk[d].at)
    BY DEF Snapshots
  <2>2. k.id = d /\ k.mtime = disk[d].at /\ d \in ChatIds
    BY <2>1 DEF Aged, Saved
  <2>3. disk'[d] = disk[d]
    BY <1>1, <1>4, <2>2
  <2>4. disk[c].at < disk[d].at
    BY <1>2, <1>4, <2>2
  <2>5. disk[c].at \in Nat /\ disk[d].at \in Nat
    BY <2>2 DEF ChatsInv, ChatsKept, Saved
  <2> QED BY <2>2, <2>3, <2>4, <2>5
<1>6. \A k, m \in kept : k.id = m.id => k = m
  BY <1>1, SnapshotsDatable
<1>7. IsFiniteSet(left)
  <2>1. left \subseteq Saved
    <3> SUFFICES ASSUME NEW d \in left PROVE d \in Saved
      OBVIOUS
    <3>1. disk[c].at \in Nat /\ disk[d].at \in Nat
      BY DEF ChatsInv, ChatsKept, Saved
    <3>2. disk'[d].at = disk[d].at \/ disk'[d].at = 0
      BY <1>1 DEF NoFile
    <3> QED BY <3>1, <3>2 DEF Saved
  <2>2. \A d \in Saved : Aged(d, disk[d].at) \in Snapshots /\ Aged(d, disk[d].at).id = d
    BY DEF Snapshots, Aged
  <2> DEFINE item == [d \in left |-> Aged(d, disk[d].at)]
  <2>3. item \in [left -> Snapshots] /\ \A d, e \in left : item[d] = item[e] => d = e
    BY <2>1, <2>2
  <2> HIDE DEF item, left
  <2>4. item \in Injection(left, Snapshots)
    BY <2>3 DEF Injection, IsInjective
  <2>5. IsFiniteSet(Snapshots)
    BY <1>1, SnapshotsDatable DEF Datable
  <2> QED BY <2>4, <2>5, FS_Injection
<1>8. Cardinality(kept) <= Cardinality(left)
  <2> DEFINE id == [k \in kept |-> k.id]
  <2>1. id \in [kept -> left] /\ \A k, m \in kept : id[k] = id[m] => k = m
    BY <1>5, <1>6
  <2> HIDE DEF id, left
  <2>2. id \in Injection(kept, left)
    BY <2>1 DEF Injection, IsInjective
  <2> QED BY <1>7, <2>2, FS_Injection
<1>9. Cardinality(left) \in Nat
  BY <1>7, FS_CardinalityType
<1> HIDE DEF left
<1>10. Cardinality(left) >= KeepItems
  BY <1>2, <1>4, <1>8, <1>9
<1> QED BY <1>10 DEF left

LEMMA ChatsAreKept ==
  ASSUME ChatsInv, [StoreNext]_storeVars, NEW c \in Saved \ erased'
  PROVE  \/ disk'[c].at > 0 /\ disk'[c].messages >= disk[c].messages
         \/ Cardinality({d \in ChatIds : disk'[d].at > disk[c].at}) >= KeepItems
<1>0. /\ c \in ChatIds /\ disk[c].at > 0
      /\ disk[c].messages \in Nat /\ disk[c].messages >= disk[c].messages
  BY DEF Saved, ChatsInv, ChatsKept
<1> DEFINE Goal == disk'[c].at > 0 /\ disk'[c].messages >= disk[c].messages
           Newer == Cardinality({d \in ChatIds : disk'[d].at > disk[c].at}) >= KeepItems
<1>1. ASSUME disk'[c] = disk[c] PROVE Goal
  BY <1>0, <1>1
<1>2. ASSUME NEW d \in ChatIds, Replace(d) PROVE Goal
  <2>1. /\ disk' = [disk EXCEPT ![d] = [messages |-> text[d], at |-> writes + 1]]
        /\ d \in Saved => disk[d].messages <= text[d]
    BY <1>2, ReplaceKeeps
  <2>2. disk \in [ChatIds -> [messages : 0..MaxMessages, at : 0..MaxWrites]] /\ writes \in Nat /\ text[d] \in Nat
    BY DEF ChatsInv, ChatsKept
  <2>3. CASE d = c
    <3>1. disk'[c].at = writes + 1 /\ disk'[c].messages = text[c]
      BY <1>0, <2>1, <2>2, <2>3
    <3> QED BY <1>0, <2>1, <2>2, <2>3, <3>1
  <2>4. CASE d # c
    BY <1>0, <1>1, <2>1, <2>2, <2>4
  <2> QED BY <2>3, <2>4
<1>3. ASSUME NEW chats, Erase(chats) PROVE Goal
  <2>1. c \notin chats
    BY <1>3 DEF Erase
  <2>2. disk'[c] = disk[c]
    BY <1>0, <1>3, <2>1 DEF Erase
  <2> QED BY <1>1, <2>2
<1>4. ASSUME Startup PROVE Goal \/ Newer
  <2>1. CASE c \in Gone
    BY <1>4, <2>1, PruningLeavesNewer
  <2>2. CASE c \notin Gone
    <3>1. disk'[c] = disk[c]
      BY <1>0, <1>4, <2>2, StartupKeeps
    <3> QED BY <1>1, <3>1
  <2> QED BY <2>1, <2>2
<1>5. ASSUME UNCHANGED disk PROVE Goal
  BY <1>1, <1>5
<1> HIDE DEF Goal, Newer
<1>6. Goal \/ Newer
  <2>1. ASSUME NEW d \in ChatIds,
               \/ Mint(d) \/ Open(d) \/ Message(d) \/ TurnSaves(d) \/ RunCharts(d) \/ StopTurn(d)
               \/ Unwind(d) \/ \E t \in Tokens : Share(d, t)
        PROVE  UNCHANGED disk
    BY <2>1 DEF Mint, Open, Message, TurnSaves, RunCharts, StopTurn, Unwind, Persist, Share
  <2>2. ASSUME NEW t \in Tokens, Revoke(t) PROVE UNCHANGED disk
    BY <2>2 DEF Revoke
  <2>3. CASE Crash
    BY <1>5, <2>3 DEF Crash
  <2>4. CASE UNCHANGED storeVars
    BY <1>5, <2>4 DEF storeVars
  <2>5. ASSUME NEW d \in ChatIds, DeleteSession(d) PROVE Goal
    BY <1>3, <2>5 DEF DeleteSession
  <2>6. CASE DeleteNamespace(ChatIds)
    BY <1>3, <2>6 DEF DeleteNamespace
  <2>7. CASE \E d \in ChatIds : Replace(d) \/ DeleteSession(d)
    BY <1>2, <2>5, <2>7
  <2>8. StoreNext => \/ \E d \in ChatIds : Replace(d) \/ DeleteSession(d)
                     \/ DeleteNamespace(ChatIds) \/ Startup \/ UNCHANGED disk
    BY <2>1, <2>2, <2>3 DEF StoreNext, Crash
  <2> QED BY <1>4, <1>5, <2>4, <2>6, <2>7, <2>8
<1> QED BY <1>6 DEF Goal, Newer

\* Wherever the server crashes, whatever it prunes when it starts and whoever deletes chats under
\* running turns, a chat that was saved is neither lost nor set back (persist and its replace).
THEOREM SavedChatsAreKept == StoreSpec => KeptUntilErased
<1>1. ChatsInv /\ [StoreNext]_storeVars
        => [\A c \in Saved \ erased' :
              \/ disk'[c].at > 0 /\ disk'[c].messages >= disk[c].messages
              \/ Cardinality({d \in ChatIds : disk'[d].at > disk[c].at}) >= KeepItems]_storeVars
  BY ChatsAreKept
<1> HIDE DEF ChatsInv
<1> QED BY <1>1, ChatsInit, ChatsNext, PTL DEF StoreSpec, KeptUntilErased

LEMMA SharesDomain ==
  ASSUME DOMAIN shares = Tokens, [StoreNext]_storeVars PROVE (DOMAIN shares = Tokens)'
<1>1. ASSUME NEW c \in ChatIds,
             \/ Mint(c) \/ Open(c) \/ Message(c) \/ TurnSaves(c) \/ RunCharts(c) \/ StopTurn(c)
             \/ Unwind(c) \/ Replace(c) \/ DeleteSession(c)
      PROVE  UNCHANGED shares
  BY <1>1 DEF Mint, Open, Message, TurnSaves, RunCharts, StopTurn, Unwind, Replace, DeleteSession, Erase
<1>2. ASSUME NEW c \in ChatIds, NEW t \in Tokens, Share(c, t) PROVE DOMAIN shares' = Tokens
  BY <1>2 DEF Share
<1>3. ASSUME NEW t \in Tokens, Revoke(t) PROVE DOMAIN shares' = Tokens
  BY <1>3 DEF Revoke
<1>4. CASE Startup
  BY <1>4 DEF Startup
<1>5. CASE DeleteNamespace(ChatIds) \/ Crash \/ UNCHANGED storeVars
  BY <1>5 DEF DeleteNamespace, Erase, Crash, storeVars
<1> QED BY <1>1, <1>2, <1>3, <1>4, <1>5 DEF StoreNext

\* A token that is taken is never handed out again while its link lives.
LEMMA ShareStays ==
  ASSUME DOMAIN shares = Tokens, [StoreNext]_storeVars, NEW t \in Tokens, shares[t] # NoShare
  PROVE  shares'[t] \in {shares[t], NoShare}
<1>1. ASSUME NEW c \in ChatIds,
             \/ Mint(c) \/ Open(c) \/ Message(c) \/ TurnSaves(c) \/ RunCharts(c) \/ StopTurn(c)
             \/ Unwind(c) \/ Replace(c) \/ DeleteSession(c)
      PROVE  UNCHANGED shares
  BY <1>1 DEF Mint, Open, Message, TurnSaves, RunCharts, StopTurn, Unwind, Replace, DeleteSession, Erase
<1>2. ASSUME NEW c \in ChatIds, NEW u \in Tokens, Share(c, u) PROVE shares'[t] = shares[t]
  <2>1. u # t
    BY <1>2 DEF Share
  <2> QED BY <1>2, <2>1 DEF Share
<1>3. ASSUME NEW u \in Tokens, Revoke(u) PROVE shares'[t] \in {shares[t], NoShare}
  BY <1>3 DEF Revoke
<1>4. CASE Startup
  <2>1. PICK cut : shares' = [u \in Tokens |-> IF u \in cut THEN NoShare ELSE shares[u]]
    BY <1>4 DEF Startup
  <2> QED BY <2>1
<1>5. CASE DeleteNamespace(ChatIds) \/ Crash \/ UNCHANGED storeVars
  BY <1>5 DEF DeleteNamespace, Erase, Crash, storeVars
<1> QED BY <1>1, <1>2, <1>3, <1>4, <1>5 DEF StoreNext

\* A share link shows what it showed when it was made or nothing, whatever becomes of the chat
\* and of its workspace, and whoever mints tokens, revokes links or restarts the server.
THEOREM SharesAreFrozen == StoreSpec => SharesFrozen
<1>1. StoreInit => DOMAIN shares = Tokens
  BY DEF StoreInit
<1>2. DOMAIN shares = Tokens /\ [StoreNext]_storeVars => (DOMAIN shares = Tokens)'
  BY SharesDomain
<1>3. DOMAIN shares = Tokens /\ [StoreNext]_storeVars
        => [\A t \in Tokens : shares[t] # NoShare => Shown(t)' \in {Shown(t), NoShare}]_storeVars
  BY ShareStays DEF Shown
<1> QED BY <1>1, <1>2, <1>3, PTL DEF StoreSpec, SharesFrozen

-----------------------------------------------------------------------------
(* The results. *)

\* A bundle is stored under the id of what it holds.
BundlesOwnIds == \A b \in bundles : b.id = BundleId(b)

IsRecord(r) ==
  r = [id |-> r.id, report |-> r.report, path |-> r.path, at |-> r.at, bundle |-> r.bundle]

\* An id a record is linked to was taken over a report with the record's own uid, path and
\* headline. A bundle of that id need not exist any more.
LinkedToOwn(r) ==
  \A id \in r.bundle : \E e : id = BundleId(e) /\ RecordId(e.report, e.path) = r.id

RecordsOwnIds ==
  \A r \in records : IsRecord(r) /\ r.id = RecordId(r.report, r.path) /\ LinkedToOwn(r)

ResultInv == BundlesOwnIds /\ RecordsOwnIds

LEMMA StoreKeeps == ASSUME ResultInv, NEW dir \in SUBSET Places, Store(dir) PROVE ResultInv'
<1>1. BundlesOwnIds'
  BY DEF ResultInv, BundlesOwnIds, Store, BundleId
<1>2. ASSUME NEW r \in records' \ records PROVE IsRecord(r) /\ r.id = RecordId(r.report, r.path) /\ LinkedToOwn(r)
  BY <1>2 DEF Store, IsRecord, LinkedToOwn
<1> QED BY <1>1, <1>2 DEF ResultInv, RecordsOwnIds, IsRecord, LinkedToOwn

LEMMA ExportKeeps == ASSUME ResultInv, NEW attach \in BOOLEAN, ExportEnds(attach) PROVE ResultInv'
<1>1. BundlesOwnIds'
  BY DEF ResultInv, BundlesOwnIds, ExportEnds, BundleId
<1>2. ASSUME NEW r \in records, r.id = RecordId(export.report, export.path)
      PROVE  LET s == [r EXCEPT !.bundle = {BundleId(export)}]
             IN  IsRecord(s) /\ s.id = RecordId(s.report, s.path) /\ LinkedToOwn(s)
  <2> DEFINE s == [r EXCEPT !.bundle = {BundleId(export)}]
  <2>1. IsRecord(r) /\ r.id = RecordId(r.report, r.path)
    BY DEF ResultInv, RecordsOwnIds
  <2>2. /\ s = [id |-> r.id, report |-> r.report, path |-> r.path, at |-> r.at, bundle |-> {BundleId(export)}]
        /\ s.id = r.id /\ s.report = r.report /\ s.path = r.path /\ s.at = r.at /\ s.bundle = {BundleId(export)}
    BY <2>1 DEF IsRecord
  <2>3. IsRecord(s)
    BY <2>2 DEF IsRecord
  <2> HIDE DEF s
  <2>4. LinkedToOwn(s)
    BY <1>2, <2>2 DEF LinkedToOwn
  <2> QED BY <2>1, <2>2, <2>3, <2>4 DEF s
<1>3. RecordsOwnIds'
  BY <1>2 DEF ResultInv, RecordsOwnIds, ExportEnds, Linked
<1> QED BY <1>1, <1>3 DEF ResultInv

LEMMA ResultStep == ResultInv /\ [ResultNext]_resultVars => ResultInv'
<1> SUFFICES ASSUME ResultInv, [ResultNext]_resultVars PROVE ResultInv'
  OBVIOUS
<1>1. CASE \E dir \in SUBSET Places : Store(dir)
  BY <1>1, StoreKeeps
<1>2. CASE \E attach \in BOOLEAN : ExportEnds(attach)
  BY <1>2, ExportKeeps
<1>3. CASE records' \subseteq records /\ bundles' \subseteq bundles
  BY <1>3 DEF ResultInv, BundlesOwnIds, RecordsOwnIds
<1>4. \/ \E dir \in SUBSET Places : Store(dir)
      \/ \E attach \in BOOLEAN : ExportEnds(attach)
      \/ records' \subseteq records /\ bundles' \subseteq bundles
  BY DEF ResultNext, Benchmark, ExportStarts, Delete, Edit, Commit, ReadSha, ReadStatus, ForgetChat, resultVars
<1> QED BY <1>1, <1>2, <1>3, <1>4

LEMMA ResultInvariant == ResultSpec => []ResultInv
<1>1. ResultInit => ResultInv
  BY DEF ResultInit, ResultInv, BundlesOwnIds, RecordsOwnIds
<1> QED BY <1>1, ResultStep, PTL DEF ResultSpec

\* However exports, benchmarks over the same paths and commits interleave, the id of a
\* bundle stands for one report for ever, and a record is linked to bundles of its own
\* run only: the id holds the digest of the report, and the link is made by the
\* record's uid, path and headline.
THEOREM BundlesCertifyTheirRun == ResultSpec => CertifiesItsRun
<1> DEFINE Certified ==
      /\ \A old \in bundles, new \in bundles' : old.id = new.id => old.report = new.report
      /\ \A r \in records' : \A id \in r.bundle :
           \A b \in bundles' : b.id = id => b.path = r.path /\ b.report.uid = r.report.uid
                                            /\ b.report.headline = r.report.headline
<1>1. ASSUME ResultInv, ResultInv' PROVE Certified
  <2>1. \A old \in bundles, new \in bundles' : old.id = new.id => old.report = new.report
    BY <1>1 DEF ResultInv, BundlesOwnIds, BundleId
  <2>2. ASSUME NEW r \in records', NEW id \in r.bundle, NEW b \in bundles', b.id = id
        PROVE  b.path = r.path /\ b.report.uid = r.report.uid /\ b.report.headline = r.report.headline
    <3>1. b.id = BundleId(b)
      BY <1>1 DEF ResultInv, BundlesOwnIds, BundleId
    <3>2. r.id = RecordId(r.report, r.path) /\ LinkedToOwn(r)
      BY <1>1 DEF ResultInv, RecordsOwnIds, LinkedToOwn, RecordId
    <3>3. PICK e : id = BundleId(e) /\ RecordId(e.report, e.path) = r.id
      BY <3>2 DEF LinkedToOwn
    <3>4. b.path = e.path /\ b.report = e.report
      <4>1. BundleId(b) = BundleId(e)
        BY <2>2, <3>1, <3>3, Zenon
      <4> QED BY <4>1 DEF BundleId
    <3>5. e.path = r.path /\ e.report.uid = r.report.uid /\ e.report.headline = r.report.headline
      BY <3>2, <3>3 DEF RecordId
    <3> QED BY <3>4, <3>5
  <2> QED BY <2>1, <2>2
<1>2. ResultInv /\ ResultInv' => [Certified]_resultVars
  BY <1>1
<1> HIDE DEF Certified, ResultInv
<1>3. ResultSpec => [][Certified]_resultVars
  BY <1>2, ResultInvariant, PTL DEF ResultSpec
<1> QED BY <1>3 DEF CertifiesItsRun, Certified
=============================================================================
