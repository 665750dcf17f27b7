----------------------------- MODULE ChatStore -----------------------------
(***************************************************************************)
(* What survives of a chat: the sessions held in memory and their          *)
(* state.json snapshots (app/agent/session.py), the public share links     *)
(* (app/storage/share.py and their routes in app/main.py), deletion of a   *)
(* chat or of a folder, also under a running turn, and a server that       *)
(* crashes at any point and prunes its workspace when it starts again.     *)
(* The event loop is single-threaded and a persist awaits nothing, so only *)
(* a crash can come between the write of a snapshot and its replace.       *)
(***************************************************************************)
EXTENDS Retention

CONSTANTS
  ChatIds,       \* session ids the server may mint
  Tokens,        \* share tokens it may mint
  MaxMessages,   \* bound: messages of one chat
  MaxWrites,     \* bound: snapshots and shares written, the clock of this module
  KeepItems,     \* retention_max_items
  StoreHazards   \* {}, or {"late_unwind"}: chats are deleted under a running turn

ASSUME ChatStoreAssumption ==
  /\ MaxMessages \in Nat /\ MaxWrites \in Nat /\ KeepItems \in Nat
  /\ StoreHazards \subseteq {"late_unwind"}

VARIABLES
  serving,   \* the server process is up
  live,      \* SessionManager._sessions: ids of the sessions in memory
  text,      \* messages of each Session object, which a turn holds on to
  minted,    \* ids ever minted: uuid4 never yields one again
  disk,      \* state.json of each chat
  saving,    \* the chat whose persist has written its temporary file
  writes,    \* files written so far
  charts,    \* chats whose workspace holds the chart of a run
  task,      \* the turn of each chat
  shares,    \* the frozen transcript behind each token
  erased     \* chats the user deleted

storeVars == <<serving, live, text, minted, disk, saving, writes, charts, task, shares, erased>>

NoFile   == [messages |-> 0, at |-> 0]
NoShare  == [of |-> "none", messages |-> 0, chart |-> FALSE, at |-> 0]
Saved    == {c \in ChatIds : disk[c].at > 0}
Serves   == serving /\ saving = {}

StoreTypeOK ==
  /\ serving \in BOOLEAN /\ live \subseteq minted /\ minted \subseteq ChatIds
  /\ text \in [ChatIds -> 0..MaxMessages] /\ erased \subseteq minted
  /\ disk \in [ChatIds -> [messages : 0..MaxMessages, at : 0..MaxWrites]]
  /\ saving \subseteq minted /\ Cardinality(saving) <= 1 /\ writes \in 0..MaxWrites
  /\ charts \subseteq minted /\ task \in [ChatIds -> {"none", "running", "cancelled"}]
  /\ \A t \in Tokens : shares[t] # NoShare => shares[t].of \in minted /\ shares[t].messages > 0

StoreInit ==
  /\ serving = TRUE /\ live = {} /\ text = [c \in ChatIds |-> 0] /\ minted = {}
  /\ disk = [c \in ChatIds |-> NoFile] /\ saving = {} /\ writes = 0 /\ charts = {}
  /\ task = [c \in ChatIds |-> "none"] /\ shares = [t \in Tokens |-> NoShare] /\ erased = {}
-----------------------------------------------------------------------------
(* One chat. *)

Mint(c) ==
  /\ Serves /\ c \notin minted
  /\ minted' = minted \cup {c} /\ live' = live \cup {c}
  /\ UNCHANGED <<serving, text, disk, saving, writes, charts, task, shares, erased>>

\* The chat is live, or its snapshot is loaded.
GetOrLoad(c) ==
  /\ c \in live \cup Saved
  /\ live' = live \cup {c}
  /\ text' = IF c \in live THEN text ELSE [text EXCEPT ![c] = disk[c].messages]

Open(c) ==
  /\ Serves /\ c \notin live /\ GetOrLoad(c)
  /\ UNCHANGED <<serving, minted, disk, saving, writes, charts, task, shares, erased>>

\* Bug: the snapshot is written in place, so that a reader finds it torn.
PersistInPlace(c) == saving' = {c} /\ disk' = [disk EXCEPT ![c] = NoFile]

\* The temporary file is written; the workspace is made if it is not there.
Persist(c) == saving' = {c} /\ UNCHANGED disk

Says(c) == text[c] < MaxMessages /\ text' = [text EXCEPT ![c] = @ + 1]

\* A message starts a turn, which persists the chat at once.
Message(c) ==
  /\ Serves /\ c \in live /\ task[c] = "none" /\ Says(c)
  /\ task' = [task EXCEPT ![c] = "running"] /\ Persist(c)
  /\ UNCHANGED <<serving, live, minted, writes, charts, shares, erased>>

\* The turn persists at its gates, and when it ends.
TurnSaves(c) ==
  /\ Serves /\ task[c] = "running" /\ Persist(c)
  /\ \/ UNCHANGED <<text, task>>
     \/ Says(c) /\ task' = [task EXCEPT ![c] = "none"]
  /\ UNCHANGED <<serving, live, minted, writes, charts, shares, erased>>

RunCharts(c) ==
  /\ Serves /\ task[c] = "running"
  /\ charts' = charts \cup {c}
  /\ UNCHANGED <<serving, live, text, minted, disk, saving, writes, task, shares, erased>>

StopTurn(c) ==
  /\ Serves /\ task[c] = "running"
  /\ task' = [task EXCEPT ![c] = "cancelled"]
  /\ UNCHANGED <<serving, live, text, minted, disk, saving, writes, charts, shares, erased>>

\* The CancelledError handler persists the Session the turn holds.
Unwind(c) ==
  /\ Serves /\ task[c] = "cancelled" /\ Persist(c)
  /\ task' = [task EXCEPT ![c] = "none"]
  /\ UNCHANGED <<serving, live, text, minted, writes, charts, shares, erased>>

\* os.replace: the new snapshot lands whole.
Replace(c) ==
  /\ serving /\ c \in saving /\ writes < MaxWrites
  /\ writes' = writes + 1 /\ saving' = {}
  /\ disk' = [disk EXCEPT ![c] = [messages |-> text[c], at |-> writes + 1]]
  /\ UNCHANGED <<serving, live, text, minted, charts, task, shares, erased>>
-----------------------------------------------------------------------------
(* Shares and deletion. *)

\* A chart is read off the workspace and put into the snapshot itself; one whose
\* file is gone is left out.
Inlined(c) == c \in charts

Share(c, t) ==
  /\ Serves /\ GetOrLoad(c) /\ text'[c] > 0
  /\ shares[t] = NoShare /\ writes < MaxWrites /\ writes' = writes + 1
  /\ shares' = [shares EXCEPT ![t] =
       [of |-> c, messages |-> text'[c], chart |-> Inlined(c), at |-> writes + 1]]
  /\ UNCHANGED <<serving, minted, disk, saving, charts, task, erased>>

\* Bug: a chart is served out of the chat's workspace.
ShownByReference(t) == [shares[t] EXCEPT !.chart = @ /\ shares[t].of \in charts]

\* What the public route returns.
Shown(t) == shares[t]

Revoke(t) ==
  /\ Serves /\ shares[t] # NoShare
  /\ shares' = [shares EXCEPT ![t] = NoShare]
  /\ UNCHANGED <<serving, live, text, minted, disk, saving, writes, charts, task, erased>>

\* The session is forgotten and its workspace removed; then its turn is cancelled.
\* A chat that has no workspace yet is only forgotten.
Erase(chats) ==
  /\ Serves /\ chats # {}
  /\ \A c \in chats : task[c] = "none" \/ "late_unwind" \in StoreHazards
  /\ live' = live \ chats /\ charts' = charts \ chats /\ erased' = erased \cup (chats \cap Saved)
  /\ disk' = [c \in ChatIds |-> IF c \in chats THEN NoFile ELSE disk[c]]
  /\ task' = [c \in ChatIds |-> IF c \in chats \cap Saved /\ task[c] = "running"
                                THEN "cancelled" ELSE task[c]]
  /\ UNCHANGED <<serving, text, minted, saving, writes, shares>>

DeleteSession(c) == c \in live \cup Saved /\ Erase({c})

\* A folder: every saved chat of one namespace.
DeleteNamespace(folder) == Erase(folder \cap Saved)
-----------------------------------------------------------------------------
(* The process. *)

Crash ==
  /\ serving
  /\ serving' = FALSE /\ live' = {} /\ saving' = {} /\ task' = [c \in ChatIds |-> "none"]
  /\ UNCHANGED <<text, minted, disk, writes, charts, shares, erased>>

\* Items of the two areas. No session is in memory yet when the pass runs.
Aged(id, at) == [id |-> id, mtime |-> at, size |-> 1, active |-> id \in live]
Caps == [age |-> 0, items |-> KeepItems, bytes |-> 0]

Startup ==
  /\ ~serving /\ serving' = TRUE
  /\ LET gone == Pruned({Aged(c, disk[c].at) : c \in Saved}, Caps, writes)
         cut  == Pruned({Aged(t, shares[t].at) : t \in {t \in Tokens : shares[t] # NoShare}},
                        Caps, writes)
     IN  /\ disk' = [c \in ChatIds |-> IF c \in gone THEN NoFile ELSE disk[c]]
         /\ charts' = charts \ gone
         /\ shares' = [t \in Tokens |-> IF t \in cut THEN NoShare ELSE shares[t]]
  /\ UNCHANGED <<live, text, minted, saving, writes, task, erased>>

StoreNext ==
  \/ \E c \in ChatIds :
       \/ Mint(c) \/ Open(c) \/ Message(c) \/ TurnSaves(c) \/ RunCharts(c) \/ StopTurn(c)
       \/ Unwind(c) \/ Replace(c) \/ DeleteSession(c)
       \/ \E t \in Tokens : Share(c, t)
  \/ \E t \in Tokens : Revoke(t)
  \/ DeleteNamespace(ChatIds) \/ Crash \/ Startup

StoreSpec == StoreInit /\ [][StoreNext]_storeVars
-----------------------------------------------------------------------------
\* Wherever the server crashes, a chat that was saved is neither lost nor set back:
\* it goes only when the user deletes it, or when a start prunes it and as many
\* more recent chats as the cap allows are kept.
KeptUntilErased ==
  [][\A c \in Saved \ erased' :
       \/ disk'[c].at > 0 /\ disk'[c].messages >= disk[c].messages
       \/ Cardinality({d \in ChatIds : disk'[d].at > disk[c].at}) >= KeepItems]_storeVars

\* A link shows the same transcript and charts until it is revoked or pruned,
\* whatever becomes of the chat it was made from.
SharesFrozen ==
  [][\A t \in Tokens : shares[t] # NoShare => Shown(t)' \in {Shown(t), NoShare}]_storeVars

\* Forgetting a session removes its workspace for good: it is never listed again.
DeletedStaysDeleted == \A c \in erased : c \notin Saved
=============================================================================
