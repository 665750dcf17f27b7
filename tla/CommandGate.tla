---------------------------- MODULE CommandGate ----------------------------
(***************************************************************************)
(* How a command the agent asks for comes to run, or not: the per-turn     *)
(* tool lock (app/tools/mcp_server.py), the order of policy, access block, *)
(* skill gate, approval, dry run and concurrency cap                       *)
(* (app/tools/command_exec.py, app/tools/run/shell.py), the child process  *)
(* with its deadline and its cancellation (app/security/runner.py), and    *)
(* the shutdown that cancels every turn (app/agent/lifecycle.py,           *)
(* app/main.py). Chats run side by side and share one semaphore.           *)
(***************************************************************************)
EXTENDS Naturals, Sequences, FiniteSets, SequencesExt

CONSTANTS
  Chats,     \* sessions
  Calls,     \* tool calls that may be under way
  ChatOf,    \* the chat of each call
  OpsOf,     \* the operations each call may ask for
  Slots,     \* max_concurrent_runs, the size of the shared semaphore
  MaxGen     \* bound: turns of each chat

\* "check" is check_capacity and "fetch" fetch_key_docs, run under the same lock.
Ops      == {"deploy", "shell_deploy", "teardown", "read", "unlisted", "check", "fetch"}
Mutating == {"deploy", "shell_deploy", "teardown"}
Deploys  == {"deploy", "shell_deploy"}

ASSUME CommandGateAssumption ==
  /\ ChatOf \in [Calls -> Chats] /\ OpsOf \in [Calls -> SUBSET Ops]
  /\ Slots \in Nat \ {0} /\ MaxGen \in [Chats -> Nat]

VARIABLES
  phase,     \* how far each call has come
  op,        \* what it asks for
  queue,     \* calls waiting for the semaphore, in the order they came
  holders,   \* calls that hold a slot
  children,  \* calls whose child process group is alive
  access,    \* ctx.gated_access of each chat, for the model its deploys target
  grounded,  \* chats that fetched their operation's skill document
  simulate,  \* settings.simulate, fixed for the life of the server
  gen,       \* turns begun in each chat: the running one is handle <<chat, gen>>
  turn,      \* "idle", "running" or, once its task was cancelled, "cancelled"
  sweep,     \* the graceful shutdown
  todo,      \* handles of the current pass
  seen,      \* handles already cancelled
  probing    \* a background pre-probe has a child process

gateVars == <<phase, op, queue, holders, children, access, grounded, simulate, gen, turn,
              sweep, todo, seen, probing>>
calls    == <<phase, op, queue, holders, children, access, grounded, simulate>>
turnVars == <<gen, turn, sweep, todo, seen, probing>>
facts    == <<access, grounded, simulate>>

Phases == {"idle", "waiting", "gate", "queued", "running", "reaping"}

GateTypeOK ==
  /\ phase \in [Calls -> Phases] /\ op \in [Calls -> Ops]
  /\ queue \in Seq(Calls) /\ holders \subseteq Calls /\ children \subseteq Calls
  /\ access \in [Chats -> {"unknown", "cleared", "blocked"}] /\ grounded \subseteq Chats
  /\ \A c \in Chats : gen[c] \in 0..MaxGen[c]
  /\ turn \in [Chats -> {"idle", "running", "cancelled"}]
  /\ sweep \in {"up", "sweeping", "swept"} /\ simulate \in BOOLEAN /\ probing \in BOOLEAN
  /\ todo \in SUBSET (Chats \X Nat) /\ seen \in SUBSET (Chats \X Nat)

GateInit ==
  /\ phase = [k \in Calls |-> "idle"] /\ op = [k \in Calls |-> "read"]
  /\ queue = <<>> /\ holders = {} /\ children = {}
  /\ access = [c \in Chats |-> "unknown"] /\ grounded = {} /\ simulate \in BOOLEAN
  /\ gen = [c \in Chats |-> 0] /\ turn = [c \in Chats |-> "idle"]
  /\ sweep = "up" /\ todo = {} /\ seen = {} /\ probing = FALSE

CallsOf(c) == {k \in Calls : ChatOf[k] = c}

\* A call that is over no longer asks for anything.
Moves(k, p) ==
  /\ phase' = [phase EXCEPT ![k] = p]
  /\ op' = IF p = "idle" THEN [op EXCEPT ![k] = "read"] ELSE op
-----------------------------------------------------------------------------
(* One call. *)

\* The model asks for a tool; several calls of one message arrive together.
Arrive(k) ==
  /\ phase[k] = "idle" /\ turn[ChatOf[k]] = "running"
  /\ \E o \in OpsOf[k] : op' = [op EXCEPT ![k] = o]
  /\ phase' = [phase EXCEPT ![k] = "waiting"]
  /\ UNCHANGED <<turnVars, queue, holders, children, facts>>

\* Bug: calls of one turn run side by side.
NoToolLock(c) == TRUE
ToolLockFree(c) == \A k \in CallsOf(c) : phase[k] \in {"idle", "waiting"}

\* The tool is dispatched under the lock of its turn.
Dispatched(k) == phase[k] = "waiting" /\ ToolLockFree(ChatOf[k])

\* gated_block: while a model is known gated and unauthorized, a deploy of it, of
\* a model never checked or of none in particular is refused.
GatedBlock(k) == op[k] \in Deploys /\ access[ChatOf[k]] = "blocked"

\* skill_gate_block: llmdbenchmark operations only, never the ad-hoc shell.
SkillGateBlock(k) == op[k] \in {"deploy", "teardown"} /\ ChatOf[k] \notin grounded

\* The policy knows no such executable or argument.
PolicyDenies(k) == op[k] = "unlisted"

Refused(k) == PolicyDenies(k) \/ GatedBlock(k) \/ SkillGateBlock(k)

\* Bug: the cap bounds the dedicated commands only.
HeavyDedicated(k) == op[k] \in {"deploy", "teardown"}
Heavy(k) == op[k] \in Mutating

\* Past its gate, a mutating command is only announced under SIMULATE, else it
\* queues for a slot; anything else runs at once.
Proceeds(k) ==
  IF simulate /\ op[k] \in Mutating THEN Moves(k, "idle") /\ UNCHANGED <<queue, children>>
  ELSE IF Heavy(k)
    THEN Moves(k, "queued") /\ queue' = Append(queue, k) /\ UNCHANGED children
    ELSE Moves(k, "running") /\ children' = children \cup {k} /\ UNCHANGED queue

Refuse(k) ==
  /\ Dispatched(k) /\ Refused(k)
  /\ Moves(k, "idle")
  /\ UNCHANGED <<turnVars, queue, holders, children, facts>>

\* A mutating command asks for consent before anything else happens to it.
Ask(k) ==
  /\ Dispatched(k) /\ ~Refused(k) /\ op[k] \in Mutating
  /\ Moves(k, "gate")
  /\ UNCHANGED <<turnVars, queue, holders, children, facts>>

\* A read-only command needs none, and none is asked when the chat's
\* auto-approve toggle is on.
RunUnasked(k) ==
  /\ Dispatched(k) /\ ~Refused(k) /\ op[k] # "fetch"
  /\ Proceeds(k)
  /\ UNCHANGED <<turnVars, holders, facts>>

\* A skill document fetched counts from here on.
Fetch(k) ==
  /\ Dispatched(k) /\ op[k] = "fetch"
  /\ grounded' = grounded \cup {ChatOf[k]}
  /\ Moves(k, "idle")
  /\ UNCHANGED <<turnVars, queue, holders, children, access, simulate>>

\* The user may take for ever.
Approve(k) ==
  /\ phase[k] = "gate"
  /\ Proceeds(k)
  /\ UNCHANGED <<turnVars, holders, facts>>

Decline(k) ==
  /\ phase[k] = "gate"
  /\ Moves(k, "idle")
  /\ UNCHANGED <<turnVars, queue, holders, children, facts>>

\* The slot is taken and the child spawned, unless its launch fails.
Acquire(k) ==
  /\ phase[k] = "queued" /\ Head(queue) = k /\ Cardinality(holders) < Slots
  /\ queue' = Tail(queue)
  /\ \/ holders' = holders \cup {k} /\ children' = children \cup {k} /\ Moves(k, "running")
     \/ UNCHANGED <<holders, children>> /\ Moves(k, "idle")
  /\ UNCHANGED <<turnVars, facts>>

\* The child exits. check_capacity records its verdict when its probe is done.
Exit(k) ==
  /\ phase[k] = "running"
  /\ children' = children \ {k} /\ holders' = holders \ {k}
  /\ \E verdict \in IF op[k] = "check" THEN {"cleared", "blocked"} ELSE {access[ChatOf[k]]} :
       access' = [access EXCEPT ![ChatOf[k]] = verdict]
  /\ Moves(k, "idle")
  /\ UNCHANGED <<turnVars, queue, grounded, simulate>>

\* The deadline passes, or the task is cancelled: the whole process group is
\* killed, then reaped; only then does the `async with` give the slot back.
Kill(k) == Moves(k, "reaping") /\ children' = children \ {k} /\ UNCHANGED <<queue, holders>>

Timeout(k) ==
  /\ phase[k] = "running"
  /\ Kill(k)
  /\ UNCHANGED <<turnVars, facts>>

\* Bug: the slot is given back on the normal path only.
ReapedLeaking(k) ==
  /\ phase[k] = "reaping"
  /\ Moves(k, "idle")
  /\ UNCHANGED <<turnVars, queue, holders, children, facts>>

Reaped(k) ==
  /\ phase[k] = "reaping"
  /\ Moves(k, "idle") /\ holders' = holders \ {k}
  /\ UNCHANGED <<turnVars, queue, children, facts>>

CancelLands(k) ==
  /\ turn[ChatOf[k]] = "cancelled" /\ phase[k] \notin {"idle", "reaping"}
  /\ IF phase[k] = "running" THEN Kill(k)
     ELSE /\ Moves(k, "idle")
          /\ queue' = SelectSeq(queue, LAMBDA j : j # k)
          /\ UNCHANGED <<holders, children>>
  /\ UNCHANGED <<turnVars, facts>>
-----------------------------------------------------------------------------
(* Turns, and the shutdown. *)

Active == {c \in Chats : turn[c] # "idle"}
Handle(c) == <<c, gen[c]>>

StartTurn(c) ==
  /\ turn[c] = "idle" /\ gen[c] < MaxGen[c] /\ sweep = "up"
  /\ gen' = [gen EXCEPT ![c] = @ + 1] /\ turn' = [turn EXCEPT ![c] = "running"]
  /\ UNCHANGED <<calls, sweep, todo, seen, probing>>

\* A turn that ends normally with a steer left over starts a follow-up turn at
\* once, also while the server is shutting down; a cancelled one never does.
TurnEnds(c) ==
  /\ turn[c] # "idle" /\ \A k \in CallsOf(c) : phase[k] = "idle"
  /\ \/ turn' = [turn EXCEPT ![c] = "idle"] /\ UNCHANGED gen
     \/ /\ turn[c] = "running" /\ gen[c] < MaxGen[c]
        /\ gen' = [gen EXCEPT ![c] = @ + 1] /\ UNCHANGED turn
  /\ UNCHANGED <<calls, sweep, todo, seen, probing>>

Stop(c) ==
  /\ turn[c] = "running"
  /\ turn' = [turn EXCEPT ![c] = "cancelled"]
  /\ UNCHANGED <<calls, gen, sweep, todo, seen, probing>>

\* A brand-new chat is probed in the background, outside every turn.
Prewarm ==
  /\ sweep = "up" /\ ~probing /\ \E c \in Chats : gen[c] = 0
  /\ probing' = TRUE
  /\ UNCHANGED <<calls, gen, turn, sweep, todo, seen>>

PrewarmEnds ==
  /\ probing /\ probing' = FALSE
  /\ UNCHANGED <<calls, gen, turn, sweep, todo, seen>>

BeginSweep ==
  /\ sweep = "up"
  /\ sweep' = "sweeping" /\ todo' = {Handle(c) : c \in Active}
  /\ UNCHANGED <<calls, gen, turn, seen, probing>>

Done(h) == gen[h[1]] # h[2] \/ turn[h[1]] = "idle"

\* Handles are cancelled one after the other, each awaited until it is done.
SweepCancel(h) ==
  /\ sweep = "sweeping" /\ h \in todo /\ h \notin seen
  /\ \A g \in todo \cap seen : Done(g)
  /\ seen' = seen \cup {h}
  /\ turn' = IF Done(h) THEN turn ELSE [turn EXCEPT ![h[1]] = "cancelled"]
  /\ UNCHANGED <<calls, gen, sweep, todo, probing>>

\* Bug: one snapshot of the active handles is enough.
LateHandlesUnseen == {}
LateHandles == {Handle(c) : c \in Active} \ seen

\* When a pass is over the registry is swept again, until nothing new is found;
\* then the background tasks are cancelled and reaped.
NextPass ==
  /\ sweep = "sweeping" /\ todo \subseteq seen /\ \A h \in todo : Done(h)
  /\ todo' = LateHandles
  /\ IF LateHandles = {} THEN sweep' = "swept" /\ probing' = FALSE ELSE UNCHANGED <<sweep, probing>>
  /\ UNCHANGED <<calls, gen, turn, seen>>

CallNext(k) ==
  \/ Arrive(k) \/ Refuse(k) \/ Ask(k) \/ RunUnasked(k) \/ Fetch(k) \/ Approve(k)
  \/ Decline(k) \/ Acquire(k) \/ Exit(k) \/ Timeout(k) \/ Reaped(k) \/ CancelLands(k)

GateNext ==
  \/ \E k \in Calls : CallNext(k)
  \/ \E c \in Chats : StartTurn(c) \/ TurnEnds(c) \/ Stop(c)
  \/ Prewarm \/ PrewarmEnds \/ BeginSweep \/ NextPass
  \/ \E h \in todo : SweepCancel(h)

\* The event loop runs what is ready, and every child has a deadline. Nothing
\* makes a user answer, a model ask or a turn end.
GateFairness ==
  \A k \in Calls :
    /\ WF_gateVars(Acquire(k)) /\ WF_gateVars(Reaped(k))
    /\ WF_gateVars(CancelLands(k)) /\ WF_gateVars(Timeout(k))

GateSpec == GateInit /\ [][GateNext]_gateVars /\ GateFairness
-----------------------------------------------------------------------------
\* However the chats interleave, no more commands that change the system are
\* running, or being reaped, than the cap allows.
HeavyBounded ==
  Cardinality({k \in Calls : op[k] \in Mutating /\ phase[k] \in {"running", "reaping"}}) <= Slots

\* A deploy never starts while its chat knows its model cannot be pulled: the
\* verdict cannot turn between the check and the start, though the deploy may be
\* parked at its gate, or queued, for hours in between.
BlockedNeverStarts ==
  [][\A k \in children' \ children :
       op[k] \in Deploys => access[ChatOf[k]] # "blocked"]_gateVars

\* When the shutdown is over no turn is active and no child process is alive,
\* even if a turn that ended during the sweep had started a follow-up turn.
ShutdownClean == sweep = "swept" => Active = {} /\ children = {} /\ ~probing

\* A command the user approved is not starved: it runs, fails to launch or is
\* cancelled, though other chats' gates stay open for ever and their runs hang,
\* time out or are cut.
ApprovedGetsItsTurn == \A k \in Calls : phase[k] = "queued" ~> phase[k] # "queued"
=============================================================================
