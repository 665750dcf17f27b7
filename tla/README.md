# A verification project for the llm-d benchmarking agent

TLA+ models of `src/llm-d-benchmarking-agent-project` (paths below are relative
to it), TLC configurations that check them on small instances, and theorems
about them that TLAPS proves for every instance.

The program is a chat backend (FastAPI, one asyncio event loop). A user opens a
chat in the browser; each message starts a *turn*, in which a model drives tools
through an SDK; tools that change anything ask the user for approval; long
benchmarks are run as Kubernetes Jobs by an orchestrator, with retries and a
checkpoint in the cluster. The hard part is not what any handler computes, it is
what happens *between* two awaits: a tab reloads, a Stop lands, the backend
restarts, a Job outlives its watch.

## 1. Inventory

| Component | State it keeps | Operations | Talks to | What is hard, and what makes it correct |
|---|---|---|---|---|
| **Chat session lifecycle**: `app/main.py` (WebSocket handler, `run_turn`), `app/agent/lifecycle.py` | `app.state.channels`, `app.state.running`, the `RunRegistry`'s handles, `ctx.steer_messages` | connect, reconnect, supersede, detach; message, answer, toggle, stop; end of a turn, follow-up turn, shutdown, delete | channel, engine, session store | two tabs, a stop at any await, a message at the very end of a turn. One turn at a time, known to the registry; no message vanishes; stop is final; every end is announced |
| **Event channel and gates**: `app/agent/channel.py`, `events.py` | per chat: attached socket, ring of numbered events, `pending` futures | emit, attach, detach, replay, request/resolve/restore/re-emit a gate | handler, tools, session file | a gate outlives its socket and its process. Nothing runs without consent; a gate can be answered for as long as someone waits on it; replay neither skips nor repeats |
| **Agent engine**: `app/agent/engine.py`, `codex_engine.py`, `app/tools/mcp_server.py`, `transcript.py`, `cards.py` | `LIVE_TURNS`, a live turn's steer queue, tool-use ids by name, watchdog clock | run a turn, steer, drain, interrupt, abandon, disconnect, pair a call with its result | channel, tools | steers against the end of the stream, cancellation inside a `finally`, silent streams |
| **Benchmark orchestrator**: `app/orchestrator/*`, `app/tools/run/orchestrate.py`, `manage_runs.py` | Jobs and a checkpoint ConfigMap in the cluster; a sweep's coroutines, semaphore and lock in memory | run_sweep, run_with_retries, submit, watch, diagnose, record; stop, cleanup | command gate, cluster | interrupted sweeps are resumed from the cluster; reads and applies fail; another chat deletes Jobs. Attempts form a chain; the record is truthful, final and complete |
| **Session store**: `app/agent/session.py` | a JSON file per chat | persist, load, list, rename, delete | lifecycle, engine | a crash between the write of a snapshot and its replace; a delete against a turn that persists again. A saved chat is neither lost nor set back |
| **Command gate and runner**: `app/tools/command_exec.py`, `app/tools/run/*.py`, `app/security/runner.py` | a semaphore shared by all chats, child processes | policy, gated access, skill gate, approval, simulate, run, stream, kill | channel, policy | order of the checks, a gate that is parked for hours must not hold a slot, cancelled children. What is blocked never starts, what was approved is not starved, nothing outlives a shutdown |
| **Command policy**: `app/security/policy.py`, `_validator.py` | the allowlist (read-only) | decide an argv | command gate | an argv walk with flags, values and sub-commands. An approval is asked exactly when something changes |
| **Retention, history, share, provenance**: `app/storage/*` | files under the workspace | prune by age and count, record, share, revoke | session store | pruning what is in use; a report overwritten while it is certified. Shares are frozen, a bundle speaks of one run |
| **Result validation and analysis**: `app/validation/*` | none | parse, compare, verdicts, design of experiments | tools | units, missing percentiles, ties and boundaries; levels that compare equal. Two verdicts on one run do not contradict each other |
| **Capacity and readiness**: `app/capacity/*`, `app/readiness/*` | none | fit a model on accelerators, diagnose a cluster | tools | verdicts read off another program's wording, precedence of layers and diagnoses. "Feasible" and "ready" are never said of what was not sized or does not serve |
| **Metrics, poller, logging**: `app/observability/*` | counters | observe | all | best effort; nothing reads them back |
| **Tool registry and schemas**: `app/tools/*` | none | dispatch, validate | engine | none of its own |
| **LLM options, prompt, packaging**: `app/llm/*`, `app/agent/prompt.py`, `app/packaging/*` | none | configure, render | engine | none of its own |
| **Browser client**: `app/ui/app.js` | cursor of the last event, cards shown | send, resume, render | handler | an inert page after it was superseded |
| **Deployment, harnesses, scripts** | outside the program | | | |

How they interact: the WebSocket handler starts a turn as a task
(`create_task(run_turn)`) and registers it; the turn calls the engine, which
connects an SDK client; the client runs tools in tasks of its own; a tool that
needs consent calls `Channel.request_approval` and parks on a future, which the
handler sets when the user answers; the orchestrator is such a tool, and each of
its mutating `kubectl` calls is such an approval.

## 2. Modules

| Module | Models | State and actions |
|---|---|---|
| `SweepOrchestrator` | `controller.py`, `checkpoint.py`, `faults.py`, `manage_runs.py`, against a cluster | Jobs and the ConfigMap in the cluster; per caller the in-memory checkpoint and, per treatment, the place its coroutine stands. One action per stretch between two awaits |
| `SweepLedger` | the promise of a sweep id | outcomes decided once, attempts launched in order and before the decision; `SweepOrchestrator` implements it (`LedgerKept`) |
| `SweepProofs` | | theorems |
| `ChatSession` | one chat: the handlers of `main.py`, the gates of `channel.py`, the engine's turn, `RunRegistry.cancel` | per tab, per `Channel` object, per turn, per gate; see below |
| `ChatProofs` | | theorems |
| `EventChannel` | `channel.py`, the `/ws` handshake of `main.py`, the cursor of `app.js` | one page, one chat: numbers, ring, what the page shows |
| `CommandGate` | `mcp_server.py` (lock), `command_exec.py`, `shell.py`, `runner.py`, `lifecycle.py` (shutdown) | calls of several chats, the semaphore, children, the sweep of the registry |
| `AgentStream` | `engine.py` (stream, pairing, watchdog), `codex_engine.py` (its watchdog), `mcp_server.py` (wrapper) | one response: messages, uses, rows, clock |
| `ChatStore` | `session.py`, `share.py`, their routes in `main.py` | memory, snapshots, shares; crash and start |
| `ResultStore` | `history.py`, `provenance.py`, their tools | reports on disk, history, bundles; an export split at its awaits |
| `ChannelProofs`, `CommandGateProofs`, `StreamProofs`, `StoreProofs` | | theorems |
| `Retention` | `retention.py` | operators: what a pass removes |
| `RunVerdicts` | `analysis.py`, `analyze.py` | operators: targets, goodput, frontier, next steps |
| `ReportCompare` | `report.py`, `report_metrics.py`, `tools/analyze/compare.py` | operators: discovery, units, deltas, cross-validation |
| `LoadEstimate` | `workload_profile.py` | operators: which file is read, how long a load runs |
| `Preflight` | `planner.py`, `tools/setup/capacity.py`, `diagnostics.py`, `probes.py` | operators: feasible, ready |
| `CommandPolicy` | `execute.py`, `security/*`, `session_plan.py` | operators: from a request to an argv to a decision |
| `SweepDesign` | `doe.py` (both), `config_artifact.py` | operators: treatments, scenarios |
| `Verdicts` | the tools that call the operators above | a topic, a question, an answer; one action per tool |
| `MCSweep`, `MCChat` | | symmetry sets for TLC |
| `MCPlatform` | | the five state machines `EventChannel` … `ResultStore` on one instance each |
| `MCVerdicts` | | the questions put to `Verdicts` |
| `VerdictProofs` | | theorems about `Verdicts` and the modules of operators |
| `CommandPolicyProofs` | | the theorem about `CommandPolicy` |

### SweepOrchestrator

A process is one *place* `orchestrate_sweep` is called from; `Crash` (the turn is
cancelled or the backend dies) forgets its memory at any await and leaves the
cluster. `stage` follows `_one` and `run_with_retries`:
`queued` (waiting for the semaphore), `entered`, `marking` (inside
`_persist_in_flight`, holding `ck_lock` across an approval), `submitting`,
`watching`, `diagnosing`, `concluded`, `recording`, `finished`. `manifest` is the
ConfigMap a coroutine rendered and has not applied yet, because what is applied is
what was rendered *before* the await. `Reported` is `kubectl get`: a failed read
parses to no items, which the code takes for "absent". `ever` is a history
variable: which phases each Job went through.

`Hazards` switches on what goes wrong: `read` (a get fails), `apply` (a Job apply
or delete exits non-zero, ignored), `write` (the checkpoint apply is declined or
fails), `decline` (the user declines a Job), `slow` (a Job outlives `max_wait`).

### ChatSession

Every action is what one task does between two awaits. `task.cancel()` is
`cancel[k] = TRUE`; a marked task's only step is the `CancelledError` at the
place it stands (`At` against `Lands`). A turn's `pc`:

| `pc` | where the task is |
|---|---|
| `created` | `create_task` done, first step not taken |
| `starting` | `run_turn` of `main.py`, awaiting the session_saved event |
| `connecting`, `thinking` | in `_drive_turn`: the client connects, its stream is consumed; registered in `LIVE_TURNS` |
| `disconnecting` | the `finally` of `_drive_turn` on a normal or failed end |
| `closing` | the engine returned `done`; `run_turn`'s `finally` is next |
| `aborting` | the same `finally` after a cancel: interrupt, then disconnect |
| `announcing` | `except CancelledError` of `main.py`: emits `cancelled`, then `done` |

A `Channel` is an object with an identity: `app.state.channels` holds one
(`current`), handlers (`at`) and turns (`chan`) hold the one they captured, and
Connect makes a fresh one when there is none. That is the distinction the races
of this code turn on. A gate has an entry in a Channel's `pending` (an open or set
future, or one *restored* from the file, with no awaiter), a place on disk
(`inflight`, `decided`) and a tool (`stage`).
The messages are numbered by the order of sending; `heard`, `dropped`, `left` and
`halted` are history variables that say where each one went.

`Hazards`: `stale_tab` (a tab that was superseded and does not know keeps
sending), `late_close` (the handler of a superseded socket ends after the one
that replaced it), `early_stop` (a stop reaches a task before its first step),
`slow_cli` (unwinding takes longer than the 5 s of `RunRegistry.cancel`, which
then cancels again), `slow_send` (sending an approval card suspends),
`error` (connection or stream fails), `restart` (the process dies).

### EventChannel

One page and one chat. The Channel numbers its events from 0 and keeps the last
`BufferMax` frames of the current turn; it is dropped when no socket, gate or turn
needs it, and the next one numbers from 0 again. The handshake is split where
`main.py` awaits: `Connect` (attach, cutoff, snapshot and the decision whether the
page's pane can be patched, all before `ready` is sent), `SendHistory`,
`StartReplay`, one `ReplayNext` per frame (the oldest of the snapshot first), `Reemit`. `Emit`, `EndTurn` and `Drop`
interleave with each. Live frames reach an attached page in the middle of its
handshake. `told` gives every event an identity that outlives its number, and
`owed` is a history variable: what the page was promised since its pane was last
rebuilt. `ChannelHazards` switches on a connection lost while a live frame has
overtaken the replay (`late_drop`) and a second page that starts turns while this
one is away (`other_page`); the run has neither, see section 6.

### CommandGate

A call passes the turn's tool lock, then policy, the access block, the skill gate,
the approval, the dry run and the semaphore, in the order of `command_exec.py`, and
becomes a child process that exits, times out or is killed (`reaping` keeps the slot
until the child is reaped). `check_capacity` and `fetch_key_docs` run under the same
lock and change what a later call of the chat may do. `BeginSweep`, `SweepCancel` and
`NextPass` are `graceful_shutdown`: handles are cancelled one after the other, and
the registry is swept again until nothing new is found, while a turn that ends may
register a follow-up turn.

### AgentStream

The CLI writes messages, asks leave for each use (`Allow` stashes its id), and
dispatches it or not (`Retract` leaves a stale id behind). The wrapper pairs a
dispatch with an id (`Take`: the first stashed one whose arguments match, else the
first), waits until its message is mirrored (`Start`) and
records the result (`Finish`). The consumer reads messages and results; `Poll` is one
silent poll of the watchdog, which nudges once and then gives up (without `nudging` it
is the watchdog of the Codex engine). All uses have the same tool name, because only
those share a queue. `quiet` counts, independently of the watchdog's own clock, the
polls since anything was heard.

### ChatStore, ResultStore, Retention

A persist awaits nothing, so only a crash separates the temporary file (`saving`)
from its `Replace`. A turn holds its Session object (`text`), whatever becomes of the
id in the manager. A start runs the retention pass over chats and shares. The clock of
both stores is the number of files written, so modification times are distinct.
`StoreHazards = {"late_unwind"}` lets a chat be deleted under its turn. In
`ResultStore` benchmarks overwrite reports at reused paths while an export awaits the
two git reads and the probe; a hash is the tuple it is taken over.

### Verdicts and the modules it composes

Tools without state: a behaviour asks one question and gets one answer, and each
invariant holds the answer against what the tool promises, stated independently of how
the answer is computed (a frontier against dominance, a pass of retention against the
caps, an argv's decision against the effect of what was requested). Numbers that the code
rounds are in the resolution it rounds to, fractions in hundredths of a percent.
The planner of the benchmark repository is external: `Preflight` takes any mix of the
lines it prints. In `CommandPolicy` a token is a string and the policy file is the
record that its loader builds; the recursion of `walk_subcommand` is a function from
levels to what is left to walk, `Deeper` being one level.

`QuestionsAssumption` says what the inputs of a tool are, and every run of the module
evaluates it. Reports carry natural numbers and percentiles of one metric that do not
fall, since a harness computes them from one sample; no more requests failed than were
sent; two reports of one input have different modification times (the code leaves the order
of a tie to the file system); a rate is in no unit of time; the keys of a plan are pairs,
its defaults name a model and an accelerator and its overrides are settings of one
method; a readiness probe asks the two serving ports. An area's items have distinct names
and distinct times, a bound of the model: in which order the code removes two files of one
time is left open by its sort key. The numbers of a workload profile are naturals or
absent, its layout is one of the two the reader knows and its file lies with a known
harness. The factors of a design and their levels are lists, the knobs of a scenario
finitely many non-empty paths. A token or the name of a treatment that the code makes by
appending a number is the pair of text and number. For a command line, no option is given
as a name or passed through where an option expects its value: what a CLI makes of
`--spec --dry-run` is its own affair. The catalog lists something of each kind: with an empty
one the plan's check lets every name pass (`session_plan.py`), the policy none.

## 3. Runs

The bounds are in the `.cfg` of the same name.

| Run | Instance | Shows |
|---|---|---|
| `sweep_resume` | 1 caller, 2 treatments, 2 attempts, 2 slots, 3 starts; declines and slow Jobs | `TypeOK`, `AttemptChain`, `JobsAreMarked`, `LedgerKept` (refinement of `SweepLedger`), `SweepCoversAll`, `SweepEnds` |
| `sweep_adversity` | 2 callers of one sweep id, 1 treatment, another chat stopping or cleaning up, every hazard | `OutcomeTruthful` |
| `sweep_failed_load`, `sweep_failed_poll`, `sweep_stop_retry` | 1 caller, 1 treatment | three disagreements, section 6 |
| `chat_session` | 2 tabs, 2 Channel objects, 1 gate, 2 messages, every hazard but `late_close` | `TypeOK`, `OneTurn`, `GateReachable`, `RecordExact`, `MessagesAccounted`, `StopWins`, `EndAnnounced`, `ConsentedOnly` |
| `chat_liveness` | 1 tab, 2 messages, 1 gate, `slow_cli` and `error` | `StopEnds`, `MessageSettles` |
| `platform` | `MCPlatform`: ring of 2 and 4 events over 2 turns; 2 chats with 3 calls and 1 slot; 3 uses with 2 kinds of arguments, watchdog of 2 polls; 2 chats, 1 share token, 2 messages, 4 writes, keep 1; 1 place, 3 reports, 3 results | `NothingMissed`, `StreamedOnce`, `GateOnScreen`; `HeavyBounded`, `ShutdownClean`, `BlockedNeverStarts`, `ApprovedGetsItsTurn`; `NeverCrossLabelled`, `TextFirst`, `StallsOnlyInSilence`, `WedgeEnds`; `KeptUntilErased`, `SharesFrozen`; `CertifiesItsRun` |
| `verdicts` | `MCVerdicts`: every combination of the inputs listed there, eleven topics, 144 418 states | `TargetsJudged`, `FrontierTrue`, `ComparedFairly`, `PrunesLeast`, `CapacityTrue`, `ReadyMeansServing`, `ApprovalMatchesEffect`, `DesignComplete`, `EstimateTrue` |
| `deleted_chat` | `ChatStore` alone, deletion under a running turn | a disagreement, section 6 |
| `chat_late_close`, `chat_steer_order` | 2 tabs and 3 Channels; 1 tab and 3 messages | two disagreements, section 6 |

Why the bounds are enough. Two treatments make the coroutines of a sweep share
the checkpoint document, its lock and the semaphore; two attempts are the first
budget with a retry and a last attempt; three starts allow an interruption of a
resumed sweep; `evicted` and `oom` stand for the retryable and the deterministic
faults (the code only tests membership). In the chat, two tabs are the least
that can supersede one another and two messages the least in which one is
queued behind another and a follow-up turn exists; one gate is enough for every
property that is quantified over single gates, and a second asked by the same
turn differs only in `ShouldContinue`, which reads whether *any* was approved or
asked. `OneTurn` and the theorems of section 5 need no bound. Symmetry is used for
interchangeable treatments, processes, tabs and Channels, in safety runs only.
In `platform` the parts share no variable; `part`, chosen at the start, says which
one runs, so the state spaces add up instead of multiplying. A ring of two with four
events overflows while a page is away and while it replays; two turns let a Channel
be forgotten and renumbered. Of the three calls, two are of one chat, so one can
change what the other may do, and one slot is the tightest cap; chat `b` has two
turns, a follow-up among them. Three uses, two of them parallel, with two kinds of
arguments are the least in which a stale id could be taken by the wrong dispatch.
Two chats under a cap of one make a start prune. Three reports at one path, alike but
for their body and validity, make a report be overwritten between two awaits.
`payload[1]` is fixed, since arguments are interchangeable.

In `verdicts` each topic's inputs are chosen so that each rule and each of its exceptions
applies: latencies under, at and over a target in both units and an unknown one,
percentiles missing from either end, 1 failure in 20001 (which rounds to success),
ties in both objectives, inputs missing or invalid before the one that is asked for,
caps on age, count and bytes in every combination, every outcome of the planner for
either method and every layer of a plan that may speak, services with and without
ready addresses, every pair of options on every subcommand, levels that compare equal
or read alike, knobs that lie above one another, limits given per stage or not.

Bounds that are not the code's are `MaxStarts`, `MaxJanitorRuns`, `MaxMessages`,
`MaxEvents`, `MaxTurns`, `MaxGen`, `MaxWrites`, `MaxResults` and the finite sets of
gates, Channel objects, calls, uses, chats and tokens; each stands in the guard of the
action it limits. `MaxCancels` is a bound too: a user may press Stop more
often, and a third cancel meets the places a second one met.
Deadlock is not checked: when the bounds are used up the system really stops.

## 4. Fairness

* Sweep (`FairSpec`): weak fairness of every treatment's step and of the return.
  The event loop runs each ready coroutine, `max_wait` bounds a watch by the wall
  clock, and approvals are answered. Nothing makes a Job end, a process crash or
  another chat act: `SweepEnds` holds although a Job may run for ever.
* Chat (`Fairness`): weak fairness of a turn's steps, of its unwinding, of a
  tool's steps and of Stop's return, because the loop runs ready tasks, the
  stream ends (`MAX_TURNS` bounds the steps, the watchdog a silent one) and a
  command has a deadline. The user is not assumed to do anything: to connect,
  answer a gate, press Stop. Failures, the 5 s timeout and the restart are not
  fair either.

* Commands (`GateFairness`): weak fairness, for each call, of taking a free slot
  (`asyncio.Semaphore` wakes its waiters in order), of the child's deadline, of reaping
  it and of the landing of a cancel. Nothing makes a user answer, the model ask or a
  turn end, so `ApprovedGetsItsTurn` holds beside gates that stay open for ever.
* Stream (`StreamFairness`): the consumer polls and reads. Nothing makes the CLI
  write, or a tool, which may be parked at its gate, finish; `WedgeEnds` says that the turn
  ends or a tool is running.
* `ChatStore`, `ResultStore` and `EventChannel` state no fairness: their properties are about
  safety. `MCPlatform` demands the fairness of a part of that part's behaviours only.

## 5. Theorems

All are checked by TLAPS to the last leaf.

| Theorem | Says | Argument |
|---|---|---|
| `SweepProofs!TypeCorrect` | `Spec => []TypeOK` | `TypeOK` with the fact that only terminal outcomes are found by a concluded treatment; one case per action |
| `SweepProofs!OutcomesTruthful` | `Spec => []OutcomeTruthful`, any hazards, callers, janitors | not inductive alone: what is in the ConfigMap came from a rendered manifest, that from an in-memory checkpoint, that from what a coroutine found, that from a phase the Job had. The invariant says that *each* of these is justified, and that `ever` only grows |
| `SweepProofs!AttemptsChain` | `Spec => []AttemptChain` in a reliable cluster | needs: a coroutine that moved to attempt *i* saw the earlier ones fail, a Job in a terminal phase stays there, and its `ever` holds exactly what it went through |
| `SweepProofs!LiveJobsAreKept` | `Spec => NoRetryOverLiveJob` without `read` | an attempt that saw its Job running advances only in `Poll`, on an empty answer, and a get that succeeds answers so only when the Job is gone. `SeenFailed` rules out `Diagnose`: whoever diagnoses found a failure or a timeout |
| `SweepProofs!SweepImplementsLedger` | with one caller at a time, in a reliable cluster, the orchestrator implements `SweepLedger` | step simulation: each step is a `Launch`, a `Decide` or a stutter of the ledger, from the invariant that ties the in-memory checkpoint to the ConfigMap |
| `SweepProofs!CompletedIsFinal` | `Spec => CompletedStaysCompleted` with one caller, without `read` | `MemoryInv`: the checkpoint in memory knows every completed record of the cluster, so no manifest rendered from it takes one back |
| `SweepProofs!EveryJobIsMarked` | `Spec => []JobsAreMarked` with one caller, without `read` and `write` | `LandedInv`: a coroutine past `_persist_in_flight` has its mark in the ConfigMap, whose records its caller's memory all has, so that no manifest rendered from it leaves one out |
| `SweepProofs!SweepsCoverAll` | `Spec => SweepCoversAll` under the same conditions | the same invariant, in `FoundLands`: a treatment that finished has its outcome in memory and in the ConfigMap, and a write for another treatment keeps it |
| `ChatProofs!ChatTypeCorrect` | `Spec => []TypeOK` of the chat | `TypeOK` is inductive; its parts follow the groups of variables that actions leave alone |
| `ChatProofs!OneTurnAtATime` | `Spec => []OneTurn`, any number of tabs, Channels, messages, gates and all hazards | `OneTurn` alone is not inductive: a turn about to start must find `LIVE_TURNS` empty, which follows from *a registered turn stands inside the engine* (`LiveInEngine`). `Move`, `Finish` and `Start` are the three ways a step can touch the slots |
| `ChatProofs!EndsAreAnnounced` | `Spec => []EndAnnounced`, all hazards | `StoryInv`: what each place of the turn has said so far and how often it was cancelled there; only the place before the first step and `announcing` can end in silence |
| `ChatProofs!NoMessageVanishes` | `Spec => []MessagesAccounted`, all hazards | each message has one place; the queues are lists, so the invariant is about the sequence of all places without repetition, and each action moves one message, drops a queue or hands a queue over. A message after the last one sent is nowhere |
| `ChatProofs!StopsWin` | `Spec => []StopWins`, all hazards | `HaltedGone`: what a stop found waiting is discarded, or still queued while the turn unwinds, which discards it; by the invariant of the previous theorem it is nowhere else |
| `ChatProofs!NothingWithoutConsent` | `Spec => ConsentedOnly` without `late_close` | a future set to "yes" must still mean yes when its tool resumes. That needs: every handler and the live turn hold the *current* Channel (`LinkInv`), answered and restored entries are in no other one, a gate that is open there was never refused, and one that was not asked is known nowhere (`GateInv`). Otherwise the same gate could be declined as restored in one Channel and approved as open in another |
| `ChatProofs!GatesStayReachable` | `Spec => []GateReachable` without `late_close` | from the same invariant and `CardsShown`: the attached page has a card for whatever can still be decided |
| `ChatProofs!EveryoneOnOneChannel` | the fact about Channels itself | a Channel is evicted only when no socket, no open gate and no live turn needs it, and then every handler has left, since a superseded handler leaves before its successor |
| `ChatProofs!TheRecordIsExact` | `Spec => []RecordExact` without `late_close` | `RecordInv`: what a live tool waits for is on record *and* has its future in the current Channel, so no restored copy of it can be decided beside it |
| `ChatProofs!DecisionsArrive` | `Spec => []DecisionReaches` without `late_close` | the same invariant: a decision is recorded only together with the future of the parked tool |
| `CommandGateProofs!HeavyIsBounded` | `GateSpec => []HeavyBounded`, any chats, calls, slots | what changes the system and runs or is being reaped is a subset of `holders`, which is finite and no larger than `Slots` |
| `CommandGateProofs!ShutdownLeavesNothing` | `GateSpec => []ShutdownClean` | what was cancelled in an earlier pass stays done, as a later turn of the chat has a later number; so a pass without new handles finds no active turn; children belong to running calls and those to turns |
| `CommandGateProofs!BlockedDeploysNeverStart` | `GateSpec => BlockedNeverStarts` | one call of a turn is past the tool lock, so no check of the same chat can end between the block and the start (`StillCleared`) |
| `ChannelProofs!ChannelTypes` | `ChannelSpec => []ChannelTypeOK` | inductive with the numbers of the ring's frames, which are consecutive and end at `seq` |
| `ChannelProofs!GateCardOnScreen` | `ChannelSpec => []GateOnScreen`, any ring, both hazards | the card is delivered with the event or re-sent at the end of the handshake, and nothing but a decision takes it away |
| `ChannelProofs!NothingIsMissed`, `StreamedAtMostOnce` | `ChannelSpec => []NothingMissed`, `[]StreamedOnce`, without hazards | `ViewInv`: how far the promise is kept at each step of the handshake: a promised event is on the pane or in the transcript, or still in the snapshot, or after the cursor the page would resume from; no frame is both shown and still to be replayed. It needs that numbers identify the events of one Channel (`RingOK`) |
| `StreamProofs!IdsMatchArguments` | `StreamSpec => []NeverCrossLabelled`, any uses and payloads | `PairInv`: for each payload, as many ids are stashed as uses with it have yet to take one (a retracted use leaves its id to uses that ask the same), so a match exists whenever a call takes one. A corollary: `take_tool_use_id` never raises |
| `StreamProofs!TextComesFirst` | `StreamSpec => []TextFirst` | a call starts only when its message was mirrored, and a mirrored message has its text in the wire |
| `StreamProofs!GivesUpInSilence`, `StreamTypes` | `StreamSpec => []StallsOnlyInSilence`, any watchdog; `[]StreamTypeOK` | `ClockInv`: the watchdog's own clock equals `quiet`, since whatever is heard, and a tool that runs, resets both |
| `StoreProofs!SavedChatsAreKept` | `StoreSpec => KeptUntilErased`, any chats and cap, both values of `StoreHazards` | whoever can write a snapshot holds at least what it has (`HoldersAhead`); snapshots have distinct times, so a pass of retention orders them in a line and keeps the last `KeepItems` of it (`PrunedLeavesNewer`) |
| `StoreProofs!SharesAreFrozen` | `StoreSpec => SharesFrozen` | a share is written once and only taken away |
| `StoreProofs!BundlesCertifyTheirRun` | `ResultSpec => CertifiesItsRun`, any places and reports | bundles and records are stored under the id of what they hold, and a link was made through the record's own id |
| `VerdictProofs!ReadinessTrue` | `VerdictSpec => []ReadyMeansServing`, any cluster | every theorem of this module starts from `Told`: what was answered is what the tool computes from the question. Here the cascade of reasons is split case by case; a first service or condition in a listing exists because a non-empty set of naturals has a least element (`MinIsLeast`) |
| `VerdictProofs!CapacityIsTrue` | `VerdictSpec => []CapacityTrue`, any plan and any outcomes | the planner is known by its wording only, so each outcome of a method is tied to the lines it prints in either mode (`ClassifiedTrue`); for the plan, what is merged at a path is what the most specific layer with a value says (`MergeAt`, `LayersHeard`) |
| `VerdictProofs!ComparisonIsFair` | `VerdictSpec => []ComparedFairly`, any sources and reports | a finite set of naturals can be listed in order (`CanBeLined`: an element's place is how many do not exceed it), so places survive what is dropped; values are compared as physical quantities, in which rows, best and deltas agree whatever the units (`RowsArePhysical`) |
| `VerdictProofs!FrontierIsTrue` | `VerdictSpec => []FrontierTrue`, any number of runs and reports | domination is irreflexive and transitive, so a run that is beaten is beaten by one that itself has the fewest dominators, which is none; the leader is the least of the values read, and what is read is the representative statistic of a block of the report (`ReadValue`) |
| `VerdictProofs!TargetsAreJudged` | `VerdictSpec => []TargetsJudged`, any percentiles, units and targets | the ladder is a line in which the two rungs that bracket a target are neighbours (`LadderOrder`); interpolation stays between them and grows with the target (`Interpolation`, `WithinGrows`), which needs facts about rounded quotients (`QuotientGrows`, `QuotientBetween`) |
| `VerdictProofs!RetentionIsLeast` | `VerdictSpec => []PrunesLeast`, any items, caps and clock | the pass over the sizes takes the oldest idle item as long as the rest is too large. `Bytes` adds up a set in any order to the same sum (`SumsAreOne`), so what is taken is a beginning of the line of idle items (`BytesFromTheOldest`), and with its last item less the sum is over the cap (`NoFurther`) |
| `VerdictProofs!EstimateIsTrue` | `VerdictSpec => []EstimateTrue`, every profile | a running sum of stages is at least each limit met on the way, and what is missing is missing in some stage (`StagesAreBounded`, by `Climb`); the two layouts are split into the limits they know (`SpecIsHonest`, `FlatIsHonest`); a preview finds what the catalog lists since both walk one search order (`ListedAreFound`) |
| `VerdictProofs!DesignIsComplete` | `VerdictSpec => []DesignComplete`, any factors, levels and knobs | the crossing of *n* lists holds each choice once (`CrossedLists`: a position of the product is a pair of positions); names stay apart although a counted one may be taken (`NamesTaken`, `ExpandTreats`); sorted keys have a prefix before what lies under it, so a later key never removes an earlier one that is not its prefix (`KeysLineUp`, `SetBuilds`) |
| `CommandPolicyProofs!ApprovalIsTrue` | `VerdictSpec => []ApprovalMatchesEffect`, any request and any words passed through | a composed line is options with their values up to what is passed through (`Paired`), so the walk descends to the entry of its own subcommand and, where it rejects nothing, has seen every option of the last region. That entry knows exactly the options that make the command harmless, whatever they are combined with; before the subcommand a preview option stands in a region where it is no trigger. The store's commands are followed through the levels of their entries |

The last four need induction over data: over the items of an area, the stages of a load,
the lists of a design, the tokens of a command line. The library's induction theorems cannot
be used here, as they take an operator as a parameter. Two lemmas about *sets* stand in for them. `Climb`: a set of
naturals that has 0, and with each number the next, has them all; the induction's formula
is then the set of numbers it holds for. `Recursion`: for every step function there is one
function on `0..N` that starts and goes on as it says, as one that is right up to a place can
be made right of the next, and that is what a recursive function of a module denotes. `SumsAreOne` is
the same for sums over finite sets, by their cardinality.

The hypotheses are conditions on the constants, each satisfied by a run and each needed.
`"late_close" \notin Hazards`: where a superseded socket may close late, the Channel a turn
holds can be forgotten (`chat_late_close`, section 6, item 4). `"read" \notin Hazards`:
`sweep_failed_load` and `sweep_failed_poll` show what a failed get does. `"write"`: a mark
that did not land marks nothing. One caller: two callers of one sweep id overwrite each other's
checkpoint, which nothing in the code prevents; `OutcomesTruthful` and
`LiveJobsAreKept` hold regardless. `ChannelHazards = {}`: section 6, *Replay*.

Assumptions on constants are `SweepAssumption`, `ChatAssumption` and those of the
modules of `platform`: the "no object" values are none of the objects, bounds are naturals,
hazards are those named; and `QuestionsAssumption` (section 2).

Model-checked only, and why:

* `SweepEnds`, `StopEnds`, `MessageSettles`, `ApprovedGetsItsTurn`, `WedgeEnds`: liveness
  under fairness is beyond the prover.
* `StoppedStaysStopped`, `HeardInOrder`, `DeletedStaysDeleted` are violated by the code
  (section 6), and no condition short of leaving out the interesting actors makes them true.

The type predicates of `CommandGate`, `ChatStore` and `ResultStore` are stated for the reader:
no run lists them, and the proofs about these modules carry the parts they need
in invariants of their own.

## 6. Where code and its comments disagree

1. `sweep_failed_load`: `CheckpointStore.load` ignores the exit code of
   `kubectl get configmaps`; a failed read loads an empty checkpoint, and the
   next write overwrites completed records (`checkpoint.py:200` against `:19`).
2. `sweep_failed_poll`: one failed poll after the Job was seen is read as "the
   Job vanished"; the retry runs beside the live Job (`controller.py:172`).
3. `sweep_stop_retry`: the watch of the launching chat restarts, as the next
   attempt, a Job that `action="stop"` deleted (`manage_runs.py:90`).
4. `chat_late_close`: the handler's `finally` forgets the session's Channel by
   session id, whichever Channel it now is; a superseded socket that closes late
   evicts its successor's, and after a reload an approval is recorded that the
   parked turn never receives (`main.py:1029`).
5. `chat_steer_order`: `drain_steers` puts the live turn's queue before
   `ctx.steer_messages`, whose messages are older (`engine.py:112`, "in arrival
   order").
6. `deleted_chat`: `delete_session` removes the workspace and then cancels the turn,
   whose handler persists the session once more; the deleted chat is listed again
   (`main.py:730` against `session.py:423`).

Behaviours the models contain, that are exceptions in the properties and not
findings: a stop before a turn's first step announces nothing and leaves the
handle in the registry (`EndAnnounced`, second disjunct of its conclusion); the
second cancel of a slow stop may cut an interrupt short and leave a tool running
after its turn (`CancelledDisconnecting`); a tool ended while it sends its card
leaves its gate pending (`RecordExact`, stage `cut`).

Met while modelling, in the models where they are about control, and not stated as
findings, because no line of the repository promises the contrary outright or the
effect is small:

* *Replay.* A live frame that arrives during a handshake moves the page's cursor past
  frames the replay still has to send (`app.js:574`); if the connection fails right
  then, the next handshake patches from that cursor and skips them. With
  `ChannelHazards = {"late_drop"}` `NothingMissed` fails.
  A cursor is a number without the Channel it belongs to: when the page's Channel was
  forgotten and another page ran a turn on its successor, the old cursor can lie in the
  new ring's window, and the page is patched with the wrong frames. With
  `ChannelHazards = {"other_page"}` `NothingMissed` fails too.
* *Units.* `report.py:321` normalises s and ms because both are valid; the Pareto
  objectives (`analysis.py`, `_objective_value`), the history's trend and the
  cross-harness metrics compare raw values.
* *Goodput.* The estimate is called an upper bound, but a target equal to a value shared
  by several percentiles takes the lowest of them. The success rate is rounded to two
  decimals before it is compared, so 1 failure in 20001 meets a target of 100 %:
  `TargetsJudged` allows for that rounding.
* *Readiness.* `_parent_conditions` speaks of any parent; `_condition_status` takes the first.
* *Provenance.* Record ids are said never to collide; two runs without a uid, at the same
  path and with the same headline, do. A bundle's repository state is read in
  two awaits at export time, and exporting again after an edit overwrites the bundle of
  the same id. `_attach_to_history` rewrites a record in place, unlike
  `HistoryStore.add`.
* *Storage.* A `.json.tmp` left by a crash counts against the cap of a "file" area;
  `persist` swallows an OSError, yet SESSION_SAVED is emitted.
* *Plans and policy.* With an empty catalog `validate_plan` accepts what the policy refuses.
* *Workloads.* The duration estimate of inference-perf sums the stages that have a
  duration and leaves out the others; the profile reader prefers `<name>.yaml.in`, the
  catalog's comment says the CLI looks for `<name>` first.
* *Scenarios.* A knob that is a prefix of another is lost although it is reported as set;
  `DesignComplete` is stated for the knobs that remain. In a plan, a key without a value in a
  method's section hides the value of the common section in the same layer.

## 7. Not modelled, and why

* In the chat: `busy` (a turn for which it is set is also `running`, so the guard
  without it allows no less), the model picker, ping and malformed frames, usage
  accounting, the provider badge and the health routes. Numbering, the handshake,
  deletion, shutdown, the watchdog and the pairing of tool calls are in modules of their
  own: in one state space with `ChatSession` they would be out of TLC's reach.
* The Codex engine beyond its watchdog: it unwinds through other awaits than the
  Claude engine, which `ChatSession` follows.
* Commands: the environment and the output of a child, executables of the policy file
  other than `llmdbenchmark`, the shapes of argument values (regular expressions).
* Results: session performance, token shapes and prompt sources, trends, the self-check of a
  bundle; the hoisting of modelservice settings and the summary of a pod's age and
  restarts.
* In the sweep: manifests beyond the Job's name, log tails, metrics, the split of
  a live Job into pending and active (no guard reads it).
* Metrics, logging, the tool registry and its schemas, prompts, packaging, the rendering
  of the page, deployment files: no control decision of the program reads what they keep.
* Liveness of the replay: a page whose connection fails again and again never becomes
  live, and nothing in the code says it should.

## 8. Plan

Order by what matters most; done parts first.

1. *(done)* Sweep: `SweepOrchestrator`, `SweepLedger`, proofs.
2. *(done)* Chat: `ChatSession`; one turn at a time, consent, reachable gates.
3. *(done)* `EventChannel`; `CommandGate` with the shutdown; `ChatStore`, `ResultStore` and
   `Retention`; `AgentStream`: in the run `platform`.
4. *(done)* The algorithms, composed in `Verdicts`.
5. *(done)* Proofs about `EventChannel`, `CommandGate`, `AgentStream`, `ChatStore` and
   `ResultStore`: every safety property that a run checks of them.
6. *(done)* Proofs about the chat and the sweep: likewise.
   *(done)* Proofs about `Verdicts`: all nine invariants.
7. Composition: an abstract consent protocol (ask, decide, act) that `ChatSession`
   implements, and the orchestrator's approvals as its client.
8. The Codex engine's turn, and its unwinding under a second cancel.
