# A verification project for the BitFun agent runtime

BitFun is a desktop, CLI and server application that runs coding agents. This
directory holds TLA+ models of the parts of it that decide what runs when and
what its users see of it: the dialog scheduler with the coordinator's turn
lifecycle, the small concurrent structures they rest on, the outcomes of
background subagents, and the stream of events from the runtime's journal to
the screen of a client. TLC checks the models on small instances and TLAPS
checks proofs about them for every instance. Paths below are relative to
`src/crates/`; `core/` stands for `assembly/core/src/agentic/` and `web/` for
`src/web-ui/src/`.

## The system

### Inventory

| Component | Where | State | Operations | What makes it hard, and what makes it correct |
|---|---|---|---|---|
| Dialog scheduler | `core/coordination/scheduler.rs`, `execution/agent-runtime/src/scheduler.rs` | per session: operation lock, priority queue, active turn, suppressed replies, maintenance tombstones, injection buffer; one outcome channel | submit, steer, cancel (turn, session), interrupt, recover, maintenance, outcome handler | tasks and handler run outside the lock, waits under the lock are bounded; one uncancelled turn at a time, no accepted turn lost, the queue always moves |
| Conversation coordinator | `core/coordination/coordinator.rs` | session execution counters, interrupt intents, subagent executions | start, stop, recover a turn; terminal writes; drain | a stopped task may overlap its successor; terminal writes fail and fall back |
| Turn settlement tracker | `core/coordination/turn_settlement.rs` | `active`, `completed`, `completed_order`, a watch channel and a count per generation | register, accept, clone, drop, wait | two maps without a common lock; settled only after the last registration, no gap between the maps |
| Per-key lock | `core/keyed_lock.rs` | weak references to per-key mutexes | lock, drop of the guard | the mutex of a key is freed and allocated again; two generations of it must never be held at once |
| Session execution counters | `core/coordination/coordinator.rs` (`register_session_execution`, `wait_session_drained`) | per session counter, shared by the leases of its tasks | register, release, drain | counter removed while a registration holds a clone of it |
| Session manager | `core/session/session_manager.rs` | sessions, turns, recovery facts, persistence | state changes conditional on the current turn, reopen, abandon, evidence writes | state change and write are two steps; modelled as used by the scheduler |
| Background outcomes | `core/coordination/background_outcomes.rs` | live results, a wake-up for waits, the controls of tasks (in the coordinator) | register, complete, cancel, discard, wait, claim, reconcile, roll back, delete | watcher, canceller and waits of overlapping turns meet at one row; the host may die; told once, true, and no wake-up lost |
| Coordination store | `core/coordination/coordination_store.rs` | SQLite rows of agents and background tasks | insert, first-status-wins update, claim, roll back | a crash between a statement and what follows it in memory |
| Event queue and router | `execution/agent-runtime/src/event_queue.rs`, `event_router.rs` | priority queues, sequence numbers, subscribers | enqueue, dequeue batch, subscribe | order within a session, limits, guaranteed events |
| Session event journal | `execution/agent-runtime/src/session_event_journal.rs`, `assembly/core/src/service/session_projection_store.rs` | per session: cursor, projection of the turn, bounded tail; a log on disk | record, delete, events since a cursor, snapshot, restore | eviction, pruning, overlapping turns, restart, torn log; a delta is never a guess |
| Client session stream | `web/flow_chat/session-stream/`, `web/flow_chat/services/flow-chat-manager/PeerSessionRefreshModule.ts`, `web/infrastructure/peer-device/runtimeSessionEventGate.ts` | applied position, gap, held events, settled turns; the read in flight | offer, read, settle, abandon, catch up, replay | lost events, events during a read, a host that restarts; the screen never goes back and catches up |
| Permissions | `execution/agent-runtime/src/permission.rs` | pending requests, waiters, grants | request, answer, expire, cancel | answer and cancellation race; a request is answered once |
| User questions | `execution/agent-runtime/src/user_questions.rs` | pending questions | ask, answer, cancel | as permissions |
| Thread goals | `execution/agent-runtime/src/thread_goal.rs` and core tools | goal status and budget | create, continue, pause, resume | continuation submits turns after an outcome, user cancellation aborts it |
| Scheduled jobs | `assembly/core/src/service/cron/`, `execution/agent-runtime/src/scheduled_job.rs` | job state, next run, active turn | tick, enqueue, turn completed, retry, coalesce | an outcome for an older run, a missed tick, a restart with an active turn |
| Deep review | `execution/agent-runtime/src/deep_review/` | budgets, queue, effective concurrency | admit, retry, adapt | counters at their limits |
| Tool pipeline | `core/tools/pipeline/` | tool task states, cancellation tokens | schedule, confirm, cancel, retry | cancellation against completion |
| Runtime IPC | `adapters/agent-runtime-ipc/` | session leases, operations, connections | attach, operate, detach, reconnect | lost connection during an operation |
| Dispatch | `assembly/core/src/service/dispatch/` | work dispatched to remote hosts | prepare, run, collect | remote failure, duplicate delivery |
| Relay service | `services/relay-service/` | rooms, devices, forwarded messages | join, leave, forward | device replaced while messages are in flight |
| Plug-in host | `adapters/opencode-plugin-host/` | peers, streams | open, write, close | stream closed by both sides |
| Terminal, MCP, LSP, remote SSH, git, storage services | `services/`, `adapters/` | processes, connections | I/O | mostly I/O |
| Front ends | `src/apps`, `src/web-ui`, mobile, installer | views | rendering | outside the scope |

### How the modelled parts interact

A submission takes the session's operation lock, decides from the session
state, the active entry, the recovery hold and the queue, and starts the turn
or queues it. Starting a turn opens it in the session manager, spawns a task
and records the active entry. The task executes the turn, makes its terminal
write, settles the session state and sends an outcome on one channel for all
sessions, then drops its guard, which decrements the session's execution
counter, and its settlement registration. The outcome handler takes the lock,
retires the active entry, releases the lock, drains injections and forwards a
reply, and takes the lock again to dispatch the queue. Cancellation,
interruption, recovery and maintenance hold the lock while they signal the
task and wait, for a bounded time, for the counter to reach zero.

A turn may start subagents in the background. The coordinator inserts a row for
the task, submits the subagent, and spawns a watcher that records its outcome.
A wait of this or a later turn reads the rows, sleeps until a change, and claims
what has ended; the claim is what makes the outcome told once. Rolling turns
back deletes the tasks they started and undoes the claims they made.

Every event of a turn passes through the host's delivery loop, which records it
in the journal, with a cursor, and sends it to the clients with that cursor.
Nothing acknowledges it. A client compares the cursor with the position it has
applied; when it is behind, or its stream was silent for some seconds, it puts
up a fence that holds live events and reads what it missed, first as a delta
after its position and, if the journal cannot prove that contiguous, as a
snapshot of the turn's projection.

## The modules

| Module | Models |
|---|---|
| `DialogScheduler` | one session of the scheduler with its tasks, coordinator and outcome handler |
| `MCDialogScheduler` | its instances |
| `DialogScheduler_proofs` | the theorems about it |
| `DialogSchedulerActive_proofs` | more theorems: the active entry, its tombstones, injections, the hold of an interrupted turn |
| `TurnSettlement` | the settlement tracker |
| `MCTurnSettlement` | its instances |
| `TurnSettlement_proofs` | the theorems about it: types, settled turns have no user, what it remembers of them and answers to waits |
| `OperationLock` | abstract: what the callers of a per-key lock rely on |
| `KeyedLock` | the lock registry for one key, which implements it |
| `MCKeyedLock` | its instances |
| `KeyedLock_proofs` | the theorems about it |
| `SessionEventJournal` | the journal of all sessions, its log, restart |
| `SessionStream` | one client of it: extends the journal with the way to the client, the stream and the refresh |
| `MCSessionStream` | its instances |
| `SessionStream_proofs` | the theorems about the journal and the client: types, deltas, the turn in flight, the log, the order of the screen |
| `SessionStreamFence_proofs` | more theorems: nothing but what was lost is missing on the screen |
| `BackgroundOutcomes` | the background tasks of one parent session, their rows, watchers, cancellation and waits |
| `MCBackgroundOutcomes` | its instances |
| `BackgroundOutcomes_proofs` | the theorems about it: types, outcomes are told once |
| `BackgroundTruth_proofs` | more theorems: what rows and reports say is true and complete |

### DialogScheduler

An operation that holds the lock and waits for nothing but the lock is one
action: nothing that the lock protects can change under it. One that waits for
the turn's task to drain is a begin action, which takes the lock and does what
comes before the wait, and an end action. What runs without the lock is a step
of its own: the end of an execution with its terminal write (`EndExecution`),
the conditional state change (`SettleState`), the outcome (`Report`,
`CommitInterruption`, `LoseInterruption`), the drop of the guard (`Exit`,
`Panic`), the reply stage of the outcome handler (`ForwardReply`), and the drop
of a recovery admission (`RecoverUndo`).

`phase[t]` is the life of a turn and of its task. The execution counter of the
session is the number of turns in an executing phase (`Drained` is zero).
`active`, `queue`, `suppressed`, `retired` and `buffered` are the scheduler's
tables, `intent` the coordinator's, `state`, `current`, `latest` and `durable`
the session manager's. `token` holds the turns whose cancellation token is
signalled; the token goes when the execution ends. A turn that is recovered
executes again under the same id; `resumes` counts that.

Submissions with a turn id that was used before are refused before the queue
and are left out. So are the submissions that reject when busy, which change
nothing, goal continuation, which submits like any other source, and hidden
subagents and background deliveries, which use the same queue and buffer.
`StartMayFail`, `PersistMayFail`, `RecoveryMayFail`, `DrainMayTimeOut` and
`TaskMayPanic` are the failures of the environment: an instance that sets one
to FALSE checks what the code promises when that failure does not happen.

### TurnSettlement

`active`, `completed` and `order` are the three structures of the tracker.
A holder's registration is `held[h]`; `Drop` of it is split where the code
releases nothing but takes the next lock: the settlement under the slot of
`active`, the push to `completed_order`, each round of the eviction loop in two
steps (the test and the removal), the release, and the removal from `active`.
`wait` looks up `active` and then `completed` in two steps. `wgen` is a history
variable: the generation a waiter's turn has had for the whole of its call.

### KeyedLock and OperationLock

`OperationLock` has the parties that want the lock and the one that holds it.
Its `FairSpec` is strongly fair: who keeps waiting for a lock that keeps being
released gets it. That is what `DialogScheduler` assumes of its variable `lock`
for the outcome handler.

`KeyedLock` is the registry as the code has it: `registry` is the weak entry of
the key, `at[p]` the generation a party refers to, `owner` and `queue` the
tokio mutex of each generation. `Lock` is the section under the registry's
mutex, `Poll` and `Wake` the await, `Abandon` the drop of the future that
awaits. The drop of a guard has three steps because nothing holds them
together: the permit goes, the strong reference goes, the registry is looked
at. An address may be allocated again when no reference, weak or strong, is
left, which is why the guard keeps a weak one to compare with. The refinement
maps a party that was given the permit and is not woken yet to one that still
waits.

### SessionEventJournal and SessionStream

`sessions[s]` is the projection the journal has of a session, `storing` the
store operation that `record` does after it let go of its lock, `disk[s]` the
lines of the log. An event is told by its turn, its kind (it starts the turn, is
part of it, or ends it) and by `at`, the process and the place among the events
of its session: `history` has them all, and "the events that were missed" is a
piece of it. Merging a chunk into the last event keeps what both say, so that
the model appends it; that a projection of thousands of events is compacted is
left out. A turn sends nothing before its start and, where tasks do not overlap,
nothing after its end; sessions in `LateEvents` have overlapping tasks.

`SessionStream` extends the journal by one client. `transit` is the way to it,
which keeps the order and may lose events (`Lose`, and `HostRestart`, which
breaks the connection). A read is three steps: it begins, with the fence; the
host answers, at a moment of its own; the answer is painted and the fence
lifted. `tryIncrementalCatchUp` and the snapshot path of `runRefresh` are a
`backfill` that turns into a `snapshot` without the fence being lifted between
them. `painted[t]` is the list of the events of a turn whose content is on
screen; replaying a snapshot replaces it. A snapshot that has nothing to say is
either one the journal has no turn for or one of a session that the host says is
not processing. Whether a snapshot that is not ahead is replayed depends on
which tools show as ended, which the model leaves open, and so does with
`ToolsMayLag` whether a delta or a replay leaves the screen behind.

### BackgroundOutcomes

`row[t]` is the record on disk, and a statement on it is one step. `task[t]` is
how far its start and its watcher are, `result[t]` what the watcher received,
`child[t]` the persisted turn of the subagent, `control[t]` the entry in the
coordinator's table with its suppress flag, `batch` the canceller between
claiming controls, its statement on each row and its wake-up. `complete` is two
steps, as the live result follows the statement. `wait[p]` is the call of
`wait_for` by turn `p`: AgentWait does not run concurrently within a turn, but a
turn may overlap the next. The head of its loop is one step: the `Notified` is
made before the rows are read, and a change between the two only wakes it
needlessly. `Decide` is the rest of a round, with the claim, whose statement
decides what is told. `Return` is what the parent's conversation then says, in
`told`. A crash ends the process; the next has another owner token, and finds
the rows. `partial_timeout` is as `completed`.

The rows of one process at a time are modelled. Two hosts on one database would
take each other's running tasks for stale.

## The runs

| Run | Instance | Shows |
|---|---|---|
| `settlement` | 2 turns, 3 generations, 2 holders, capacity 1, fair | type, settlement after release, no overlapping generations, no leak, no unjustified `Unknown`, every wait is answered |
| `scheduler_overlap` | 3 turns of 2 priorities, queue of 2, cancelled tasks overlap their successors | order of the queue, no stranded queue, the hold of an interrupted turn, the active entry and tombstones are always resolved |
| `scheduler_failures` | a user turn and a request, 1 recovery, all failures: starts, terminal writes, drains, recoveries, panics | no accepted turn disappears, exclusive execution, no stuck Processing, exclusive maintenance, requests are not recoverable |
| `scheduler_liveness` | the same two, terminal writes fail, fair | queued turns move, active entries are retired, injections end with their turn |
| `lock` | 3 parties, one of which may give up, 4 addresses, fair | mutual exclusion, one live generation, dead entries only after a dropped wait, implements `OperationLock` |
| `stream` | 2 sessions, 4 events, tail of 2, 1 retained, 1 lost event, 1 read that fails or leaves a tool behind; one session's turns overlap | a delta is the missed suffix, a snapshot is whole, only lost events are missing |
| `stream_catchup` | 1 session, 3 events, 1 restart with a torn log, none retained, fair | the log restores what memory had, the screen never goes back and catches up, held events are released |
| `background` | 1 task, 2 turns, 2 crashes, 1 failed write | told once, to the turn of the row, as the row says, and true of the subagent; no task forgotten |
| `background_tasks` | 2 tasks, 1 turn, fair | waits are answered without their deadline |
| `scheduler_reply`, `scheduler_steering`, `scheduler_admission` | 2 or 3 turns | findings |

Bounds. Two turns are a turn and its successor, or a turn and what is queued
behind it; three are needed when an older outcome meets a started and a queued
turn, and for the order of a queue. A queue of two (one with two turns) is
reached and refuses. One recovery is enough for a turn that executes twice
under one id. In `TurnSettlement` three generations of two turns reach the
eviction of an older generation of a turn whose newer one is settled. In
`KeyedLock` three parties are one that unlocks, one that waits for its
generation and one that asks while the entry is being removed; one address more
than parties means that a call always finds memory. In `stream` four
events overflow a tail of two and end a turn, so that one of two ended
projections is pruned; a turn that comes back after another needs four. Three
events are enough for a restart in the middle of a turn, with one event lost and
one held. In `background` a task and two turns are a claim, its rollback and the
claim by the other turn, or two claims that race; two crashes are a task that is
reconciled and a claim that is cut off. What a wait for several tasks adds, a
pending task and the debounce, needs two tasks and one turn. The bounds on
events, restarts, losses, failed reads and failed writes (`MaxEvents`,
`MaxRestarts`, `MaxLost`, `MaxFailed`, `MaxFailures`) and on recoveries and
registrations (`MaxResumes`, `MaxRegistrations`) are bounds of the models;
`MaxTail`, `MaxTerminal` and `MaxQueueDepth` are small values of constants of
the code.

Fairness. A turn's execution ends and its tail runs (rounds are bounded and
cancellable); an operation that holds the lock ends, since its waits have
timeouts; the admission is dropped; the outcome handler gets the lock when it
waits for it, because tokio's mutex serves its waiters in order (strong
fairness, as others take the lock in between). No submission, cancellation or
user action is fair, and timeouts are not assumed to fire in
`settlement`. In `lock` a task is polled when it was woken and nothing else is
fair; holders need not release. A party whose waits are dropped again and again
may be passed over for ever, so the strong fairness of `OperationLock` is
promised to the others only (`Patient`). The outcome handler is one of these: no
one drops its future while the application runs.

In `stream_catchup` events on their way are delivered, the 3-second poll goes
on, and a read that was begun is answered and painted unless it fails, which it
does only so often; no event is assumed to come. In `background_tasks` spawned
watchers, the canceller and the tasks of the waits are scheduled, and the
debounce timer of five seconds fires. The deadline of a wait is not counted on,
as it may be an hour away, nor is the end of a subagent.

Deadlock is checked for the lock and for the stream. It is not for the
scheduler, the tracker and the background tasks: a session in which every turn
was submitted and ended, or discarded, has nothing more to do.

## The proofs

`TurnSettlement_proofs` proves, for any sets of turns, generations, holders and
waiters, the type invariant and the two central safety properties. A settled
entry having no user is not inductive: the drop that settles an entry relies on
the counter being exactly the number of its registrations in use. The inductive
invariant `IInv` therefore says that the counter of the live entry of a key is
the cardinality of its users (finite, since holders are), that every
registration in use refers to the live entry of its key, that an entry is
allocated for the key it is live for, and that a drop in progress belongs to an
entry that is settled and out of users while its slot is still locked. One
lemma per group of steps (allocation, joining, the kinds of drop, the middle of
a drop, everything that leaves these variables alone) shows that it is kept.

The second half of the module is about settled turns. Its invariant `Memory`
adds to `CompletedIsEvictable` that an entry is remembered under the key it was
allocated for and that only the owner of `completed_order` has an entry in hand.
For a wait, which looks in `active` and then in `completed`, `WaitsAreTracked`
says of every stage what its turn was when the stage began: a turn that was live
then and is neither live nor remembered now was evicted or replaced, so that its
generation has changed and the answer `Unknown` is justified. It needs that an
entry that is live in a step without being so before is fresh
(`LiveEntriesAreFresh`): a generation does not come back.

`DialogScheduler_proofs` proves six invariants of the scheduler for any set of
turns, any priorities and queue limit, any bounds on recoveries, and whatever
combination of failures is enabled:

- `TypeCorrect`: the type needs `EndedTurnsHaveAReport` (a task past its
  terminal write knows the outcome it will send), so that no outcome is sent
  without a status.
- `TurnsExecuteExclusively`: a turn that executes and was not told to stop is
  the one the session processes. This is inductive given the types: all the
  operations that start or resume a turn find the session not processing.
- `MaintenanceIsExclusive` from `MaintenanceIsPrepared`: from the moment
  maintenance has cleared the queue until the permit is dropped nothing is
  queued and the session is not processing, and no operation can take the lock
  to start a turn; the permit is given when the session is also drained and has
  no active entry.
- `AcceptedTurnsAreKept` and `QueueStaysOrdered` from `QueueIsTidy`: the queue
  holds exactly the waiting turns, each once, sorted, and within its limit,
  where a turn that is taken out and fails to start returns to the place it
  came from. The lemmas on `Enqueue`, `Remove` and requeueing are about any
  sequence.
- `ProcessingHasATask` from `ProcessingIsLive`: while the session processes,
  its current turn is executing or past its terminal write with the state
  change still to come.

The proof that a step keeps an invariant groups the actions by what they touch
(starting operations, controlling operations, steps of the task); a grouping
lemma says what each group may change, so that an invariant is argued once per
group and per action only where it can be disturbed.

`DialogSchedulerActive_proofs` adds invariants of the scheduler that relate the
active entry, the outcomes on their way, and the tombstones. Of an outcome
channel they say whether it carries none, one, or two outcomes of a turn
(`Carries`, `CarriesOne`, `CarriesTwo`), with a lemma for sending and one for
taking. All operations that start a turn change these tables in one way, which
`StartingBegins` states once for all of them.

- `ProcessedTurnIsActive` from `EntryIsKept`: the latest turn has the active
  entry, unless it is being recovered, and every outcome of it that could take
  the entry is covered by a tombstone (`Expired`).
- `RequestsAreSettled` from `RequestsRunThrough`: a turn with a reply route has
  no interrupt intent, so that neither its terminal write nor its report is an
  interruption and no recovery finds it.
- `ActiveEntryIsRetired` and `TombstonesAreTaken` from `OutcomesAreOwed`: the
  entry of a turn stands for one outcome that is to be sent or on its way, its
  tombstone for another.
- `InjectionsEndWithTheirTurn` from `InjectionsAreDue`: what is buffered for a
  turn has an execution, an outcome, the discard that follows it or a recovery
  to come. The last outcome of a turn decides which (`EndsInterrupted`), and an
  outcome that interrupts leaves injections only for a turn that is persisted
  as interrupted.
- `QueueIsNotStranded` from `QueueIsDriven`, which says more precisely who will
  look at a queue: the channel has an outcome that no tombstone takes (`Wakes`),
  the handler is to dispatch, or the latest turn has its outcome still to send.
  An outcome that a tombstone takes leaves the one that wakes in the channel.
- `HoldIsKept` from `ErrorIsNotHeld`: a session in Error is not also held, so
  that a submission to it, which starts at once, passes over no hold.

`KeyedLock_proofs` proves that generations do not overlap, mutual exclusion,
and that the registry refines the safety part of `OperationLock`, for any
parties and addresses. Mutual exclusion is not inductive: two guards could be
for two generations. The invariant adds that every strong reference is to the
generation in the registry and that a guard owns the permit of its generation.
From the same invariant, `OnlyDroppedWaitsLeakEntries` is proved as an action
property: a step that leaves an entry which no party refers to, and so none will
remove, is the drop of a wait.

`BackgroundOutcomes_proofs` proves, for any numbers of tasks, turns, crashes and
failed writes, the type invariant and `DeliveredOnce`. The types need
`ResultsAreReceived`: a watcher that records has received something. That an
outcome is told once is not inductive, as two claims could be on their way; the
invariant `OneHolder` says that at most one turn was told of a task or is about
to be, that the row names it as long as there is a row, that who is about to be
told was not told before, and that a task that was not started has no row. A
claim finds its rows undelivered, so that nobody holds them; a return turns the
claim of a turn into its first report; a rollback undelivers exactly the rows of
the turns whose reports it removes, none of which can have a claim. Every other
step is `Quiet`: it neither claims, nor tells, nor changes what a row says of
its delivery. A crash is quiet as well, as it only takes claims away.

`BackgroundTruth_proofs` proves the other four invariants of the runs about
background tasks. `DeliveriesWereTold` rests on claims being kept: a row that was
claimed is told, rolled back, or lost in a crash. `ReportsAreRecorded` needs
`Stages` (what is known before a task has a row) and `OneStatus`: every status
of a task, in the live table, in what a wait has found, and in the conversation,
is that of the row (`Agreed`), which is final (`RowsAreFinal`).
`OutcomesAreTrue` needs that the watcher has what the subagent's turn ended with
(`ResultIsTheChilds`), and `TasksAreNotForgotten` that a watcher whose control is
suppressed leaves a canceller that has its statement still to make
(`Suppressed`).

`SessionStream_proofs` is about the journal and its client, for any sessions,
turns, tails, losses and restarts. The client and the way to it leave the
journal alone (`NextSteps`). What recording an event does is said once
(`RecordFacts`), with what pruning may do to every session afterwards
(`Pruned`). The models fold over held events, deltas and the lines of a log with
recursive functions; `Iterates` proves that such a function exists, by
following its finite prefixes, and `ReleasedSteps`, `PaintAllSteps` and
`RebuiltSteps` give each fold as a sequence of steps that the other lemmas
follow from one end to the other (`UpTo`).

- `JournalTypeCorrect`: the part `JournalTypeOK` of the type invariant.
- `DeltasAreWhatWasMissed` from `TailsAreSuffixes`: the cursor counts what this
  process recorded, and the tail is the end of that, numbered as it is, whatever
  was evicted. A cleared projection has an empty tail, which serves only a
  client that missed nothing. `TailSinceIsSuffix` then says what `tail_since`
  answers of such a tail, by the positions it keeps.
- `SnapshotsAreWhole` from `ProjectionsFollow`: a projection knows the turn that
  recording came to, unless that turn is over, in which case it may have been
  pruned to a cursor; a terminal projection is of a turn that ended. So an event
  that finds no turn is not of a turn in flight, and begins a projection of its
  own.
- `LogsAgreeWithMemory` from `LogsRestore`: as soon as the store operation on its
  way is done, the log of a session whose turn is over is empty, and that of any
  other ends with the lines of this process, which rebuild the projection in
  memory. A projection that is over is never continued, its log being gone: turns
  start in order, each once (`TurnsHaveStarted`), so that a start always begins a
  projection of its own. `JournalIsOrdered` (events are numbered, projections and
  logs are in order, and a line on its way is the newest) says where the lines of
  this process begin.
- `TypeCorrect`, with `ClientIsTyped`: the answer that waits is of the kind that
  was asked for, and a backfill was asked for at a position.
- `ScreensAreOrdered` from `ClientInOrder`: every event on its way to the client
  or held by it carries its number; the applied position covers what is painted
  of this process (`Fits`); a delta that waits begins where the applied position
  stands, which nothing moves during a read (`DeltaFits`); a snapshot of an older
  process, served from the log, was served while this process had recorded
  nothing, so that nothing of it is on screen (`ShotFits`). A host that restarts
  fails the read in flight and loses what is on its way, so that all the client
  has is of an older process (`FitsLater`).

`SessionStreamFence_proofs` proves `OnlyLostEventsAreGone`: of a turn whose
events came one after the other and whose end was the last of them, nothing is
missing between what shows, in any state, but what was lost on the way. That
relates the screen to everything that was ever recorded, in three steps:

- The journal, `JournalRuns`: every process numbers what it records
  (`AllAreNumbered`); the events of a projection end with the newest of its
  process and have no gap (`ContentRuns`), and neither has a log within what one
  process wrote, torn lines excepted (`LogsRun`); turns begin in order
  (`TurnsBegin`). Hence a snapshot is a run of events up to its position, and a
  turn it is not of, if that is in order, is over or has not begun.
- What is on screen, `Covers`, is about sets alone, without queues and folds. An
  event beyond the place of the client is on its way, or lost (`Accounted`). One
  that the place has reached and that does not show is before all that shows of
  its turn, or after it with another turn's event behind it (`Reached`), so that
  nothing of its turn can show after it any more. What shows beyond the place,
  which takes a delta with a tool that lags, shows as a whole (`Ahead`). Of an
  older process, what does not show is before or after all that shows (`Left`).
  A lemma for each thing that can happen to a screen, such as a live event, a
  batch, a snapshot, a new process or a new record, says that this is kept.
- The client, `ClientCovered`: what is held, what is on its way and what is being
  stored follow each other in the order of their cursors (`Queue`, `Precede`), so
  that dealing with the first of them passes over none; the answer that waits
  resumes where the place stands, or is a run that ends at or beyond it
  (`AnswersCover`); and a turn is taken to be over only when its end has been
  dealt with (`Over`), so that an event dropped for that reason is of a turn that
  is not in order.

The property needs no exception for a client that is reading, nor for a turn
that is settled: it is stated of every turn in every state. The run `stream` has
no restart; the theorem covers any number of them.

The theorems rest on the assumptions the modules name on their constants
(finite sets of holders where a count is taken, distinguished values outside
the sets, natural bounds). Seven of them exclude a failure of the environment, as
hypotheses of the theorem, since the code does not promise as much with it:
`ActiveEntryIsRetired`, `TombstonesAreTaken` and `InjectionsEndWithTheirTurn`
assume that no task panics and no admitted recovery is refused (`~TaskMayPanic`,
`~RecoveryMayFail`), `QueueIsNotStranded` in addition that starts succeed
(`~StartMayFail`), `HoldIsKept` that terminal writes succeed
(`~PersistMayFail`), `ScreensAreOrdered` and `OnlyLostEventsAreGone` that no read
is answered by the next process of the host (`~ReadsOutliveHost`), and the first
of these that what a delta painted shows (`~ToolsMayLag`). Instances that enable
the failure violate the property; the observations below say how. No other
theorem excludes a failure: starts, drains, terminal writes and recoveries may
fail, tasks may panic and timeouts fire.

`ProcessingIsActive` is stated of turns that were recovered less than twice, for
the reason given with the observations below.

What is only model-checked: liveness, which is out of the prover's reach
(`QueuedTurnsMove`, `ActiveTurnsRetire`, `WaitersAnswered`, `WaitsAreAnswered`,
`ScreenCatchesUp`, `HeldEventsAreReleased` and the fairness in
`ImplementsOperationLock`). Every safety invariant and action property that a
passing run checks is a theorem.

## What the runs found

1. `scheduler_reply`: the dispatch of an older outcome can replace the active
   entry of a finished request, whose reply is then never sent.
2. `scheduler_steering`: accepted steering may be dropped unread.
3. `scheduler_admission`: a refused recovery unlocks before it retracts its
   active entry; a submission in between is parked.

Further observations, made while modelling, that no run states:

- Eviction from the settlement tracker tests an entry and removes it by key in
  two steps. A newer generation of the turn that settles in between is removed
  instead, so that a turn that has just completed is unknown.
- A turn's task that panics sends no outcome: its active entry stays, and the
  session queues what comes after it. With `TaskMayPanic`, `QueuedTurnsMove` of
  `scheduler_liveness` is violated.
- Tombstones of maintained turns are a set. A turn that was recovered twice can
  have two outcomes of earlier executions on their way; maintenance ahead of
  both leaves one tombstone, and the second outcome takes the entry of the turn
  while it executes. `ProcessingIsActive` therefore excepts such turns.
- Maintenance that retires the active entry of a recovery that is then refused
  leaves a tombstone for which no outcome comes. It swallows a later outcome of
  the turn, whose entry then stays. With `RecoveryMayFail`, `TombstonesAreConsumed`
  and `ActiveWillRetire` are violated, and with three recoveries `NoOrphanInjection`.
- A queued turn that fails to start goes back to the queue and ends the
  dispatch, and nothing dispatches after a recovery that was refused: the queue
  waits for the next outcome or submission. With `StartMayFail` or
  `RecoveryMayFail`, `NoStrandedQueue` is violated.
- A user's prompt that releases a hold starts first and abandons the interrupted
  turn after; when that write fails, which is only logged, the turn runs and the
  recovery fact stays. With `PersistMayFail`, `InterruptedWorkIsHeld` is violated.
- `SessionStream.gapAt` does not know every hole: the next contiguous event
  clears it, and events that were held and released never set it. The poll
  repairs the screen.
- `releaseHeld` lets an event of an older process through, over the snapshot of
  the new one. It takes a read that outlives the process it was sent to
  (`ReadsOutliveHost`); then `ProjectionIsOrdered` is violated, and with four
  events and a restart `OnlyLostEventsAreMissing` as well.
- A delta after which a tool does not show as ended hands the fence over to a
  snapshot, but the applied position stays where it was. If that read fails, the
  held events that the delta covered are painted a second time, and so is the
  delta when it is asked for again. With `ToolsMayLag`, `ProjectionIsOrdered` is
  violated; the next replay repairs the screen.
- The next append after a torn line is glued to it, and the log is not read
  beyond that line. A deleted session keeps its log.
- An outcome whose recording failed leaves its row running until the process
  ends, and a crash between a claim and the return of its wait leaves an outcome
  told to nobody.
- A wait whose outcomes were all delivered elsewhere sleeps to its deadline.

## The plan

1. Done: `TurnSettlement`, `DialogScheduler`, `KeyedLock` with
   `OperationLock`, `SessionEventJournal`, `SessionStream` and
   `BackgroundOutcomes`, with proofs of all their safety properties.
2. `SessionExecution`: the table of execution counters, whose registration
   clones and increments in two steps and whose drain removes a counter it saw
   at zero.
3. `ScheduledJob`: the cron service and its jobs, composed with the outcomes of
   the scheduler.
4. `Permission`, `UserQuestion`: request and answer tables with cancellation and
   timeouts.

## Not modelled

The components of the inventory that the table of modules does not name. Of
those, scheduled jobs, permissions and user questions, deep review, the tool
pipeline, runtime IPC and the relay have a state that could be modelled as the
ones above are; they come after the conversation itself. Model adapters, stream
parsing, the services around external processes and the front ends other than
the session stream translate, draw and move bytes, without shared state of their
own to get wrong.
