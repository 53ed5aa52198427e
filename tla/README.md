# Fintwind: a verification project

Fintwind is a desktop application that drives coding agents. A resident daemon
(`crates/fintwind-core`) owns the sessions, the database and the agent processes
(`opencode serve`); desktop, mobile and remote clients send it commands over a
WebSocket and follow its events. This directory models the parts of the daemon
where threads, messages and crashes make the code hard to test.

Paths below are relative to the repository root; `core/` stands for
`crates/fintwind-core/src/`, `client/` for `crates/fintwind-client/src/`, `protocol/`
for `crates/fintwind-protocol/src/`.

## Inventory

| Component | State it keeps | Operations | What makes it hard | Correct when |
|---|---|---|---|---|
| Durable submissions (`protocol/submission.rs`, `core/daemon.rs`, `core/persistence.rs`, `core/driver/opencode.rs`, `core/driver/opencode/recovery.rs`) | rows of `submissions`, the session projection in memory and on disk, attached runtimes, live preparations, command channel and fence of each driver | accept, dispatch, abandon, start, close, attach, worker POST, end of turn, event thread, hydration, native history read | request threads, an event thread and a worker per runtime, an unlocked scheduler, lost responses, dying servers, daemon crashes | one POST at most, receipts that never lie or move back, one unsettled submission per session, a turn closed only when over |
| OpenCode server pool (`core/opencode_pool.rs`, `core/opencode_session.rs`) | closed flag, a slot per binary, reference-counted generations, child processes | acquire, liveness check, drop, `shutdown_all` | concurrent starts, servers that die, drops of old generations, shutdown while threads run | one live server per binary, none forgotten, every waiter answered, nothing left after exit |
| Scheduled tasks (`core/scheduled/`) | task rows, occurrences, window cursor, clock | save, delete, run now, tick (reconcile, claim, deliver), settle, restart | edits during a delivery, restarts, failing database calls, clock steps, a batch window | one open occurrence per task, each due time delivered once, a history that never lies, no starvation |
| Event hub (`core/server.rs`) | active runtimes, sequence numbers, bounded journal, subscribers, response cache | begin, emit, end, subscribe with cursors, cached responses | reconnects, eviction, events that are not replayable, retried requests | a subscriber gets every retained event, in order, once |
| Dispatcher and runtime mailboxes (`core/server.rs`, `core/daemon.rs`) | one actor per session with its queue, the runtime each of hub, backend and actor believes active | dispatch, start, close, attach, remove, retire; scheduled launch | retirement racing a dispatch, launches outside the mailbox, removals, panics | every request answered, the working runtime heard, a removed session down |
| Side generations (`core/session_generation.rs`, `src/app/btw.rs`) | cards of the desktop, active generations with their flags, bounded tombstones | ask, cancel, generate, answer, time out | a cancel before registration, late answers | a cancelled request never posts, a card shows its own answer |
| Daemon client (`client/client.rs`, `src/driver/mod.rs`) | cursors, replay buffers, session senders, pending requests | connect with cursors, read, subscribe, forward, drain | events racing the attachment, reconnections, the loss of a connection | every retained event folded once and in order; a lost stream ends |
| Daemon process supervision (`client/process.rs`) | target, restart lock, child, client, followers, settings to persist | monitor rounds, reconnect, replace, shutdown, follow, settings writer | crashes, rebuilds and refused connections overlapping a shutdown; settings changed during a request | one daemon per desktop, followers informed, settings reach the daemon |
| Browser broker (`core/browser_broker.rs`) | publications, the launcher, pending calls, spent ids, tombstones | publish, register a launcher, invoke, open, complete, cancel, disconnect | peers that vanish with an action open, cancels that overtake, repeated ids | no action for nobody, an id runs once, a pending call can be answered |
| Remote transport and relay (`crates/fintwind-remote`, `deploy/remote-control`, `mobile`) | enrolments, links, admission counters | enrol, connect, forward, revoke | reconnects, revocation, quotas | a revoked device is cut off, no duplicate frames |
| OpenCode event feed and turn recovery (`core/opencode_events.rs`, `core/driver/opencode/recovery.rs`) | stream position, fence, probes | read, reconnect, walk history | events lost across reconnects | a turn ends once and with its own proof |
| Task-state save (`core/persistence.rs`, `core/daemon.rs`) | stored projections, revisions, dirty marks | save, merge, hydrate | desktops that save stale copies | the projection of a running session is not taken back |
| Checkpoints, cleanup, usage index, Git cache, MCP authorisation, terminals, user interface, update gateway | caches, files, views | - | mostly I/O | - |

How they meet: a client's command reaches a runtime mailbox of the dispatcher, which
runs it on a request thread in the daemon backend. `AcceptSubmission` saves the
prompt, `Start` acquires a server from the pool and starts a driver,
`DispatchSubmission` claims the prompt and puts it in the driver's command channel;
the driver's worker POSTs it. The driver reports by `DriverEvent`s to an event thread
of the daemon, which updates the session and forwards the event to the hub; clients
follow the hub. The scheduler issues the same commands from its own thread. On exit
the daemon stops the scheduler, drops the drivers and shuts the pool down. The desktop
that owns the daemon watches its process and connection, replaces either, and hands the
new client to the threads that follow it; each attached session then hydrates the stored
projection, subscribes and replays. Agents reach the desktop's pages through the browser
broker, and side questions run beside the mailboxes on threads of their own.

## Modules

| Module | Role |
|---|---|
| `Submission.tla` | the submission protocol of one session: database rows, the `task_state` lock, hydration, drivers and their workers, event threads, history reader, provider, crashes |
| `InputDelivery.tla` | what the protocol promises a user, in six actions; `Submission` refines it |
| `SubmissionMC.tla` | instances for TLC |
| `SubmissionProofs.tla` | proofs about `Submission` |
| `OpenCodePool.tla` | the pool, the threads that use it, the child processes, the daemon's exit |
| `OpenCodePoolMC.tla`, `OpenCodePoolProofs.tla` | instances and proofs |
| `ScheduledTasks.tla`, `ScheduledTasksMC.tla`, `ScheduledTasksProofs.tla` | task rows, occurrences and the ticker; instances; proofs |
| `EventStream.tla`, `EventStreamMC.tla` | hub, connections, attachments and the projections desktops save |
| `SessionRuntimes.tla`, `SessionRuntimesProofs.tla` | the runtime of one session as hub, backend, mailbox and scheduler see it |
| `Supervisor.tla`, `SupervisorProofs.tla` | the desktop's supervisor of its daemon and its settings writer |
| `BrowserBroker.tla`, `BrowserBrokerProofs.tla` | the daemon's bridge to the desktops' pages |
| `SideGenerations.tla`, `SideGenerationsProofs.tla` | side questions and their cancels |
| `DaemonServices.tla`, `DaemonServicesMC.tla` | the event stream and, beside it, small instances of the services below it in this table and of the ticker; instances for TLC |
| `DaemonServicesProofs.tla` | proofs about `EventStream`; what is proved of the other services, carried over to `DaemonServices` |

### Submission

State. `receipt` and `native` are the row (`state` column, `native_session_id`);
`turns`, `projected`, `status`, `session` are the session in daemon memory and `disk`
is the same projection as last saved. `attached` is the entry of the `sessions` map,
`preparing` the entries of `active_preparations` whose client is still connected.
`request` is the thread that holds the `task_state` mutex, with the command it runs;
`hydrating`, `seen`, `pending` are the hydrations under way. `place`, `via`, `outcome`
follow the `Prompt` command from the request thread through the channel to the worker;
`fence` is `SubmissionFence`, `events` the queue to the event thread. `input` is what
the provider has, `posts` counts what was sent.

Actions and code.

* A request takes the lock and hydrates first (`Read`, `Accept`, `Dispatch` begin it;
  `HydrateRead`, `HydrateUpdate` are `hydrate_submission_session`). Every
  `transition_submission` of a hydration is a step of its own, because the scheduler
  hydrates a copy without the lock (`AdmitHydrate`) and workers write without it. Its
  reads are one step: the connection of a preparation, read last, is only ever lost, so
  reading it earlier gives an interleaving the model has too.
* `AcceptSave`/`AcceptReturn`, `DispatchClaim`/`DispatchReturn`,
  `DispatchSubmit`/`DispatchSubmitFails` and `Abandon` are the command handlers; the
  claim and the hand-over to the driver are two steps, since the row is visible in
  between.
* `StartBegin`, `Started`, `StartFails`, `Detach`, `ServerDies`, `Disconnect` are the
  life of a runtime and of a preparing client. `Detach` stands for `CloseSession`, the
  shutdown path and the dead-runtime branch of `AttachSession`, whose effects on this
  state are the same; none of them takes the `task_state` lock.
* `WorkerDeadServer`, `WorkerClaim`, `WorkerCannotSend`, `WorkerPost`,
  `WorkerAnswered`, `WorkerRecord` are the `Prompt` branch of the command worker,
  `TurnEnds` the end of a turn proved by the stream thread (`apply_recovered_turn`,
  `handle_terminal`), `ApplyEvent` the daemon's event thread.
* `ReadDone`, `ReaderCold`, `ReaderFetch`, `ReaderConfirm`, `ReaderMerge`,
  `ReaderGivesUp` are `fetch_native_transcript`, which works without the lock between
  two holds. `ReadDone` also covers `scheduled_resolve_interrupted`, which hydrates and
  saves.
* `ProviderStores`, `ProviderDrops`, `ProviderFinishes` are the OpenCode service, known
  only through how the driver uses it. `Crash` ends the daemon process: memory is lost,
  rows and the saved session stay.

Left out: text and files of prompts, other sessions (they share only the lock), the
session status `Waiting`, steering and goals, tie-breaks by `updated_at` between
receipts of equal rank (equal rank is equal fact). A database error is modelled where
it changes what happens next: as a request that returns, a reader that gives up, a
`Prompt` that is dropped.

### OpenCodePool

`closed`, `slots` and `slot` are `Pool` and the `PoolState` of each slot; `pc`, `at`,
`ref` are where each thread is, on which binary, with which generation; `proc` are the
children; `todo` is what `shutdown_all` has drained and not visited. `Enter` is the hold
of the pool mutex, `Share`, `Supersede`, `ClaimVacant`, `Wait` the arms of the match on
the slot, `Spawn`, `StartSucceeds`, `StartFails` the start (a child exists before it is
known to work, and a failed start kills it), `DropSuperseded` and `DropHandle` the drops
of strong references, `Upgrade` the liveness check. `Shutdown`, `VisitSlot`,
`SkipVacant`, `StopRunning`, `Stopped`, `ShutdownReturns`, `ProcessExits` are
`shutdown_all` and the daemon's exit. `ServerExits`, `KillTree`, `Overdue` are the child
under `OpenCodeServer::shutdown`. A mutex held for a few assignments is one atomic
step; the child's mutex, which `shutdown` holds while it waits, is the guard
`~BeingStopped`. `PoolInner::drop` stops a child in one step: by `HandlesStopNothing`
that child is dead already. Each thread acquires once; more acquires are more threads.

### ScheduledTasks

State. `row`, `schedule`, `due` are a row of `scheduled_tasks`; `state`, `dueAt`,
`manual`, `fixed`, `told` a row of `scheduled_occurrences` and the record a user reads.
`receipt` and `input` are what the ticker can see of the occurrence's submission; how a
receipt moves is `Submission`'s subject. `step`, `read`, `pending`, `queue`, `cursor`,
`total`, `working`, `current`, `verdict` are the ticker thread's local state.

Actions. `Create`, `Update`, `Delete`, `RunNow` are one transaction each
(`scheduled/store.rs`). A tick is `Tick` (or `TickBlind` when the rows could not be
read), a `Reconcile...` per open occurrence, `Claim`, `ReadQueue`, then per entry of the
window `Attempt` and the calls of `deliver`: `Admit...`, `Prepare`, `Accept`, `Launch`,
`Dispatch`, `Dispatched`, each with its failure, and `Settle`. Users, the driver and the
clock act between any two. `Restart` loses the ticker's state and reconciles; `SetBack`
sets the wall clock back. `Insertable` is the pair of unique indexes of the migration.

Left out: revisions (a refused edit changes nothing), drafts and prompts, retries of a
tick by the timer (a tick may begin whenever the ticker is idle). Rows with one due time
are listed in a fixed order, as a scan lists them.

### EventStream

`active`, `next`, `journal` are the hub's state of a session. A client has a socket
(`link`, `wire`), the cursors and buffers of `DaemonClient` (`seqs`, `buffer`), an
attachment (`at`, `rt`, `sub`, `inbox`, `draft`) and the projection its desktop shows
(`view`, with the replay cursor `base`); `stored` is the daemon's copy and `saving` one
on its way. An event is its sequence number and a projection the set of numbers folded
into it, which is all that loss, repetition and order need.

`Emit(replayable)` advances the sequence also for events the journal does not keep.
`Connect` is `connect_with_resume` with `Hub::subscribe`, one step because both the
replay and the registration happen under the hub's lock. `Hydrate`, `Ask`, `Subscribe`
are `attach_driver` and `connect_remote`, `Read` the socket thread, `Apply` the
forwarding thread and the fold in the desktop, `Drain` and `Exit` the end of a lost
stream. An attachment that holds a client which was replaced meanwhile subscribes to a
client nobody serves (`SubscribeReplaced`). `SaveArrives` decides as
`session_projection_precedes` does. `Passed` says how much of the journal a cursor has
seen: `Hub::subscribe` filters by sequence number, and as the journal is in the order of
emission (`HubInOrder`) what it keeps is the rest behind that place. `Dispatch` is what
the socket thread does with one event: nothing if the cursor has passed it, else to the
session's sender or into its buffer.

### SessionRuntimes

`hub`, `backend`, `known` are the runtime that the hub, `DaemonBackend.sessions` and the
mailbox worker believe to be active; `gate` is `session_cleanup_gate`, `removed` the
mark in `removed_session_ids`. `Dispatch`, `Receive`, `Reply`, `Retire`, `Panic` are
`dispatch_runtime` and the mailbox worker, `BeginStart` to `StartEnds`, `Close`,
`Attach`, `Other`, `Remove` the handlers, `Launch` to `Confirm` `scheduled_launch`,
`RemoveProject` the removal of a project on another thread. `crossed` and `kept` record
two orders in which the code does leave hub and backend apart (see below); the
properties name them as exceptions.

### Supervisor

`target`, `client`, `child` are the `DaemonTarget`; `restart` is who holds the restart
lock; `alive` and `lost` are the world: processes that run, connections that are gone.
`Wake` to `Notify` are a round of `monitor_daemon` (verdict, lock, second look,
`connect_with_resume`, `replace_local_daemon`), `Shutdown` to `StopperDrops` are
`shutdown()`, `Follow` is `subscribe_clients`, `Update` and `Queue` are
`update_settings`, `Receive` to `AskFails` the settings writer. A desktop that attached
to a remote daemon (`reconnect_remote`) owns no process and is not modelled.

### BrowserBroker

`published`, `host`, `spent`, `stones`, `pending` are `BrokerState`, changed only under
its mutex, so each public function is one action. `call` is where a `BrowserInvoke` is,
`inbox`, `acting` and `replies` the messages to and from the desktops. `Tell` sends the
stop of a retired call to its owner and `Fail` its error to the caller. `Refuse` covers
every early return of `invoke` and the order in which they spend the id. Waiting for a
launcher (`open`) is the time between `Send` and `Invoke` or `Refuse`.

### SideGenerations

`card`, `waiting`, `answer` are the desktop's `/btw` cards, `client` its request with a
timeout, `cancels` the notifications that `Drop` of `PendingGeneration` sends. `active`,
`flag`, `stones` are `Requests`. `Register`, `LookUp`, `Post`, `Generated`, `Return` are
`generate` with the three moments at which it looks at the flag.

### DaemonServices

The six modules above share no variables. `DaemonServices` extends `EventStream`,
instantiates each of the others on a small instance, and lets a behaviour be one of one
of them (`part`, chosen at first and never changed): one run then checks them all over
the sum of their state spaces. It also holds
`ServicesAssumption`, which evaluates what the proofs assume of their constants.
It is not a composition: calls between them are modelled where they are made, as
the inputs of the module that receives them.

Operators introduced by "Variant:" are plausible bugs of the operator that follows
them. The specifications do not use them; replacing the operator by its variant must
break the property it is paired with in `PROJECT.json`, which shows that the property
depends on that piece of code.

## Runs

| Run | Instance | Distinct states | Shows |
|---|---|---|---|
| `SubmissionSafety` | 2 submissions, 1 runtime, no crash | 2.6M | `SafetyInv`, `AcceptedIsStored`, `OneUnsettled`, `VerdictIsRecorded` |
| `SubmissionCrash` | 1 submission, 2 runtimes, 1 crash | 1.1M | `AtMostOnePost`, `FailureIsFinal`, `ReceiptsOnlyAdvance`, `TurnClosedOnlyWhenOver`, refinement `KeepsPromise` |
| `SubmissionLive` | 1 submission, 1 runtime, the scheduler's unlocked hydration, fairness | 1.3M | `ClaimIsResolved` |
| `OpenCodePool` | 3 threads, 2 binaries, 2 generations, Windows, fairness | 0.3M | `PoolInv`, `OneServer`, `NoneForgotten`, `HandlesStopNothing`, `OneWorker`, `AcquireReturns`, `ShutdownEnds` |
| `ScheduledTasks` | 1 task, 2 runs, a recurring and a one-time schedule, clock to 3 | 1.3M | `TasksInv`, `HonestHistory`, `DueOnce`, `ClaimsGoThrough`, `PausedNeverStarts` |
| `DaemonServices` | stream on first and second connections, supervisor, runtimes, broker, side generations | 0.6M | the safety and action properties of those services |
| `DaemonServicesLive` | ticker with 2 tasks, stream, supervisor, runtimes, fairness | 33k | `StreamEnds`, `Recovers`, `EveryRequestAnswered`, `NoneStarves`, `DeliveryEnds` |
| `SubmissionAssociation` | 1 submission, 1 runtime, unlocked hydration | - | violates `PostedIsAssociated` |
| `SubmissionTurnClose` | 2 submissions, 1 runtime | - | violates `TurnClosedOnlyWhenOver` |
| `OpenCodePoolOrphan` | 2 threads, 1 binary | - | violates `NoOrphan` |
| `OpenCodePoolTermIgnored` | 2 threads, 1 binary, Unix, fairness | - | violates `IgnoredTermIsKilled` |
| `EventStreamResume` | 1 desktop, 2 connections, 2 events | - | violates `ResumesWithoutLoss` |

Bounds. Two submissions are the smallest number for which one can overtake, block or
close the other; a third would wait behind the gate `OneUnsettled` proves. Two runtimes
give a stale and a current generation. One crash reaches every recovery path, since a
restart loses all memory; the theorems hold for any `MaxCrashes`. In the pool three
threads give a starter, a waiter and a holder of an old generation, and two generations
a dead one and its replacement. `Scheduled` is on in the runs that need the scheduler's
unlocked hydration and off elsewhere to keep the state space small; the proofs cover
both values.

`ScheduledTasks`: the properties relate two runs of one task, so one task with two
runs suffices for safety; two tasks that compete for a window of one are in
`DaemonServicesLive`, where starvation is the question. `Budgets` lists the mixes of
user commands, restarts and clock steps that are explored: two commands, one command with
a restart, one command with the clock set back; the proofs have no such limit.
`Grace = 0` and `Day = 2` put every boundary within the clock's `Horizon`.

`DaemonServices`: journals, buffers, tombstones and tables have one or two places, so
that each overflows. `Bounds` lists the mixes of events and connections that are explored
of the stream: two desktops with a connection each, which race their attachments and
saves, or one that connects twice, with a third event (`FirstOrSecond`); the proofs have
no such limit. In the other services the supervisor sees one fault and two changes of the settings;
the actor serves two requests, one launch and one panic; the broker sees three calls, two
of them with the same id, and two publications; there is room for one side generation
and one tombstone with two questions.

Deadlock is checked in the `Submission`, `OpenCodePool` and `ScheduledTasks` runs: there
something can always happen, except after the daemon's exit, which is `Halted`. It is
off for `DaemonServices` and `EventStreamResume`: a service whose callers have used up
their bounds rests.

### Fairness

* `Submission`: threads that hold the `task_state` lock go on, and so do a hydration's
  database calls under it; a driver's worker drains its channel, and an HTTP request
  ends at its timeout at the latest (`WorkerAnswered` with `Unknown` is always
  possible once posted). No fairness for clients, runtimes, the provider or the reader.
* `OpenCodePool`: threads and the main thread run, a start ends by its timeout
  (`SERVER_START_TIMEOUT`), a deadline passes, `taskkill` works. Nothing is assumed of
  servers: whether one exits when asked is its own choice. That is why liveness in
  `OpenCodePool` is checked where `kill_process_tree` kills; on Unix
  `OpenCodePoolTermIgnored` shows what is missing.
* `ScheduledTasks`: the ticker thread runs (weak fairness), and the database does not
  fail it for ever (strong fairness of reading the open occurrences, `Claim`,
  `ReadQueue`, `Settle`, which compete with their failures). Nothing is assumed of
  users, of the sessions a delivery waits for, or of the clock.
* `Supervisor`: monitor and stopper run, and a spawn that is tried again and again
  succeeds once, without which no supervisor could recover. `SessionRuntimes`: the
  worker and the scheduler run and neither waits for ever for the gate (a mutex of the
  operating system; handlers that hold it end by their timeouts). `EventStream`: the
  threads of a connected client run; nobody has to reconnect or save.
* `DaemonServices` unites these conditions in one disjunction each; as `part` never
  changes, a condition on the disjunction is the condition on the one service that runs.

### Disagreements between code and comments

* `SubmissionAssociation`: `transition_submission` compares the state but writes the
  whole row. The scheduler's hydration, between its read and its update, lets the
  worker record the native session, then overwrites it; the worker POSTs although the
  association is gone. The comment in the worker promises the opposite.
* `SubmissionTurnClose`: `TurnFinished` names no submission. After a submission fails
  without being executed, a read makes the session idle again, a successor is
  accepted and dispatched, and then the old `TurnFinished(false)` fails its turn.
* `OpenCodePoolOrphan`: the closed check and the slot lookup share a lock, but a slot
  that is still vacant, or vacant again, when the drain passes it can be claimed after
  it, and the process exits with a server running.
* `OpenCodePoolTermIgnored`: on Unix nothing follows SIGTERM, so a server that ignores
  it blocks the daemon's exit.
* `EventStreamResume`: a reconnection resumes from the cursors of what the socket thread
  has read, also of events that were only buffered for an attachment that never came.
  The buffer is lost with the old client; a desktop that then hydrates an older
  projection and attaches has a gap, although the comment in `reconnect_remote` promises
  that every stream resumes without loss. `NothingMissed` is what does hold: on first
  connections no retained event is missed.

Noted while modelling, and kept in the models as the code has them:

* Supervisor. A round whose verdict was `exited` or `changed` goes on to spawn a daemon
  after `shutdown()` has released the restart lock; only `lost` looks again
  (`client/process.rs` 508-528). Settings that are put back to the last persisted ones
  while a request with others is under way are not sent (`dropped`).
* Scheduled tasks. `settle` follows the task's schedule of that moment: a one-time task
  rescheduled while its old run is being delivered is paused by it. A manual run of
  a paused task, which the interface offers (`src/app/scheduled/overview.rs` 133), is
  cancelled as not sent if a reconciliation meets it while queued. After the clock is set
  back, a due time can recur, and the unique index then fails the whole claim until the
  task changes; `ClaimsGoThrough` therefore assumes that the clock only advances.
* Runtimes. A launch of the scheduler or a project removal that overlaps a client's
  Start can leave hub and backend with different runtimes (`crossed`), and a Start that
  is refused has already taken the hub from the runtime in place, whose events are then
  heard by nobody (`kept`).
* Stream. A desktop that subscribes to a client whose socket thread has gone never gets
  the local `processExited` (`src/driver/mod.rs` 106-114); `StreamEnds` does not claim it.

## Proofs

`tlapm` checks every theorem for all values of the constants.

*Submission.* The properties are not inductive alone. `SafetyInv` adds what they rest
on: `LockInv` (who holds the lock, and that only a hydrated holder decides),
`Consistent(s)` (the row, the place of the `Prompt` and the provider's input agree; for
instance a row that reports a failure has no `Prompt` before its POST), `KnownVerdicts`
(any copy of a verdict, in memory, on disk, in an event, in a hydration, is the row's),
`NothingMissed` (a hydration under the lock that has not seen a row cannot miss an
unsettled one, because only a lock holder inserts), the reader's history being stored
inputs, `OneUnsettled`, and `Ends` (a dropped driver is never attached again, a claim is
in doubt only when no attached driver has its `Prompt`, an end that an attached driver
reports is that of an execution or of an input that never runs, a turn closed on disk is
closed in memory). `SubmissionProofs` proves `TypeCorrect` one lemma per
group of actions, classifies the steps (`QuietSteps`: those that move
no row, Prompt or input), proves how a receipt may move (`Advances`), then each conjunct
of `SafetyInv` by the actions that can disturb it. `Safety`, `PostsOnce`,
`FailuresAreFinal`, `AcceptancesAreTrue`, `AdmitsOne`, `VerdictsAreRecorded`,
`ReceiptsAdvance` follow; `Implements` maps every step to a step of `InputDelivery` or a
stutter. `StepClosed` says when a running turn may close: its input is over, or some
submission's is. With one submission this is `TurnClosedOnlyWhenOver`
(`OneTurnClosedWhenOver`); with two the other's end may close it, which is what
`SubmissionTurnClose` shows.

*Pool.* `PoolInv` joins `Located` (which thread runs which code), `Owned` (a generation
serves one slot and is private to its starter until published), `OneWorker` (a slot in
transition has exactly one worker) and `NoneForgotten`. `Safe`, `ServesOne`,
`ForgetsNone`, `WorksAlone`, `DropsAreHarmless` follow.

*Scheduled tasks.* None of the properties is inductive: `HonestHistory` rests on what the
ticker has in hand when it settles. `TasksInv` adds `InHand` (an outcome in hand is true
of the submission, and an occurrence that has not begun has none), `InWindow` (a window
lists an occurrence once and none that was submitted), `OneOpen`, `Submissions` (row,
receipt and record of each occurrence agree), `OneEach` (two kept automatic rows of a
task differ in their due times, by the unique index) and `Timely` (while the clock only
advances, the next due time lies after every automatic run). Each part is proved by
the actions that can disturb it; `TasksSafety`, `HistoryIsHonest`, `EachDueTimeOnce`,
`ClaimsGoThroughAlways` and `PausedTasksStartNothing` follow for any tasks, schedules,
batch sizes and budgets.

*Supervisor.* `SupervisorInv` is `Locked` (who recovers or stops holds the restart lock),
`Owned` (the only process that may be alive is the one its holder has in hand),
`Informed` and `Persisting` (what the writer holds, has sent and has recorded agrees with
the daemon's settings). `OneDaemonAtWork`, `FollowersAreInformed`, `SettingsReachDaemon`.

*Session runtimes.* `RuntimesInv` is `Holding` (who starts a provider holds the gate and
has dropped the runtime before it), `Fresh` and `Waiting` (the ids in each hand differ),
`Heard` and `Gone` (where hub and backend may differ for a moment, by the places of
worker and scheduler). `WorkingRuntimeIsHeard`, `RemovedSessionsStayDown`.

*Browser broker.* `BrokerInv` adds `Waits` (the pending calls are those that wait),
`Barred` (an id asked or cancelled is spent or has a tombstone) and `Mail` (a desktop is
asked once, before it is told to stop). `AskedPagesAreThere`, `CancelsAreFinal`,
`IdsRunOnce`, `ActionsAreWatched`.

*Side generations.* `SideInv` is `Registered`, `Unsent` and `Remembered`: a handled
cancel is in a flag or a tombstone until its generation can no longer post, unless
the tombstone was evicted. `CancelsAreHeeded`; `AnswersAreCurrent` is proved besides.

*Event stream.* `NothingMissed` speaks of desktops that follow a runtime; to reach that
state an event passes five queues and three hand-overs, and may be dropped on purpose at
two of them. `StreamInv` describes all of them. `Retained` are the events nobody may
drop: in the journal, and among the last `MaxBuffered` of the runtime. `HubInOrder`,
`SocketInOrder`, `InboxInOrder`: every queue holds events of runtimes that were begun, at
most once, in the order of emission, below the cursor of whoever filled it; a `processExited`
comes last. `Ascending` says this with the distance of two places as a lower bound of the
distance of their numbers, from which it follows that a full buffer keeps the newest
`MaxBuffered` numbers, so that what it drops is no longer retained. `ViewInOrder`: what
waits for a desktop is either skipped by its replay cursor or news to it.
`ProjectionsInOrder`: no projection, shown, hydrated, stored or on its way, is ahead of
the hub. `Gapless`, which is where first connections matter: a projection of the active
runtime contains every retained event up to its cursor (`Covers`), and what a connection
has not read is on the wire, what it has read is in the buffer until the desktop follows
and in its inbox or projection from then on (`Reaches`). `Covers` has to be claimed of
hydrated drafts and of saves in flight too, since each of them can become the stored
projection and then somebody's first one. On second connections both fail (see
`EventStreamResume`); the order of the queues does not depend on them, so `FoldsInOrder`
and `StoredAdvances` hold for any number of connections. `StreamInOrder` proves the
invariant, one lemma per action, and `StreamHasNoGap`, `EventsFoldInOrder` and
`SavesAdvance` follow, for any runtimes, desktops, sizes and bounds. Lemmas on the
queues come first (`LastPlaces`, `Trimmed`, `Queued`, `Smallest`, `PassedPlaces`).

*Services side by side.* `DaemonServicesProofs` shows that a behaviour of
`DaemonServices` is a behaviour of each of its services (each takes its own steps and
stutters in those of the others: `StreamBehaves` to `SideBehaves`), so that the theorems
above, instantiated with its constants, prove of it, for any `Parts` and constants,
`ServicesAreInOrder` (the inductive invariants of all six) and the properties of its run,
`NeverTwoDaemons` to `CancelledGenerationStaysQuiet`. `DaemonServices` therefore
instantiates the proof modules, which extend the services.

Assumptions: `NoneAssumption`, `BoundAssumption`, `NamesAssumption`, `UnixAssumption`,
`ScheduleAssumption`, `NoOccurrenceAssumption` and the operators `StreamConstants`,
`SupervisorConstants`, `RuntimesConstants`, `BrokerConstants`, `SideConstants`, which
only say that the constants are of their kinds, finite where they are counted, and
distinct; TLC evaluates them, the operators through `ServicesAssumption`.

Only model-checked: all liveness properties (liveness under fairness is out of the
prover's reach). `TurnClosedOnlyWhenOver` is proved for a session with one submission and
refuted for two.

## Plan

Done: `Submission` with `InputDelivery`, `OpenCodePool`, `ScheduledTasks`,
`EventStream`, `SessionRuntimes`, `Supervisor`, `BrowserBroker`, `SideGenerations`.
Left, in this order:

1. Turn recovery (`core/driver/opencode/recovery.rs`, `core/opencode_events.rs`): the
   provider's feed with its reconnects and history walks, refining `TurnEnds`. The
   largest part of `core/driver/opencode.rs` that is not modelled.
2. The client's request table and the response cache (`client/client.rs`,
   `core/server.rs`): requests across a disconnect, the checkpoint request that has no
   timeout, retried ids. They complete two hazards that have no property yet.
3. The merge of metadata in a task-state save, with the unlocked clone of
   `scheduled_admit`.
4. Remote transport, relay and mobile client.

## Not modelled

The modules cover the daemon's concurrent core and the desktop's side of it; most of the
repository's lines are elsewhere and are not of the kind a model checker helps with.
The user interface (`src/app`, over a third of the code) renders state and issues the commands
whose handlers are modelled. The bodies of drivers and of `protocol/model.rs` parse and
shape data; Git, checkpoint, terminal and file handling is I/O whose difficulty is not
in the order of events; the usage index and the Git cache are caches with a single
writer; packaging, the update gateway and the deployment scripts are not part of
the running program. The cryptography of the remote transport would have to be assumed.
Of the modelled components, `partly` in `PROJECT.json` says what is missing.
