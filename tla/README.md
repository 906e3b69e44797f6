# Verification of cookie-agent

TLA+ models of cookie-agent (`src/crates/*`, a Rust engine that runs coding
agents, keeps each session as an event log on disk, and serves several
clients), the TLC runs that check them and TLAPS proofs about them.

The project covers the places where a mistake costs most and a test reaches
least: what a session's log promises after a crash, which of several processes
may write a session, what starts, steers and ends the runs of a session, and
how a client's view follows the log. All are protocols between threads,
processes, connections, the file system and failures. The rest of the system is
inventoried below and planned.

Short names for files: `EV` = `crates/engine_store/src/events.rs`, `DUR` =
`.../events/durability.rs`, `SM` = `crates/engine_store/src/session/mod.rs`,
`PUB` = `.../session/publication.rs`, `OWN` =
`crates/engine_store/src/ownership.rs`, `MB` =
`crates/engine/src/runtime/messaging/mailbox.rs`, `PROD` =
`.../messaging/producers.rs`, `LOOP` = `.../runtime/model_loop.rs`, `CLIENT` =
`crates/protocol_transport/src/client.rs`, `STATE` =
`crates/client_state/src/lib.rs`.

## 1. Inventory

| Component | State it keeps | Operations | What is hard about it | What makes it correct |
|---|---|---|---|---|
| Sync and publication queue (`DUR`, `PUB`) | counts `written`, `synced`, `settled`; a sync in flight; the blobs to sync; records waiting to be published | write, sync_through, close; queue, publish_ready | syncs run outside every lock and stand for several threads' records; failed syncs; order of publications | nothing is acknowledged or published before the sync that covers it; nobody waits for ever |
| Event log file (`EV`) | the append handle, the records in memory, the JSONL file, blobs beside it | append, deferred sync, revert, suspend, load | half-written records, cuts that fail, machine crashes | acknowledged records survive; the log stays a prefix |
| Tree ownership (`OWN`, `session/delete.rs`) | `owner.lock` in the root's directory; per process, the state of each tree and its writable and adopting sessions | acquire, adopt, commit, roll back, forget, delete | several processes, crashes inside a run, two adoptions and a fork of one tree at once | one writer per tree; no lock left behind; nothing written before it is recovered |
| Session store (`SM`) | sessions in memory, their slots, mutation lock, publish gates, live tails | create, publish, write, fork, revert, delete, close | lock order, steps that fail after their rename | as the three rows above |
| Adoption and deletion in the engine (`MB` 1200-1330, `runtime/sessions/delete.rs`) | adoption gate of each tree | ensure_session_owned, delete_tree_direct | rollback against other writers | every adoption commits or is undone |
| Recovery and reverts (`runtime/recovery.rs`, `runtime/sessions.rs`) | - | close open runs, revert | checks made long before the deletion they justify | a recovered session has no open run |
| Session actor and runs (`actor.rs`, `MB`, `runtime/runs.rs`, `submit.rs`) | mailbox, active run, deferred commands, holds of compaction and revert | submit, promote, cancel, complete | results after cancellation; deferred commands; shutdown | one run per session; each command answered once |
| Producers and claims (`messaging/producers.rs`, `claims.rs`, `goal_projection.rs`) | accepted, admitted, claimed automatic input; wake flags | accept, admit, claim, release, consume | stale choice before an await; dropped claims released later | accepted input is consumed once, and in the end |
| Delegation (`runtime/delegation.rs`) | slots and queue per root | reserve, start, queue, promote, finish, recover | queue at its limit; two children finishing; restarts | slots never exceeded; each delegation reports once |
| Background tasks (`runtime/background_tasks.rs`) | running jobs and their reports | start, finish, report | report against revert | one report per job |
| Approvals and grants (`approval/flow.rs`, `grant_journal.rs`) | pending approvals; invalidation journal | ask, answer, cancel, invalidate | answer against cancel; half-written journal | an invalidated grant is never used |
| Cron (`runtime/cron/*`) | claimed fires | claim, deliver, reconcile | restart between claim and delivery | no fire lost, none delivered twice |
| Loop guard (`runtime/loop_guard.rs`) | recent calls | observe | a pure algorithm | agrees with its definition |
| Runtimes (`runtimes/*`) | connections, liveness timers | dial, reconnect, declare dead | late frame against timeout | a call ends once |
| Client transport (`protocol_transport`) | subscriptions: replay position, live tail, generation | replay, live, gap, rewind, recover | tail events during replay | a client sees each event once, in order |
| Client state, server, user interfaces, configuration, providers, MCP, permissions, memory, coding runtime, protocol types | various | various | little that is concurrent: parsing, formatting, rendering, I/O | not planned, except how `client_state` applies a subscription (`LiveTail`) |

How they interact: the actor of a session and the tasks of its run call the
store; the store writes through the log and its `Durability`, and publishes to
live tails, which the server forwards to clients; before a session is written
the engine adopts it, which takes the tree's lock and runs recovery; forks and
deletions change the tree under the store's mutation lock; producers, cron,
delegation and background tasks feed the actor's mailbox.

`PROJECT.json` lists every component with its files, and under `hazards` the
places, each at its line, that are hard to test. Hazards of parts not yet
modelled carry a note and are the work list of the plan (section 7).

## 2. The modules

| Module | Role |
|---|---|
| `EventLog` | one session's log: appends, group syncs, blobs, closing, reverts, publication, crashes |
| `CommitLog` | what the log promises, without threads, syncs or files |
| `EventLog_proofs` | type correctness, durability of acknowledged records and their blobs, the refinement of `CommitLog` |
| `EventLogTail_proofs` | what a live tail is sent: commit points after their sync, a prefix in order |
| `MCEventLog` | constants of the log's runs |
| `TreeOwnership` | one session tree shared by processes: lock, adoption, publication, fork, deletion, closing, crash |
| `TreeOwnership_proofs` | that only the holder of the lock writes the tree, and what it recovered first; locks and rollbacks |
| `MCTreeOwnership` | constants of the tree's runs |
| `SessionRuns` | one session's runs: starts, steers, the queue, cancellation, producer messages and their wakes, holds, restarts |
| `SessionRunsType_proofs` | type correctness, and what each step may do to a run and the queue |
| `SessionRunsOne_proofs` | that a running run is driven, and that one run is at work |
| `SessionRunsTaken_proofs` | that no input is taken twice, a completed run took its inputs, and nothing a producer took back is consumed |
| `MCSessionRuns` | symmetry of the clients |
| `LiveTail` | one subscription: the store's tail, the wire, the client's replays and recovery, the view |
| `LiveTail_proofs` | type correctness, and that a fetch is awaited |
| `LiveTailFollows_proofs` | that a view follows its session until the first revert |
| `MCLiveTail` | constants of the tail's runs |

The modules meet in three places, each of which one of them describes and
another takes for granted: `EventLog` shows that tails are sent a gapless prefix
in order, which `LiveTail`'s `PublishStored` starts from; it shows what an
acknowledged append means, which `SessionRuns`' steps that append an event
assume; and `TreeOwnership` shows that a session is recovered before it is
written, which `SessionRuns` describes from inside (`Adopt`, `CloseRuns`): its
adoption has no rival.

### EventLog

Threads in `Appenders` are the session's actor and the tasks of its run;
threads in `Closers` are forks and releases that drop the writer. A thread's
`pc` is where it is inside a call; `op` is what it carries.

| Code | Model |
|---|---|
| `Durability::State` (`DUR` 39-69) | `written`, `synced`, `settled`, `syncing`, `dupFd`, `blobs`, `syncedBlobs` |
| the session's slot, `EventLog` and its writer | `slot`, `mem`, `writer` |
| `Publications` | `queue`, `tail` |
| the files in page cache and on disk | `file`, `torn`, `flushed`, `blobFiles`, `blobDisk` |
| `write_event`, `append_inner` | `BeginAppend`, `StoreFails`, `WriteRecord`, `WriteFails`, `QueuePublication`, `CacheFails` |
| `sync_through` | `Covered`, `WaitForSync`, `StartSync`, `SyncBlobs`, `SyncFile`, `SyncFails`, `EndSync`, `Return` |
| `sync_appended` | `SyncAppended`, then `sync_through` |
| `suspend_writer`, `Durability::close` | `SuspendWriter`, the sync steps, `EndClose` |
| revert: `SessionStore::truncate` with `truncate_after` (`EV` 1965) | `Truncate`, `TruncateFails` |
| loading a log | `Reopen`, inside `ProcessCrash` and `MachineCrash` |

The steps are split where the code lets go of a lock: `sync_through` decides
under the state's mutex, syncs blobs and file outside it, and takes it again to
record the end. Everything done under the slot without another thread being
able to look is one step. A record is identified by the commit number
`DUR` gives it, so a log is a set of numbers, and `base` is where the numbering
of the log as last opened begins.

A machine crash keeps everything a successful `fsync` covered and any part of
the rest; a process crash keeps all that was written. A failed `fsync` is taken
to leave its data dirty, so that a later successful one covers it; a kernel that
marks such pages clean would lose more, and no code here could tell.

Left out: the folder `Durability` syncs with a new file, the second
`Durability` an evicted and reloaded session gets, the sweep of unused blobs,
blobs with damaged content, metadata caches beyond whether writing them failed,
projections, transient output of a running turn, and how tails register.

### TreeOwnership

Processes share one tree: a root and children. For each process `tree`,
`writable`, `adopting` are `OwnershipState`; `adopt` is the adoption under way
(the engine's gate admits one per tree), `task` the fork, publication or
deletion under way (the mutation lock and the publish gate admit one). On disk:
the root's directory, the lock file, who holds it, the sessions with a log, and
those whose log ends inside a run.

| Code | Model |
|---|---|
| `try_acquire`, `hold_tree` (`OWN`, `SM`) | `TryAcquire`, `HoldTree`, `Unlock`, `FindForeign` |
| create and `persist_buffered` (`SM`) | `Create`, `BeginPublish`, `PublishDirectory`, `EndPublish`, `PublishFails` |
| appending, and runs that start and end | `CanAppend`, `StartRun`, `EndRun` |
| `ensure_session_owned` (`MB`), `begin_write`, `commit_adoption`, `rollback_adoption` (`SM`) | `BeginWrite`, `Reconcile`, `ReconcileFails`, `CommitAdoption`, `CommitFails`, `RollbackFlush`, `RollbackDrop` |
| `fork_with` (`SM`) | `BeginFork`, `AssembleFork`, `PublishFork`, `EndFork`, `ForkFails` |
| `delete_tree_direct`, `TreeDeletion` | `BeginDelete`, `CommitDelete`, `AbandonDelete` |
| a revert's `delete_children` | `DeleteChild` |
| `release_ownership`, exit | `Close`, `ReleaseOwnership`, `Crash` |

Left out: which sessions are in memory, the bulk load of a tree, forks of a
root (they make another tree), and sessions opened only to be shown. Taking the
lock file is one step (open, lock, and the check that the file is still the one
at its path); so is putting a root's directory over a scaffold one. The
Windows layout, with its lock beside the data, behaves the same. A revert's
check that its children are not running and their deletion are one step.

### SessionRuns

The actor of a session handles one command at a time, so a command is one step
and ends, as the code does, with the reconciliation of the producers
(`Reconcile`). A start leaves the actor: it reads the session once, is suspended
by plugins and runtimes, and appends `RunStarted` much later, which is why it
holds the session's reservation (`hold`, the code's `compaction.in_progress`)
and why the steps from `ReadSession` to `Release` are separate. The task of a
run is `runs[r].at`; clients and the wake's task have their own.

| Code | Model |
|---|---|
| folds of the log: the session's and its runs' status, `QueuedInputs`, pending inputs, `GoalProducerProjection`, `after_runs` | `status`, `runs`, `queue`, `client[c].pc = "pending"`, `mail`, `mood` |
| `sessions.active`, `compaction.in_progress` and `deferred`, the wake flags | `active`, `hold`, `deferred`, `wake` |
| `handle_actor_command` of `Start`, `release_compaction_direct` (`MB`) | `HandleStart`, `Release` |
| `start_run_direct` (`LOOP`), `commit_producer_start` (`PROD`) | `ReadSession`, `PrepareStart`, `CommitStart`, `CommitWake`, `InsertActive`, `SetUpRun`, `FailSetUp`, `LaunchRun` |
| `run_loop` (`LOOP`), `PromotePendingInputs`, `PromotePendingOrComplete` (`MB`) | `Top`, `HandlePrompt`, `Turn`, `AfterTurn`, `CancelledInTools`, `HandleComplete`, `RunTaskEnds` |
| `drain_queued_input` (`submit.rs`) | `Drain`, `AfterRefusal` |
| `submit_input`, `steer`, `queue_input`, `recall_input`, `run.start` | `Submit`, `Route`, `Steer`, `QueueInput`, `Recall`, `ClientAnswered` |
| `release_active_run`, then `append_run_end` or `commit_run_cancelled_once` (`runs.rs`) | `Leaves`, then `EndFailed` or `EndCancelled`; for a start that fails, `SetUpRun` and `FailSetUp` |
| `cancel_run`, `cancel_run_durably` (`runs.rs`) | `Cancel`, `Stop` |
| accept, discard, claims, `reconcile_producers_direct`, `begin_producer_wake`, `resume_held_session` | `Accept`, `Discard`, `ReleaseClaims`, `Reconcile`, `BeginWake`, `ClearWake`, `ResumeHeld` |
| `spawn_compaction` | `Compact` |
| the end of the process; `ensure_session_owned` with `reconcile_session_with` (`recovery.rs`); `resume` (`sessions.rs`) | `Crash`; `Adopt`, `CloseRuns`; `Resume` |

`Crash` empties what the engine kept in memory and ends its tasks and its
clients' calls; the log stays (what a log keeps is `EventLog`'s subject). The
first command of the next daemon adopts the session: the claims of producer
messages are released, then the runs still open are finished as interrupted,
which gives back the queue and the pending inputs, and only then does the actor
take commands. Opening a session (`session.resume`) drains the queue, which
covers a daemon that stopped between a run's end and its task's own drain; the
drain of a resume stands in the place of the task of a run that is over.

A run about to end loses its entry first and its end is appended after, so
that whoever sees the end finds the session idle; in between the log says it is
running and no entry does. These are two steps of its task (`failing` and
`cancelling`) or of the start that failed. A completion does both in one command
of the actor without an await, and is one step. `commit_run_cancelled_once` looks
at the log and appends in one step: without an entry its gate does not keep
another task's cancellation out of that moment, and such a second end is not
modelled.

Left out: goals and their reminders, registrations and external producers
(messages are the engine's own reports), cron, ACP agents, reverts,
a resume of a session that was not lost, delegate admissions, and everything inside a turn. A run uses tools at most
once. That appends of the engine's own events fail is left out too; a failing
start, setup or turn is the fault `fail`.

### LiveTail

| Code | Model |
|---|---|
| the log, its reverts and publications (`SM`) | `log`, `before` (what each record followed), `published`, `AppendRecord`, `PublishStored`, `Revert` |
| a tail: a bounded channel whose last slot is for a gap or a rewind | `tail`, `feed`, `Room`, `Send` |
| `subscribe_events` (`SM`, `routes.rs`), `forward_session_tail` (`server.rs`) | `SubscribeEvents`, `RefuseSubscribe`, `ForwardSessionTail` |
| `Subscription` (`CLIENT`): cursor, generation, attempt, pages, buffered messages | `sub` |
| `subscribe_events_at`, `recover_all`, the recovery queue and its worker | `SubscribeFromScratch`, `RecoverAll`, `Scheduled`, `NextJob`, `SubscribeEnds`, `TryEnds`, `ReplayTimesOut` |
| `handle_frame`, `begin_replay`, `finish_ready_replay`, `route_live` | `HandlePage`, `DeliverReplay`, `Settle`, `RouteLive` |
| `ClientState::apply_delivery` (`STATE`) | `ApplyReplay`, `ApplyEvent`, `ApplyDelivery` |

A revert frees sequence numbers and no ids, so an id stands for a record and
its timestamp: what the view shows can be compared with the log, and with the
branches the log has been, whatever the numbers say. `begin_replay` and
`finish_ready_replay` are one step. Left out: what a subscribe that finds a
replay under way reports to the view (`ReplayInProgress`), other sessions
and connections, live-only output, reading of older history page by page, and
the loss of the connection, after which the client subscribes anew.

## 3. The runs

| Run | Instance | States | What it shows |
|---|---|---|---|
| `log_blobs` | two appenders, 1 blob, 3 records, reverts, clean faults, machine crashes | 640,705 | `AckedDurable`, `AckedSurvives`, `SyncedKeepsBlobs`, `TailIsAPrefix`, refinement of `CommitLog` |
| `log_live` | two appenders, a fork, 2 records, reverts, every fault, process crashes, no blobs, fair | 81,388 | `TypeOK`, `PublishedAfterSync`, `CallsReturn`, `QueueDrains` |
| `tree_writers` | 2 processes, 2 children, create, fork, delete; recovery and lock faults | 20,172 | `TypeOK`, `OnlyHolderWrites`, `RecoveredBeforeWritten` |
| `tree_failures` | the same with every operation but reverts, every fault | 483,018 | `RollbackFindsAdoption`, `NoStrandedLock` |
| `tree_live` | a published tree, every operation on it, every fault, fair | 111,988 | `ClosingFreesTree` |
| `runs_safe` | 2 clients that steer or queue, 1 message, one fault of six kinds | 2,748,856 | `TypeOK`, `OneRunAtWork`, `RunningIsDriven`, `CompletedTookItsInput`, `TakenOnce`, `DiscardedStaysUnread` |
| `runs_live` | 1 client, 1 message, every way and mode, one fault of six kinds, fair | 193,756 | `QueueMoves`, `MailIsTaken`, `InputIsSettled` |
| `tail_follows` | 4 records, 1 revert, a tail of 2 slots, replays of one page, 2 refused subscribes, fair | 169,489 | `TypeOK`, `SettledIsCurrent`, `BrokenViewIsRebuilt`, `ViewCatchesUp` |
| `tail_faults` | 3 records, 1 revert, replays of several pages, 2 faults of every kind | 4.9 million | `FetchIsAwaited` |
| `log_close_loses_blob`, `runs_held_wakes`, `tail_two_reverts` | the smallest instance each needs | - | a violation, see section 4 |

Properties of the log:

- `AckedDurable`, `AckedSurvives`: an append that reported success is in the
  file and covered by a sync; it is readable after any crash. Only a revert
  removes it.
- `SyncedKeepsBlobs`: a record that counts as synced has its blobs on disk.
- `TailIsAPrefix`, `PublishedAfterSync`: a live tail receives the records in
  order, without a hole, none that a revert removed, and a commit point only
  after its sync ended.
- `ImplementsCommitLog`: with memory as the log, what is in the file and not in
  memory as the lost records, the log implements `CommitLog`.
- `CallsReturn`, `QueueDrains`: no waiter on a sync is stranded, and nothing
  stays queued.

Properties of the tree:

- `OnlyHolderWrites`: whoever writes below the root's directory, or may start
  to without looking at the lock again, holds the lock.
- `RecoveredBeforeWritten`: a session whose log was left inside a run is
  writable only once that run is closed.
- `RollbackFindsAdoption`: the assertion in `rollback_adoption`.
- `NoStrandedLock`: a held lock has something under way, or a settled tree, that
  releases it.
- `ClosingFreesTree`: a store that is closed lets go of the tree.

Properties of the runs:

- `RunningIsDriven`: a run the log says is running has a task or a start that
  will end it, also while its entry is gone and its end is not in the log, after
  a start that failed half way and after a restart; without one the session would refuse every start.
- `OneRunAtWork`: at most one run is running or has a task that drives it,
  although every start decides on a projection older than its `RunStarted`.
- `CompletedTookItsInput`: no steer slips between a run's last look at its
  inputs and its completion.
- `TakenOnce`: no input is started twice, or started and steered, whatever
  retries and drains ask for it.
- `DiscardedStaysUnread`: a message its producer took back is never consumed by
  a turn, though a request that came to nothing may have carried it.
- `QueueMoves`, `MailIsTaken`, `InputIsSettled`: nothing queued, accepted or
  submitted waits for ever, except messages of a held session.

Properties of the tail:

- `SettledIsCurrent`: when nothing is on its way, the view shows the log.
- `BrokenViewIsRebuilt`: a view that shows what is no branch of the log, or has
  a hole, has a rebuild scheduled, on its way or in its inbox.
- `FetchIsAwaited`: a subscription marked as fetching has a task that will end
  its replay; otherwise every later replay would be refused.
- `ViewCatchesUp`: once the log stands still, the view comes to show it and goes
  on to.

Bounds. Three records are the fewest in which a group sync covers a record of
another thread while a third is written behind it, and in which a revert
leaves one, cuts one and a later record follows; two appenders give a leader of
a sync and a waiter, and the fork the third party that closes under them. One
blob is enough for a record to share it with another or for it to be stored
again. `log_live` needs only a waiter and a leader, hence two records. Two
processes are an owner and the one that takes over; two children let one be
adopted while another is forked, written or rolled back. The tree has no
counter to bound. In `runs_safe` two clients race for a start, a steer and the
queue, and the message wakes the session against both; `SUBMIT_ATTEMPTS` is 2,
the fewest with a retry, and one retry of a failed run tells retrying from
holding. One fault at a time keeps it finite and is where the races are: a
fault's effect lasts for the rest of the behaviour. `runs_live` has every way and
mode but one client, so its input waits only for a wake's run and no drain
meets another client's start. That takes three clients: one runs, one is queued
behind it and one starts against the drain. With a message that is too large for
a liveness check; without one it is not (`Clients = {c1, c2, c3}`, `Mail = {}`,
`Ways = {"queue"}`, `Faults = {"recall", "crash"}` in `SessionRunsLive.cfg`):
154,527 states, among them drains refused because a run started first, and
`QueueMoves` and `InputIsSettled` hold. `tail_follows` needs four
records: a tail of two slots (one of them reserved) overflows on the second, and
two more follow the recovery; page size 9 is one page always. `tail_faults` has
pages of two records and three records, so replays have two pages. One revert is
not a bound chosen for size: with two, and the five records that takes,
`SettledIsCurrent` does not hold, and `tail_two_reverts` shows why.
Symmetry is used in `tree_writers`, `tree_failures` and `runs_safe` only, which
check no liveness.

The log's, the runs' and the tail's runs switch deadlock checking off: once
every record, input and message of the bound is used there is nothing left to
do. The tree's runs check it, which says little: a process may always crash.
That nothing there waits for ever is `ClosingFreesTree`.

The passing safety runs leave out what section 4 shows to break their
properties: `log_blobs` has no closers (closing loses blobs), no process crash
(below), no torn writes, half-done cuts or failing caches; `log_live`, which has
them all but machine crashes and blobs, asks only what they leave true; that
durability and order hold beside a fork that closes the writer is proved
(`AckedIsDurable`, `TailsSeeAPrefix`); `tree_writers` has no child published
first, no fork that joins an adoption and no failing publication; `runs_safe`
has no run ended from outside its task, `runs_live` no failing start and no
plugin that takes an input; `tail_follows` has one revert, no timeouts, no
replay that a view gives up and none of several pages.

Fairness. `log_live`: a thread inside a call goes on (weak fairness of `Step`
per thread); a run that deferred a sync asks for it (strong fairness of
`SyncAppended`): `model_loop.rs` 1498-1529 syncs after the last call start of a
turn or the first that fails, and a turn has finitely many. No thread has to
begin anything. `tree_live`: an adoption, a task and a shutdown under way go on;
nobody has to crash, close, or begin an operation. `runs_live`: the actor handles
what was sent, tasks go on, and a submission goes on (`ClientStep` per client);
no client has to submit and no fault has to happen. After a restart somebody
opens the session again (`Reopen`): adoption and the drain of the queue are
done for a request, so what waits in a session nobody asks for goes on waiting.
A turn ends because its
attempts and their retries have timeouts; tools are used once per run, so a run
ends unless inputs keep coming. `tail_follows`: the daemon publishes, answers
and forwards, the client's tasks and the view run; nobody has to append or
revert.

## 4. Where code and documentation disagree

Three runs end in a counterexample, each against a sentence of the repository's
own documents or comments (quoted in `PROJECT.json`).

- `log_close_loses_blob` (`DUR` 248): `close` takes the unsynced blobs out of
  the state and syncs them after unlocking. A commit point whose sync starts
  meanwhile sees none to sync and is acknowledged; a machine crash before close
  is done loses its blob.
- `runs_held_wakes` (`PROD` 568): a wake of the producers was scheduled; a
  client's run goes first and the user stops it, which holds the session; the
  wake then begins. It looks whether the session is free and not whether it is
  held, and starts a run. A wake after a failed run sleeps for the backoff
  first, so the window is as long as that. `held-sessions.md` says that nothing
  starts a run of a held session on its own.
- `tail_two_reverts` (`CLIENT` 3500): a revert reaches the client as a rewind,
  which asks for a full replay. Meanwhile the tail takes one more record and
  overflows, which closes it behind a gap. A second revert removes that record
  and finds no tail to notify. The full replay shows the log as it is now, but
  the record was on the wire before it and is delivered behind it
  (`finish_ready_replay`); then comes the old gap. It moves the cursor to the
  removed record and, as the number is not the cursor's, forgets the timestamp,
  so the catch-up it asks for carries none. The daemon cannot see that the
  cursor is stale, answers with nothing, and the view is left with the removed
  record. `events.md` says that the client sends the timestamp on every recovery
  replay and that a cursor whose event is gone is answered as stale.

Other behaviours came up in the models that no run of their own shows. Each is
a short trace of the module; the runs leave out the fault or operation it needs,
as section 3 says.

The log:

- A failed write may leave part of a record and is not cut (`EV` 1487): the next
  record is glued to it, acknowledged, and unreadable on the next load.
- The loader skips a damaged line and reads on (`EV` 4125), so what survives a
  machine crash need not be a prefix, although `store-locks-and-durability.md`
  says it is cut there. Nothing acknowledged is lost by it.
- When the metadata cache cannot be written (`SM` 2353), `write_event` returns
  between writing a record and queueing its publication: tails never see it.
- A log opened again after a process crash forgets which blobs its unsynced
  records name (`EV` 1173): its next sync covers the records and not the blobs.
- A revert whose file is cut and whose sync then fails leaves memory with
  records the file lost (`EV` 2004; `log_live` takes the step).

The tree:

- A fork joins a tree held only for an adoption (`SM` 2928); when that adoption
  is rolled back the lock goes while the fork still writes, and another process
  may hold it by then.
- A child published before its root leaves a directory without a lock, which
  another process may take (`SM` 3118).
- A publication that fails after its rename drops the lock of a directory that
  is in place (`SM` 3173; `tree_failures` and `tree_live` take it).
- A revert's deletion of a child takes no adoption gate, so the assertion in
  `rollback_adoption` may fail (`SM` 2480; `tree_live` takes it).

Runs:

- A run ended from outside its task keeps its entry, and
  `promote_pending_or_complete_direct` (`MB` 1602) looks at neither its end nor
  its cancellation: it may complete a run that was cancelled, and a second run
  may have started in between.
- A start is refused as a duplicate while another is deferred (`MB` 1404); when
  the refused one was a drain's and the deferred one is then taken by a plugin
  or fails, nothing drains the queue until the next run ends.
- A wake whose start fails reconciles nothing (`PROD` 664): a message accepted
  meanwhile waits for the next command that does.
- The head of the queue is read outside the actor (`submit.rs` 245): an input
  recalled before its start is handled is given back and started.

Subscriptions:

- A subscribe that timed out at the client and is answered later (`CLIENT` 2440)
  has registered a tail; its page is dropped as outdated, the tail's next event
  is applied by the view beyond the records it lacks, and the catch-up that
  follows cannot add them.
- Only the first page of a replay checks the cursor (`CLIENT` 2397): a revert
  between two pages mixes two branches until the rewind's full replay arrives.
- A failed replay resets the subscription whether or not a newer one has begun
  (`abort_replay`, `CLIENT` 472), and what was buffered meanwhile waits for the
  next replay. With a view that gives up a replay it is still staging
  (`REPLAY_END_TIMEOUT`) this shows without any revert: an event buffered behind
  a catch-up that is then refused stays in the buffer, and the next live event
  is shown beyond it (in an instance of five records and three faults); with a
  revert one such fault is enough.

## 5. What is proved

All proofs are checked by TLAPS from the constants' assumptions
(`ConstantsAssumption`, `TreeAssumption`, `RunsAssumption`, `TailAssumption`)
and the assumptions named. They hold for any threads, processes, clients,
children, messages, blobs and bounds. Each inductive invariant was checked by
TLC before it was proved. The proof of a theorem has one step per action; a
step that touches none of an invariant's variables is settled by a lemma of
what "undisturbed" means.

| Theorem | States | Under | Besides types, the induction carries |
|---|---|---|---|
| `TypeCorrect` | `TypeOK` of the log | - | `SlotInv` |
| `AckedIsDurable` | `AckedDurable` | `WholeWrites` | `SyncInv` |
| `SyncedRecordsKeepBlobs` | `SyncedKeepsBlobs` | no closers, no process crash | `BlobInv` |
| `AckedRecordsSurvive` | `AckedSurvives` | `WholeWrites`, no closers | `LogInv` |
| `LogKeepsItsPromise` | `ImplementsCommitLog` | `WholeWrites`, no closers | `LogInv` |
| `CommitPointsAfterSync` | `PublishedAfterSync` | - | `PublishInv` |
| `TailsSeeAPrefix` | `TailIsAPrefix` | no failing cache | `OrderInv` |
| `TreeTypeCorrect`, `OnlyHolderWritesTree` | `TypeOK` of the tree, `OnlyHolderWrites` | `Orderly` | `OwnershipInv` |
| `RecoveredBeforeWriting` | `RecoveredBeforeWritten` | `Orderly` | `RecoveredInv` on `OwnershipInv` |
| `NoLockIsStranded` | `NoStrandedLock` | - | `HeldInv` |
| `RollbackFindsItsAdoption` | `RollbackFindsAdoption` | no reverts | `FoundInv` |
| `RunsTypeCorrect` | `TypeOK` of the runs | - | `HoldsARun` |
| `RunningHasADriver` | `RunningIsDriven` | - | `DrivenInv` |
| `NothingRunsWhileDown` | `DownIsQuiet` | - | itself |
| `OneRunAtATime` | `OneRunAtWork` | no run ended from outside | `OneInv` |
| `InputTakenOnce` | `TakenOnce` | - | `TakenInv` |
| `CompletedTookItsInputs` | `CompletedTookItsInput` | no run ended from outside | `SettledInv` |
| `ClaimedIsNotDiscarded`, `DiscardIsFinal` | `MailInv`, `DiscardedStaysUnread` | - | `DiscardedIsUnclaimed` |
| `TailTypeCorrect` | `TypeOK` of the tail | - | `TypeInv` of the frames in flight |
| `FetchesAreAwaited` | `FetchIsAwaited` | - | `NamedInv` |
| `ViewSettles`, `ViewIsUnbroken` | `SettledIsCurrent`; `ShownIsABranch` and with it `BrokenViewIsRebuilt` | `Undisturbed` | `FollowInv` |

The assumptions are those the code needs, and each names a behaviour of
section 4. `WholeWrites`: no write or cut that fails leaves half its work.
No closers: `log_close_loses_blob`. No process crash: a reopened log forgets
which blobs to sync, so a record may count as synced without its blob; it was
not acknowledged, which is why `AckedRecordsSurvive` needs no such assumption.
No failing cache: the announcement of a record is lost. `Orderly`: no child
published first, no fork joining an adoption, no publication failing halfway.
No reverts: their deletion of a child takes no adoption gate. No run ended from
outside: such a run keeps its task, which may complete it again beside a second
run. `Undisturbed` is a condition on the state and not on the constants: the
session has not been reverted yet, and nothing went wrong but refused subscribes.
So `ViewSettles` speaks of every behaviour up to its first revert, with replays
of any number of pages, which `tail_follows` does not have. It cannot be dropped:
TLC finds counterexamples with two reverts, with timeouts and with replays that
a view gives up (section 4). One revert is in between: `tail_follows` finds none,
and no proof covers it. Everything else that the modules can do is included, so the theorems cover
more than the runs: `RunningIsDriven` and `TakenOnce` hold with runs ended from
outside too, `PublishedAfterSync` with torn writes and half-done cuts,
`FetchIsAwaited` with any number of faults.

Why the invariants are needed:

- *The log.* That a record stays within the bound needs that no other thread
  writes between the check and the write: `SlotInv`, whoever writes, queues or
  closes holds the slot. `AckedDurable` needs `SyncInv`: what `Durability`
  counts as synced is on disk or older than the opening of the log, a sync in
  flight ends with no more than it started with, and a thread waits for a
  record of this opening that is still in the file. `SyncedKeepsBlobs` needs
  `BlobInv`: a blob that a record of this opening names, or that a thread is
  about to write a record for, is on disk, registered for the next sync, or
  taken by the one sync under way, which took every blob that a record it
  covers may lack. `LogInv` joins the
  two with what was acknowledged, and its steps are `CommitLog`'s.
- *Publication.* `PublishInv` says that what counts as settled is flushed or was
  reported as failed, that a sync which reports success covers what it set out
  to (`CoverInv`, `ClosedInv`), and that a published commit point is settled
  (`SeenInv`). `OrderInv`: what was published and what is queued are together
  the records written since the log was opened, in order, except for the one of
  the thread between its write and its queueing. Both use
  that cutting a queue by counting (`ReadyPrefix`) is a cut.
- *The tree.* `OwnershipInv` says how a process's entry, its task and the
  directory hang together: a tree that was locked is held (`EntryInv`); one
  still in memory has no directory unless it is being published (`PendingInv`),
  and at most one process has one; a fork or deletion works in a settled tree
  or under a lock of its own (`TaskInv`); the root is written where it is
  published (`RootInv`). `RecoveredInv` adds that whoever is past its recovery
  has closed what was open, which only the holder could open again.
- *Runs.* `DrivenInv`: a running run has a task at work or is held by the start
  that committed it; a task that left its loop belongs to a run that is over, and
  so does whoever asks for a start on a run's behalf, which keeps `Drain` and the
  answers to it from taking the task of a running run away. `OneInv`: one run is running, a start that found
  the session idle still finds it so when it commits, because it holds the
  reservation, and a run whose task is at work is running. `TakenInv` follows
  an input through the places that may name it: the queue, the head an ended
  run asks for, the command that holds the session, the one kept for later, and
  the runs of the log. `SettledInv`: an input pending for a run keeps that
  run running, and one that was given back was given back by a run that did not
  complete. A committed turn consumes every message its request claimed, so
  `DiscardedStaysUnread` rests on `DiscardedIsUnclaimed`.
- *Subscriptions.* The task that waits for a replay is answered when the page
  is taken, and the session stops being marked as fetching when the page is
  found to be of the current attempt and generation. The two are the same only
  if all that was asked under the current attempt has the current generation
  (`NamedInv`). `TailTypeCorrect` is by induction over the buffered messages:
  `Settle` is a recursive function, and that it has a solution, of the right
  type, is proved from `CountUpTo`, induction up to a bound for a set of
  numbers, which rests on the cardinality of intervals.
- *The view.* That a quiet view shows the log says nothing of a view that is not
  quiet, so `FollowInv` says of every record where it is. `StraightLog`: until a
  revert a record's number and id are its place. `Mode`: the session is in one of
  seven situations (a subscription from scratch is due, asked, answered, failed,
  delivered, followed by its tail, or to be recovered by the worker), at most one
  of the two tasks replays, and there is at most one request, which asks for what
  follows the pages collected so far. `Streams(b)`: the wire and then the tail's
  queue hold the records after `b`, one by one, up to the last published or up to
  the gap that closed the tail; in the modes with a tail, `b` is where the replay
  ends or the cursor stands. `ViewInv`: the deliveries in the inbox continue what
  the view shows, one behind the other, up to where the client delivered, in the
  subscription's generation unless a rebuild is to come. In the quiet states only
  one mode is left, a tail that follows with nothing queued, and there all
  positions are equal. One lemma per action shows which mode it leads to
  (`SubscribeEventsFollows`, `HandlePageFollows` and so on); those on pages and on the
  inbox share `StreamGrows`, `StreamMoves`, `StreamTaken`, `ViewDelivered` and
  `ViewApplied`.

One proof failed for a reason in the model: `ReadSession` in `SessionRuns`
chose by a `CASE` with two guards that may both hold, of which TLC takes the
first and the logic either. It is now a nested `IF`, in the order of the code's
early returns.

Only model-checked: every liveness property (`CallsReturn`, `QueueDrains`,
`ClosingFreesTree`, `QueueMoves`, `MailIsTaken`, `InputIsSettled`,
`ViewCatchesUp`), because liveness under fairness and `ENABLED` are beyond the
prover; and what `SettledIsCurrent` and `BrokenViewIsRebuilt` say of the time
after a revert, where `tail_follows` checks one revert within its bounds. Every
other safety property of the runs is proved.

## 6. Not modelled

The components listed as `not_modelled` in `PROJECT.json`: those planned
(section 7), and those that are parsing, formatting, rendering, adapters of
external interfaces or plain I/O, where a model would repeat the code. The fold
of events into a session's state is a large pure function over the event
vocabulary and has no concurrency of its own.

## 7. Plan

1. Proofs: the view after one revert, with replays of one page and no timeouts.
   The situations of `FollowInv` have to tell the branch before the cut from the
   one after it, and the rewind's place among wire, queue and inbox.
2. `SessionRuns`: late tool results, reverts, goals and their reminders.
3. Delegation: slots, the background queue at its limit (four times the slots,
   `delegation.rs` 3740), promotion, restart.
4. Approvals with the grant journal; cron fires across restarts; liveness of
   remote runtimes; background jobs' reports.
5. The loop guard as a pure algorithm against a reference definition.
