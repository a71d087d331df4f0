# TestPilot in TLA+

This directory holds TLA+ models of TestPilot's scheduler, worker and Copilot,
the TLC runs that check them on small instances, and proofs, for every instance,
of the safety properties of the nine components.
Paths are relative to the repository (`src/scheduler/internal/` is shortened to
`internal/`).

Check a run with `tlc -config <run>.cfg <module>` and the proofs with
`tlapm <module>.tla` (`RunLifecycleProofs`, `StressRunsProofs`,
`TaskDispatchProofs`, `PoolAndHubProofs`, `WorkerClientProofs`,
`ProjectTreeProofs`, `SchedulesProofs`, `CopilotChatProofs`).
`PROJECT.json` lists the runs, the source lines behind every definition, the
hazards, a plausible bug (mutant) for every checked property, and the findings.

## 1. The system

A **scheduler** (Go, one process) keeps everything in a SQL database (SQLite or
PostgreSQL), serves REST and gRPC, and drives **workers** (Python, asyncio) over
one bidirectional gRPC stream each. A **Copilot** (Python, LLM agent) calls the
scheduler's gRPC tools, and a **web** client calls REST.

| Component | State it keeps | Operations | Hard part |
|---|---|---|---|
| Run lifecycle (`internal/runner/runner.go`, `case_run.go`, `debug.go`, `recover.go`, `internal/dispatch/dispatch.go`, `cancelRun`) | `TestRun`, `TestCaseResult`, step rows; `waiters` | Trigger, RunCase, Debug, HandleTaskResult + maybeFinishRun, cancelRun, ReapStaleRuns, RecoverInterruptedRuns | seven writers of the same rows in as many goroutines; crash; two isolation levels |
| Stress runs (`runner/stress.go`, `dispatch.go`) | `StressRun` rows, `stressRuns` counters, `Worker.stress` | TriggerStress, DispatchStress, handleStressResult, AdjustStressRun, reaper | compare-and-swap reservations, a countdown from two sides |
| Task dispatch, tracking and cancellation (`dispatch.go`, pump of `worker_service.go`) | `load`, `Send` channels, `taskRuns`, `runTasks` (sync.Map) | Dispatch, TrackTask, UntrackTask, CancelRun, SetLoad | a shared read lock, sequences of atomic map calls, a cancel against the task it cancels |
| Worker pool (`dispatch.go`, `grpcserver/worker_service.go`) | `workers`, each connection's `lastSeen`, `closed` | Register, Unregister, SetLoad, ReapStaleWorkers, Shutdown, Connect | reconnects under the same id, hung connections |
| Worker client (`worker/.../client.py`) | `tasks`, `sem`, `outbox`, `_dead`, `_stop` | sessions, task coroutines, cancel, heartbeat | cancellation at every await, full outbox, reconnect |
| Probe hub (`probe/probe.go`) | `sessions`, `pending` | Open, Act…, Close, Deliver, Sweep, OnWorkerDisconnect | registry used before and after a network wait |
| Project tree (`httpserver/tree_handlers.go`, tree tools of `copilot_service.go`) | `tree_nodes` with parent, materialised path, order; entities | create, mount, move, delete, unmount, reorder | two encodings of one tree; checks read before the transaction |
| Schedules (`cronsched`, `schedule_handlers`, `deletePlan`) | rows with `next_run_at`; entries of the cron library | Start, Sync, Remove, fire, touch; CRUD | row and entry are two writes; missed firings; overlap |
| Copilot chat (`copilot/.../main.py`, `copilot_handlers.go`, `copilottrash.go`, `Copilot.tsx`) | `CopilotSession`, `CopilotMessage`; cards in a tab | chat request, approvals, stop, resend; trash, purge | the transcript is read once and written at the end, row by row |
| Quota (`quota/quota.go`) | limits; usage counted from rows | Check, CheckTx | check-then-act |
| Event broker (`events`) | subscriptions with 64-slot channels | Subscribe, Publish, Close | drops, close against publish |
| Retention | — | daily deletes | against late results |
| Materialization (`runner/lowcode_api.go`, `convert.go`) | none | pure | reference resolution |
| Worker engine, sandbox, stress engine, probe sessions | per task | step control flow; script protocol; ramp and gate; browser sessions | timeouts, kill, loops |
| Other REST CRUD, auth, OIDC, tokens, artifacts, import/export, audit, notify, metrics, web, generated code | rows | single transactions or pure I/O | little concurrency |

**Interactions.** Trigger/Debug call `Dispatch`, which reserves a worker under
the pool's read lock, tracks the task and puts a command into the connection's
channel. The connection's goroutines pump commands to the worker and feed its
events to `SetLoad`, `HandleTaskResult` and `Hub.Deliver`. The worker runs a
task as a coroutine and answers through its outbox. `cancelRun` closes rows and
broadcasts to the workers what `runTasks` still lists. Cron entries call Trigger.
The Copilot's tools call the same runner, dispatcher, hub and tree. Two reapers
(30 s for workers, 5 min for runs) and start-up recovery clean up what the rest
leaves.

**What makes each component correct**: a run ends once, with an outcome its cases
justify, and cannot stay open for ever; a late answer changes nothing; a quota
holds; a stress worker serves one run and a stress run ends when all its workers
have answered; a cancel reaches what is out; a live connection is the one in the
pool; a permit is never lost; a pending call or a session never leaks; the two
ways to say where a node is agree; what is enabled is scheduled and nothing else;
an approval is spent once.

## 2. The modules

### RunLifecycle (with RunLifecycleProofs)
Rows are `runStatus` and `crStatus` per run and item; `steps` counts how often
step results of a case were stored and `finishes` how often the run was
announced (`notify.RunFinished`). A goroutine of Trigger or Debug is a program
counter: *plan runs* execute `TriggerStart`, then per item `SkipItem` or
`CreateCase` followed by `DispatchOk` or `DispatchFail`/`FailCase`, then
`TriggerEnd`; RunCase is a plan of one item. *Debug runs* execute `DebugStart …
DebugFailRun`. HandleTaskResult is a transaction of three steps (`ReportBegin`:
the guarded case UPDATE; `ReportCount`: maybeFinishRun's counts; `ReportCommit`:
the guarded run UPDATE, commit and notification) or `ReportRollback`. `SerialTx`
chooses the database: SQLite's immediate transactions exclude each other,
PostgreSQL's READ COMMITTED ones see committed rows and their own update and lock
the case rows they touch. `Restart` is a crash followed by
RecoverInterruptedRuns, which `main` calls before it starts anything else.

Abstracted: the worker and the dispatcher (a dispatch succeeds or fails, a sent
task is reported once or lost), the summary text, the step contents, artifacts,
and cancelRun's commit window (its writes and commit are one step). Conditions
that abort before the run row exists leave no trace and are left out.

### RunContract (proved to be implemented in RunLifecycleProofs and StressRunsProofs)
What the scheduler promises of runs, whoever creates, reports, cancels, reaps or
recovers them: a run is created once, opens cases, is closed once, and is
announced at most once, when it is closed and no case is open; a case is opened
once and closed once. A run in `excused` may be announced with cases open; who is
excused stays so. `RunLifecycle!Contract` is the instance under the mapping
`Phase`: no row is "none", RUNNING is "open", any other status is "closed";
announcements are `finishes`, and no run is excused. `StressRuns!Contract` is a second
instance, with the tasks as the cases: a task is open from when it is sent until
handleStressResult has counted its answer, so "announced with no case open" reads "with
no answer owed, under way or uncounted". It excuses the runs that a candidate did not
take its task of, whose counter the code decrements although a spare worker may take
the task (section 3).

### StressRuns (with StressRunsProofs)
`tracked/remaining/failed` is the `stressState` of a run; `stress/until` the
reservation of a connection, which registers under `WorkerId` and is `new`, `open` or
`closed` (`link`: `Connect`, `Disconnect`). TriggerStress goes through `Start`, for each
candidate `Refused` or `Reserve` then `SendOk`/`SendFail`, `Adjust` after a
failure, and `LoopEnd`. A task whose session ends is `stale`: it is lost, or its answer
comes on a later connection of the worker (`LateReport`, because client.py clears
`_dead`). handleStressResult is split at every atomic operation
(`HandleBegin`/`HandleUntil`: the two stores of EndStress, on the connection that
reports, `via`; `HandleFailed`, `HandleCount`, `HandleFinish` or `HandleDbError`). The
reaper closes the row and drops the counter in two steps. `refused` (how many
candidates did not take a run's task) and `strayed` (connections whose reservation a
late answer ended) are history, which only properties read.

### TaskDispatch (with TaskDispatchProofs)
From a run's loop to the worker. `Pick` scans the pool, `Reserve` adds to the
chosen worker's load and releases the read lock, `TrackTask`/`AddId` are the two
sync.Map calls of TrackTask, `Send` puts the task or gives up (closed or full),
`Release` rolls back. The set of ids lives behind a pointer: it is named after
the TrackTask call that allocated it, so that a deleted and a newly created set
of the same run are told apart. `CancelRun` lists the run's set and the pool and
`SendCancel` puts a command per worker and task, or drops it at a full channel.
`Pump` hands the head of a channel to the worker, `Result` answers, `Untrack` is
the handler's sequence, and `Heartbeat` stores what the worker counts over the
scheduler's own counter. `Leave`, `Shutdown` and `Evict` are the ends of a
connection. `aimed` is history: tasks a cancel found after they were sent. Left out:
`Dispatcher.Cancel`, which puts a cancel for one id into every channel when a debug run
times out (`debug.go:233`) and changes nothing in the scheduler; RunLifecycle has the
timeout itself.

### WorkerPool (with PoolAndHubProofs)
A connection goes through `new, serving, leaving, told, unregistered, gone`;
`closed` is the closed channel and `link` the network. Register checks the quota,
shuts the old connection of the id down and takes its place; the connection's
goroutine lets go in the three steps of its deferred function: `LoseSessions` tells the probe hub, `Unregister` takes the connection out of the pool if it is still the
one there, `Shutdown` closes it. Abstracted: loads and channels (TaskDispatch),
capabilities and tags, several tenants, and time.

### WorkerPresence (between WorkerPool and ProbeHub)
All that the hub sees of the pool: the ids `Dispatcher.Workers` lists (`present`),
and how many registered connections of an id it has yet to be told of (`owed`). An id
appears with each registration, vanishes by Unregister or the reaper, and the hub is
told once per registered connection, by id, before or after the id vanishes or when
it is back on another connection. `WorkerPool!Presence` is the instance under
`present` = the ids in `pool` and `owed` = how many connections of the id are serving
or leaving; the run `pool` checks it and `PoolImplementsPresence` proves it. ProbeHub
EXTENDS the module, so what is checked and proved of the hub rests on no assumption
about workers but the one the pool is shown to keep. (The hub's names start with
`Hub` where the pool has the same ones, so that one module can prove about both.)

### WorkerClient (with WorkerClientProofs)
One asyncio loop, so one action per stretch between awaits. A task is `created,
queued, running, cleaning, emitting, done`; `cancel` holds cancellations that
were requested and not yet thrown. `Lost` is the `finally` of `_session`.

### ProbeHub (with PoolAndHubProofs)
Session objects are named after the Open call that made them, so that an id can
name a later object. Every call is split where the hub's mutex is released:
`Open/Act/Close`, `Route`, `Send`, `Deliver`/`Timeout`, `EndTrip`, `AfterCall`;
the sweeper is a process of its own (`Collect`, `SweepNext`, `AfterSweep`). Workers
come and go as WorkerPresence says: `WorkerAppears`, `WorkersVanish`, and
`OnWorkerDisconnect`, which drops the sessions of the worker it is told of. One tenant.

### ProjectTree (with ProjectTreeProofs)
`nodes` maps an id to parent, path (a sequence of ids), order and mounted entity;
`api` is the entity's row. A request goes through what it reads before its
transaction and then the transaction (`…Tx`), which is one step: SQLite's write
transactions exclude each other. A handler of one transaction that reads
everything inside it is one action. What a request holds between the two has a type of its
own (`Creation`, `Mounting`, `Moving`, `Deletion`). The Copilot tools on the same rows are
actions of their own, with their own (missing) checks. Requests overlap freely, as
they do in the code. `UpToDate` says that nothing a request has read for its
transaction has changed since; a request of which that is false was overtaken, and the
properties say what holds of such requests as well and what does not.

### Schedules (with SchedulesProofs)
`row`, `plan` and `entry` are the database and the cron library; `job` is a
firing goroutine (`Tick`, then `fire`: load, overlap, trigger, touch), `req` a
REST or Copilot request between its row and its entry, and `Boot`, `StartAdd`,
`StartDone` the start, in which goroutine `Main` fires what was missed; the first one
finds in the store whatever an earlier process may have left. Times are `ahead`, `late`
(within the grace) and `overdue`. A run of a plan only counts as RUNNING and ends by
itself; Trigger may refuse one (the plan is deleted, has no enabled item, or a quota is
used up), which `fire` logs before it touches the row. History: `owed` are the
catch-ups due, from the start that found them until `fire` has dealt with them,
`dropped` those a crash took away between `addLocked` and `fire` (`CutShort`), and
`overtaken` the schedules whose entry was written by a request after another one had
changed the row.

### CopilotChat (with CopilotChatProofs)
`rows` is the stored transcript, `req` the chat requests with what each holds
between its read of the transcript (`History`) and its writes (`PostRead`,
`PostCreate` for each row of `queue`), `card` what a tab shows, `executed` how
often a writing tool ran. `Cut` is on_cancel, `Complete` on_complete, `CutSaving` the
idle guard or a disconnect while the rows are being stored, `Fail` an exception of the
run, `Crash` the Copilot process, `Stop` the user's stop button. The agent library is modelled by what `main.py` makes of it: a call is
proposed, approved calls are executed before the model goes on, and the run ends
when a call waits for its approval.

`MC*.tla` extend these modules with symmetry sets and functions for TLC.

## 3. The runs

All runs set `CHECK_DEADLOCK FALSE`: the finite sets of runs, calls, requests,
tasks and connections are used up in the end and the system then rests.

| Run | Instance | Shows |
|---|---|---|
| `run_sqlite` | fair; 1 plan run of 2 cases, 1 debug run, dispatches that fail, 1 restart, SQLite | the run contract is implemented; the last report ends a run if all its cases were sent; reported verdicts are final; PASSED only if no case is open or FAILED; every run ends, whatever is lost |
| `run_postgres` | the same on PostgreSQL with a quota of 1, no restart | the quota holds; an announced outcome stays (the inductive invariant `IInv` of the proofs holds here too, and can be listed) |
| `stress` | 3 runs wanting 1 worker that reconnects (2 connections), closing UPDATEs that fail, 1 restart | reservations are exclusive unless a late answer ended one, and have a holder |
| `stress_ends` | fair; 1 run wanting 2 of 3 workers, one of which reconnects (4 connections), closing UPDATEs that fail, 1 restart | the counter is the answers owed less the refusals; an ended run keeps its outcome; the run contract is implemented: closed and announced once, when all answers are in unless a candidate refused; PASSED has no failed answer beyond refusals; every run ends |
| `dispatch` | 2 tasks of a run that is cancelled and 1 of another, 2 workers of 1 place, one of which may be lost, channels of 2 | the load drifts by at most one per run; nothing is left in the maps; nothing finished is cancelled; a cancel of what was sent follows its task |
| `pool` | fair; 4 connections of 3 workers, 2 slots | a live connection is the pooled one; worker_slots holds; shut-down connections are let go; hung workers leave the pool; the pool is what the hub takes it for (WorkerPresence) |
| `client` | fair; 2 tasks, 1 permit, 3 sessions, outbox of 3 | permits are accounted for; what waits or runs can be cancelled, and is cancelled after a disconnect; results survive a cancel; every task ends |
| `probe` | fair; 2 calls and the sweeper, 2 ids, 1 worker of 1 session | the worker's limit; no pending leak; every session ends |
| `tree` | 6 requests, 2 at a time, 1 entity, 3 nodes, insertions at the end, before the first and second | paths go on following parents through every step but an overtaken insertion or move; a deletion takes the subtree as displayed or nothing; insertions keep the numbering |
| `schedules` | fair; 1 schedule of 1 plan, a valid and an invalid expression, 2 requests at a time, 1 firing goroutine, runs that Trigger refuses, 1 crash | the entries are those of the enabled rows that parse, or about to be, unless an overtaken request wrote one; a missed firing is made up for; an enabled plan keeps running |
| `chat` | fair; 1 tab, 3 requests, 1 call, 1 text, 1 fault, cuts also while rows are stored | an approval is spent; nothing is executed that the transcript does not show; a resend is not stored twice; every request ends |

Each has between 40 thousand and 7 million distinct states and takes at most a few
minutes with two workers. Type invariants (`TypeOK`) stand in every
module; where no run lists one, it holds in that run's instance too and can be
added to its configuration.

One run finds a disagreement between the code and its own comments (the quoted
lines are under `findings` in `PROJECT.json`): `run_v_early`. Trigger creates case
rows one by one; the first report may find all rows that exist ended and close
the run as PASSED, and a later case fails.

Further disagreements are stated in the modules and violated in small instances,
but have no run of their own; put the property into the configuration named to
see the trace.

| Property (module), configuration | Disagreement |
|---|---|
| `AbortedRunHasNoOpenCase` (RunLifecycle), `run_v_early` | Trigger's loop does not look at the run's status and goes on creating RUNNING cases of a cancelled run |
| `OnlyRunningRunsEnd` (RunLifecycle), `run_sqlite` | Debug's timeout overwrites the outcome of a run that has already ended: its closing UPDATE has no status guard |
| `LastReportEndsRun` (RunLifecycle), `run_postgres` | READ COMMITTED: the transactions of the last two reports do not see each other, and neither ends the run; it waits for the reaper. On SQLite (`run_sqlite`) the property holds |
| `ImplementsContract` (RunLifecycle), `run_postgres` | READ COMMITTED: Trigger creates a case between a report's counts and its COMMIT, and the run is announced with that case open |
| `LastAnswerEndsRun` (StressRuns), `stress_ends` | when the last decrement comes from a failed dispatch, after the answers, nobody closes the run until the reaper |
| `ExpiredIsReusable` (StressRuns), `stress` | an expired reservation is offered as a candidate and refused by the compare-and-swap, which looks at the flag only |
| `RemainingIsWhatWasSent` (StressRuns), `stress_ends` | a refused candidate is replaced by a spare one, but the counter has been decremented for it: it is below the number of answers owed, and the run is closed before the last of them |
| `ExclusiveOnConnections` (StressRuns), `stress` | a task outlives its session, its answer arrives on the worker's next connection and ends the reservation that another run has made of it (`dispatch.go:667`): a third run takes the worker as well |
| `ExclusiveAtWorkers` (StressRuns), `stress` | a worker that reconnects with a task still at work is a new connection, not reserved: a second run drives it |
| `ReservationsWithinMax` (TaskDispatch), `dispatch` | the reservation is made under a read lock, which dispatchers share: both take the last place of a worker |
| `ReachesAllSent` (TaskDispatch), `dispatch` | UntrackTask deletes the run's entry just after TrackTask put the next task into its set: that task cannot be cancelled any more |
| `CancelNeverOvertakes` (TaskDispatch), `dispatch` | a task is tracked before it is put into the channel: a cancel in between is put before it, and the worker ignores it |
| `LostAreUntracked` (TaskDispatch), `dispatch` | a task whose worker is lost is answered by nobody, and stays in both maps even after its run was cancelled |
| `RejectedOnlyOverQuota` (WorkerPool), `pool` | a worker that reconnects while its old connection is in the pool is counted twice and rejected |
| `OldSessionSilent` (WorkerClient), `client` | `_dead` is reset by the next session: a task whose clean-up outlasts the reconnect sends its result there |
| `SweepSparesReactivated` (ProbeHub), `probe` | Sweep compares the session object only, and Act refreshes the activity of that object: a session that was just used again is deleted |
| `PathsAgree` (ProjectTree, as an invariant), `tree` | parent and paths are read before the transaction and not again: a node is created below a folder that has been moved or removed meanwhile, and carries a path or a parent that is no longer there |
| `Rooted` (ProjectTree), `tree` | the cycle check reads before the transaction: of two overlapping moves each passes, and the two folders become each other's parents |
| `AppendedLast` (ProjectTree), `tree` | "appended at the end" uses the number of children, which is not the last order after a removal |
| `MountedOnce` (ProjectTree), `tree` | REST refuses a second mount of an entity, Copilot's mountRef does not ask |
| `MountsAreLive` (ProjectTree), `tree` | deleteAPI deletes the mounts with the entity, Copilot's DeleteApi does not |
| `OverlapRespected` (Schedules), `schedules` | the policy counts RUNNING runs and then triggers: a firing and a manual run pass together |
| `NoCatchUpIsLost` (Schedules), `schedules` | Start enters a row, which moves `next_run_at` on (`cronsched.go:48`), before it fires what was missed (`:51`): after a crash in between nothing tells of the missed time |
| `DeletedPlanIsNotEntered` (Schedules), `schedules` | deletePlan disables its schedules, Copilot's DeletePlan does not, and an update that has passed its check enables one of a plan deleted meanwhile |
| `InvalidNeverRuns` (Schedules), `schedules` | a row whose expression does not parse has no entry, but every restart finds it overdue and fires it |
| `EntriesFollowRows` (Schedules), `schedules` | two updates write their rows in one order and their entries in the other: the entry is the overtaken one's until the next update or start |
| `ExecutedOnceEver` (CopilotChat), `chat` | two overlapping requests, of two tabs or after a stop, both read the transcript before either stores its result, and both execute the approved call |
| `NoOrphans` (CopilotChat), `chat` | a message is created after the check found the session active and the session was deleted and purged: its row stays for ever |

**Bounds.** `MaxRestarts`, `MaxSessions`, `MaxReqs`, `MaxId` and the finite sets
bound what is created and how often something crashes; one restart reaches every
state a component can be interrupted in, and three sessions let a task outlive one
that was itself a reconnect. Two items per plan
are what it takes for a report to race with the loop and for two reports to race
with each other; two runs or workers for every race between peers; four
connections for a reconnect next to two other workers on two slots; an outbox of
three to be full of either kind while a heartbeat is due. In `probe`, `MaxOwed` 2
lets a worker be back on a new connection before the hub is told of the old one. In `dispatch`,
`Cancellable` and `Watched` name the runs somebody cancels and the workers that
send heartbeats and may be lost: one of each, next to one that is left alone;
`Capacity` 2 is the smallest channel in which something can be behind something
else. In `stress`, three runs are the one whose answer is late, the one whose
reservation it ends and the one that takes the worker then; `Online` are the
connections of the start, `Reconnects` those of the worker that reconnects, and
`Ageing` the runs the reaper may find. In `tree`, three nodes are a folder in a folder
with a node in it (or two siblings to shift), six requests create them and overtake one
another; `MaxOrder` stops insertions at an index from pushing siblings for ever, and
`MaxRequests` bounds the requests. In `schedules`, `MaxRunning` bounds the RUNNING runs
of a plan: Trigger refuses beyond it, as it may at any time; `Policies` is the policy
that skips, the other one only skips a guard. In `chat`, `MaxReqs` 3 is a request that proposes, one
that executes and one that resends; `MaxHit` stops faults once that many requests
were struck; `MayAct` stops a tab that has no request left to send. With two tabs
and no liveness the invariants of `chat` hold too (4.7 million states); one tab
with `Stop` already produces overlapping requests. There are no other bounds.

**Fairness.** Weak fairness of goroutines that can run, of open transactions, of
tickers and timers, and of time passing (`Age`, `GrowStale`, `GrowOld`). Strong fairness
for the worker's semaphore, whose waiters asyncio serves in order (`Acquire`), and for
`Tick` (the cron library starts a goroutine per firing, the model has a few to share).
Nothing is assumed of
workers, networks, callers, cancellations, models or answers; a task in the
worker ends because of its timeout or its cancellation, a chat request because of
its idle guard (`Cut`; the time limit is configured above 0, the default is 300 s: at 0
`main.py:131` leaves the guard out) and the time limits of its REST calls. `Age` requires that
the goroutine in Trigger or Debug has returned: `StaleRunAge` is two hours.
`KeepsRunning` has hypotheses instead: it speaks of plans with a schedule that stays
enabled and whose entry no overtaken request wrote, which from some time on nobody runs
by hand and Trigger does not refuse.

## 4. The proofs

Every theorem is about the specification of its module, for any finite or infinite
sets and any numbers that the module's named assumption allows, without the bounds
of the runs. Three theorems on RunLifecycle need more and say so in
their `ASSUME`. Each proof has an
inductive invariant, one lemma per part of it or per kind of step, and a last step
that combines them; TLC checked the invariants on the runs' instances first.

### RunLifecycleProofs
From `RunLifecycleAssumption`, on both databases:

| Theorem | Statement |
|---|---|
| `Inductive`, `TypeCorrect` | `Spec => []IInv`, `Spec => []TypeOK` |
| `NotifiedOnce` | `Spec => []NotifyAtMostOnce` |
| `LateReportsDiscarded` | `Spec => LateReportDiscarded` |
| `ReportedVerdictsFinal` | `Spec => ReportedVerdictFinal` |
| `AnnouncedOutcomesFinal` | `Spec => AnnouncedOutcomeFinal` |
| `QuotaIsRespected` | `Spec => []QuotaRespected` |
| `ContractInvariant` | `Spec => []CInv` (what it says of conclusions, for the serial database only) |
| `Implements` | `ASSUME SerialTx PROVE Spec => ImplementsContract` |
| `PassedAllPassed` | `ASSUME SerialTx PROVE Spec => PassedOnlyIfAllPassed` |
| `LastReportEnds` | `ASSUME SerialTx PROVE Spec => []LastReportEndsRun` |

Why a strengthening is needed: that a reported verdict is final depends on
`FailCase`, which overwrites a case row without looking at it. It is harmless
only because the item it fails was never sent (`AheadNotSent`), and a verdict
only comes from a sent task (`ReportsWereSent`, `StepsHaveVerdict`). Likewise
`TriggerEnd` overwrites the run only if nothing was dispatched, while an
announced run has a dispatched item (`FinishedHasEnded`). `AcceptedIsOpen` says
that a transaction whose guarded UPDATE hit its row still finds it RUNNING when
it commits, on either database. `IInv` is the conjunction; its preservation is
proved in three lemmas, one for the types (`TypeStep`), one for what was sent
(`SentStep`) and one for what was decided (`VerdictStep`). The quota proof shows
that only the creation of a run enlarges the set of RUNNING runs
(`RunningShrinks`) and that creation has counted it.

`CInv` says what the mapping to RunContract needs beyond `IInv`: a run whose
goroutine has started has a row, no case row exists ahead of its loop, and a
transaction that concluded "no case open" still finds it so when it commits
(`ConclusionHolds`). The last part is where `SerialTx` enters: no other writer
gets in between the counts and the COMMIT. The refinement is `EveryStepMaps`,
which combines `TriggerMaps`, `DebugMaps` and `CommitMaps`: the creating actions
map to Create or OpenCase, `ReportCommit` to Announce or Close, the reaper,
cancelRun, Restart and the failures to Close, and the rest to stuttering.

`OInv` is behind `LastReportEnds`: a RUNNING run has a case open, or its loop will
still open one or close the run (`StillOpen`). The step to fear is a report that
counted and decided not to end the run; with `SerialTx` another case it counted is
still RUNNING when it commits (`AnotherIsOpen`). On PostgreSQL that is false, and so
is the property (section 3).

### StressRunsProofs
From `StressRunsAssumption`, for any runs, workers, connections and `WorkerCount`:

| Theorem | Statement |
|---|---|
| `TypeCorrect` | `Spec => []TypeOK` |
| `WorkersAreExclusive` | `Spec => []ExclusiveWorker` |
| `ReservationsHaveHolders` | `Spec => []ReservationHasHolder` |
| `OutcomesFinal` | `Spec => OutcomeFinal` |
| `CounterIsExact` | `Spec => []CounterAgrees` |
| `RunsCloseWhenAllAnswered` | `Spec => ClosedWhenAllAnswered` |
| `PassedMeansNoFailure` | `Spec => PassedHasNoFailure` |
| `StressRunsKeepTheContract` | `Spec => ImplementsContract` |

The invariant `Protocol` follows a reservation from the compare-and-swap to the store
that ends it: a (run, connection) pair that is being sent to, at work, or answered and
not handled is a `Holder`, which implies the reservation (`HoldersReserve`), and no two
runs hold one connection (`OneHolder`). Both leave out the connections in `strayed`:
EndStress acts on the connection that reports, and a task that outlived its session
reports on one that another run may hold. That is all that breaks exclusiveness; without
the exception it is false (section 3), since the code has it so. `StaleIsOver` and
`NewIsFree` say that such a task's own connection is closed and that a new connection is
nobody's; `AnswersOfJobs` that results and handlers belong to answered jobs, each once.

`Agrees` says that the counter is the number of the answers still owed, a sum over jobs,
results, handlers and candidates that each step changes on both sides by one, less
`refused`, the candidates that did not take their task. It needs no assumption on how
many workers there are: the code decrements the counter for such a candidate whether or
not a spare one replaces it, and the statements say what that costs. A run that nobody
refused is closed with nothing owed; one that was refused n times may be closed with n
answers or sendings still to come, and as PASSED with n failed answers not yet seen
(`UnseenFailures`; `FailureRemembered` says where the flag of a failed answer is). The
refinement excuses exactly the runs with a refusal (`ClosingFindsExcused`). It takes
one step at a time: `Start` creates (`StartCreates`), a task sent opens its case
(`SendingOpens`), the handler that closes the run announces it and finds no task open or
the run excused (`FinishAnnounces`), and every other step only settles tasks and closes
rows (`AllButSendingSettle`, `AllButStartClose`), which is one Close of the contract
(`SettlingIsClose`): an answer is settled when it is counted, not when it arrives, and a
restart settles all that were on their way.

### TaskDispatchProofs
From `TaskDispatchAssumption`: `TypeCorrect` (`[]TypeOK`, which bounds the drift of
the load by one per run loop), `NothingIsLeft` (`[]NothingLeft`),
`CancelsFindUnfinished` (`[]CancelsOnlyUnfinished`) and `CancelsFollowTasks`
(`[]CancelFollowsTask`). The invariant `Tracking` says who keeps what: a run's set in
`runTasks` has somebody who will delete it (`SetsHaveKeepers`), its members are on
their way out of that very set and no other (`MembersUnfinished`: the pointer may
have been replaced), the load is what is reserved plus at most one per loop
(`LoadDrift`), and a sent task is once in its worker's channel or at its worker
(`OneTaskCommand`, `SentIsSomewhere`). The last two order a cancel behind its task.

### PoolAndHubProofs
*The pool*, from `WorkerPoolAssumption`: `TypeCorrect`, `LiveConnsArePooled`
(`[]LiveConnIsPooled`), `SlotsAreRespected` (`[]SlotsRespected`) and
`PoolImplementsPresence` (`ImplementsPresence`). `TypeOK` carries
the part of the argument that ties a pooled connection to its id and to a goroutine
that has not unregistered it; with it `LiveConnIsPooled` is inductive, because
whoever takes a connection out of the pool shuts it down (Register, the reaper) or is
its own goroutine (Unregister, which compares pointers). For the quota,
`OnlineShrinks` covers every step but a registration, which counts and registers
under one write lock. For the refinement, `owed` is the size of a set
(`Untold`) to which a registration adds one and LoseSessions takes one away;
the set of connections need not be finite, those that are not done with are
(`FinitelyUntold`).

*The hub*, from `ProbeHubAssumption`: `HubTypeCorrect` (`[]HubTypeOK`), `LimitsHold`
(`[](WorkerLimit /\ TenantLimit)`) and `PendingDoesNotLeak` (`[]NoPendingLeak`). The
invariant `HubInv` adds to the types that every registered or collected object is named
after a call that was made, and that such a call has a session id (`ObjectsAreOpened`),
so that a new object is not one of those already counted. `RegistryStep` then says what a step does to the registry: one
Open adds one object, having seen room for it on its worker and for the tenant, and
every other step, a disconnect that is told late included, only takes some away.

### WorkerClientProofs
From `WorkerClientAssumption`, for any, also infinite, set of tasks: `TypeCorrect`,
`NoPermitLeaks` (`[]PermitsAccounted`), `CancellationReachesEveryTask`
(`[]CancellableOrCancelled`) and `ResultsSurviveCancel`. `Bookkeeping` adds that an
open session is not dead and that a coroutine that has not taken its first step
belongs to it (`SessionLive`), and that the tasks that execute are finitely many: the
bounds of the semaphore are not a type that steps keep one by one, they follow from
the count of the permits.

### ProjectTreeProofs
From `ProjectTreeAssumption`, for any number of requests that overlap freely:
`TypeCorrect` (`[]TypeOK`), `PathsAreFollowed` (`PathsFollowParents`),
`DeletionTakesTheSubtree` (`DeletesTheSubtree`) and `NumberingIsKept`
(`InsertionKeepsNumbering`).

That the paths agree (`PathsAgree`) is not an invariant of the code (section 3), but
every step keeps it that is not the insertion or the move of an overtaken request, and
that is what `PathsFollowParents` says. `Tree` is the inductive invariant: the types, and
of what a request holds what stays as it is while it waits (`Checked`: the path of a node
ends with the node, a move's target is not below it). Every action is one of six kinds
of step (`StepIs`), with one lemma each: `PathsKeptByAdds`, `PathsKeptByDrops`,
`PathsKeptByDeletion`, which holds also where the path is no longer the folder's,
`PathsKeptBySameWays`, and `PathsKeptByMove`, the one with work to do: a rewritten path
leads to the new parent, which is not in the subtree by the cycle check
(`TakerIsOutside`), then through the moved node, then as before (`Spliced`).

For the deletion one has to know that the path selects what is displayed below the
folder. `WaysHold` says where a node is by its path alone, each id in it a folder whose
own path is what the path has up to there; it follows when the paths agree
(`AgreeingWaysHold`). The way up by parents, a recursive function, is then the path read
backwards (`WayIs`, by the least height at which the two would differ), and paths are no
longer than there are ids, as their ids differ (`PathsAreShort`). A path that is no
longer the folder's selects nothing (`SelectingPath`). For the numbering, `RoomIsMade`
is the argument common to a creation, a mount and a move; a moved node's new siblings
are not in its own subtree.

### SchedulesProofs
From `SchedulesAssumption` and `NoRowAssumption`: `TypeCorrect`, `MissedAreFired`
(`[]MissedAreMadeUp`) and `EntriesAreTheRows` (`[]EntriesAgree`), for any overlapping
requests and crashes. Both rest on what a process that is not up has not done
(`NotUpYet`).

`MissedAreMadeUp` says that no catch-up is due once a start is over. What is due outlives
a start that is cut off: a crash before the row is entered leaves it to the next start,
one after `fire` has dealt with it has nothing to lose, and only one in between takes it
away (`CutShort`; the code has no way to know of it then, section 3).
`CatchUps` says where one that is due is to be found: in the row while the process is
down, and in what Start has loaded as missed or is firing while it starts
(`StartGoesOn`, `StartFires`). `LoadedIsStored` ties what was loaded to the store, which
nobody else changes before the process is up.

`EntriesAgree` is inductive together with `AddsTheRow`, that what Start has loaded is
what the row says, next_run_at aside: an entry is what the row asks for, or Start or a
request is about to make it so (`Accounted`), or a request that had been overtaken wrote
it (`overtaken`). The argument follows each request from its row to its entry
(`RequestsAgree`); firings only change next_run_at and runs (`Aside`). Without
`overtaken` the property is false (section 3).

### CopilotChatProofs
From `CopilotChatAssumption`: `TypeCorrect`, `ExecutedOnlyOnce` (`[]ExecutedOnce`),
`ExecutedAreOnRecord` (`[]ExecutedIsOnRecord`) and `NoEchoes` (`[]NoEcho`). The
invariant `Transcript` follows the result of an executed call to the transcript
through the request that made it (`ResultsKept`: in its hands, in its queue or
stored), so that a request that fetched afterwards sees it and does not execute the
call again (`ApprovalsSpent`); `Signed` says which request wrote a row, and
`FreshTexts` that a text waiting to be written does not repeat the last row. A cut while
the rows are stored (`CutSavingCrashes`) ends a request as a crash of the process does:
it loses the rows to come but the one the scheduler is serving.

### Model-checked only
- Liveness, which needs fairness and ENABLED and is beyond the prover: `EveryRunEnds`
  (RunLifecycle, StressRuns), `EveryTaskEnds`, `EverySessionEnds`, `KeepsRunning`,
  `RequestsEnd`, and of the pool `ClosedIsLetGo` and `HungLeavesPool`. No theorem states
  these; every other property of a passing run is stated by one.
- What the code does not keep (`run_v_early` and the disagreements of section 3).

## 5. Plan

1. Proofs: what reports promise of verdicts without `SerialTx`, with weaker
   statements.
2. **EventBroker**: bounded channels, subscribe/close/publish, and what a page
   that refetches on events sees.
3. The **sandbox** protocol (request, reply, timeout, kill); **worker probe
   sessions**; the **stress gate**.
4. **Retention** against late results.
5. Pure operators: the engine's **step control flow**, materialization of
   references, version migrations.

## 6. Not modelled

- **Retention** (`retention.go`): a daily job of separate statements on runs long
  ended, whose errors are skipped. Read closely, it may leave behind step rows (a
  failed Pluck), files (a failed `store.Delete` is only logged) and metric points
  of a stress run that arrive after the deletion; the run's row goes last, so a
  crash in between is made up for the next day. Uploading an artifact writes the
  file, then the quota, then the row; a failure in between leaks the file.
- **Event broker**: bounded channels that drop events for slow subscribers; pages
  refetch what they show, so no state above depends on an event.
- **Quota** beyond concurrent runs and worker slots: monthly_runs, ai_calls and
  artifact_bytes count rows of the past, check-then-act, and are soft limits.
- **Copilot** titles (the automatic title is given by a read that a rename may
  have outdated), the model's text, and the read-only tools.
- **Materialization, imports, exports**: pure, sequential functions on rows.
- **Worker engine, sandbox, stress engine, browser side of probes**: sequential
  within a task or in separate processes; the scheduler's models keep what it can
  observe of them: an answer, a late answer, or none.
- **Accounts, OIDC, tokens, rate limits, notification delivery, metrics, tracing,
  CRUD, web**: pure I/O, stateless checks or handlers of one statement.
- **Generated code** (`*.pb.go` and gateways, more than half of the lines of the
  implementation) has no logic of its own; its messages are records here.

`PROJECT.json` gives a reason per component.
