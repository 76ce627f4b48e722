# Verification of the VoidFall platform

TLA+ models of the coordination core of `src/Plataforma`, the TypeScript monorepo that
runs a modded Minecraft server: a control API with a PostgreSQL database, agents that
run on the server machines and only ever call out, and build workers.

## 1. Inventory

| Component | State it keeps | Operations | Hard behaviour | What makes it correct |
|---|---|---|---|---|
| Work queue and leases (`packages/database`: `repositories.ts`, `agent-transport-repositories.ts`) | rows of `jobs` and `agent_work_leases` | enqueue, claimWork, settleLease, complete, fail, reclaimExpiredLeases, lease (workers) | two tables kept in step by separate transactions; late results; expired leases; API crash | an open lease is the authority over its job; a verdict belongs to the last attempt; work always comes back |
| Operation dispatch (`operational-repositories.ts`, `process-routes.ts`, `agent-work-routes.ts`) | `server_operations`, `server_process_states`, handlers in progress | accept, enqueue, markRunning, claim, result, settle, observe | a request of three transactions against a result of four; replay; versions | at most one operation in flight per server, decided once and with its job's verdict |
| Event outbox (`operational-repositories.ts`) | `outbox_events` | claimPending, markPublished | at-least-once delivery | no committed change loses its event |
| Agent identity (`agent-transport-repositories.ts`) | credentials, grants, nonces | rotate, revoke, grant, authenticate | use after revocation, replay | a revoked or rotated credential never authenticates |
| Agent supervisor (`apps/server-agent/src/supervisor.ts`, `work-transport.ts`) | claimed leases, backoff | claim, handle, report | a batch handled serially under leases that run together; lost and late requests and answers; a death at any step | what is recorded was done; no attempt is worked twice, no job beyond its attempts |
| Exclusive lock and offline guard (`configuration-repositories.ts`, `offline-guards.ts`, the job handlers of `server-agent`, `local-configuration.ts`) | row of `operational_locks`, handlers in progress | acquire, release, check, re-check, work | leases that lapse under the work, owners that come back, an adapter that knows only its own child | one operation on a server's files or process at a time, and none on files of a running server |
| Process controller (`packages/minecraft-process`) | lifecycle state, child handle, PID, console | start, stop, restart, force-kill, inspect | exits during start, timeouts, orphaned processes | never two processes of one server |
| Process ownership (`process-ownership.ts`, `process-ownership-repositories.ts`) | durable owner row | acquire, release, reconcile | agent restart while the JVM lives | a live foreign process is never adopted or killed |
| Schedules (`scheduler-loop.ts`, `schedule-executor.ts`, `schedule-repositories.ts`) | `server_schedules`, `schedule_runs`, a pass in memory, the operations of the steps | list due, skip, claim, advance, execute a step, settle, switch | several loops on one run, take-over by lease, a clock read once per pass, a switch while a run settles | no run ends twice, no step runs out of order, a success did every step |
| Backups (`packages/server-backup`, `backup-operation.ts`, `backup-repositories.ts`) | snapshots, staging and lock files on disk, `server_backups`, a handler in progress | create, restore, prune | a lease that lapses under the copy, two prunings at once, faults that leave half a snapshot or a lock file behind | a reported success left its result, the quota holds, retention keeps the latest |
| Configuration (`server-configuration`, `configuration-repositories.ts`) | application state and revision rows, the file, the revision repository beside it | accept, prepare, publish, replace, verify, recover, record | a crash or a fault between replacement and record, two agents, a lock that lapses | recorded content is never lost, every applied change can be undone |
| Artifact review (`artifact-quarantine`, `artifact-review-repositories.ts`) | submissions, review states | upload, inspect, decide, install | decisions on stale revisions | nothing unreviewed is installed |
| Authorized files (`authorized-files`) | file revisions, pending edits | propose, write, revert | lost updates | writes only over the revision that was read |
| Audit chain (`audit-chain`) | hash chain | append, verify | truncation, reordering | any change is detected |
| Launcher planner, release builder, local process lock | pure / files | plan, publish, lock | stale locks | plan reaches the manifest |

Components interact through the database only: a route and a repository call share one
transaction, two calls do not. The agent and the worker share the `jobs` table; the
panel and the agent meet in `server_operations`, linked to `jobs` by `job_id`.

Not modelled: parsers and analysers (`ecosystem-analysis`, `artifact-inspection`,
`artifact-compatibility`, `mod-catalog`), the web panel, desktop shell and launcher API
(presentation), and everything outside `Plataforma` (mod configuration data, scripts).

## 2. Modules

| Module | Models | Kind |
|---|---|---|
| `WorkQueue` | `JobRepository`, `AgentTransportRepository`, the two transactions of a result | component |
| `AgentSupervisor` | the cycle of `AgentSupervisor.runOnce` over `AgentWorkTransport` and the two routes it calls | composition, extends `WorkQueue` |
| `OperationDispatch` | panel request, claim route, result route, `OperationRepository`, observation | composition, extends `WorkQueue` |
| `OperationLedger` | what a server operation promises the panel | abstract specification |
| `ProcessOwnership` | `ManagedMinecraftProcessAdapter`, `DurableProcessOwnershipCoordinator`, its repository, the state watch of the agent, the JVM | composition |
| `JvmFence` | what the durable owner row promises: one JVM at a time | abstract specification |
| `ExclusiveWindow` | the durable `minecraft-exclusive` lock, the handlers that run under it, the offline guard, the waits of `MinecraftProcessController` | composition |
| `ScheduleRunner` | `SchedulerLoop`, the step executor, `ScheduleRepository`, the request that switches a schedule | composition |
| `BackupStore` | `FilesystemBackupService`: the calls of several callers on one repository directory | component |
| `BackupCatalogue` | requests, operation, job, catalogue row, lock, handlers and retention timer of the backups of one server | composition, extends `BackupStore` |
| `ConfigurationApply` | `PersistentConfigurationService` over `FilesystemConfigurationService` and the configuration repositories | composition |
| `MaintenancePlan` | what a schedule promises: steps are handed over once, in order and one at a time, an occurrence is decided once, a success did every step | abstract specification |
| `ReversibleChange` | what a configuration change promises: one change at a time, nothing written before the content it replaces is put aside, nothing recorded but what the file holds | abstract specification |
| `WorkQueueProofs`, `AgentSupervisorProofs`, `OperationDispatchProofs`, `ProcessOwnershipProofs`, `ExclusiveWindowProofs`, `ScheduleRunnerProofs`, `BackupCatalogueProofs`, `ConfigurationApplyProofs` | inductive invariants and theorems | proofs |
| `MCAgentSupervisor`, `MCOperationDispatch`, `MCProcessOwnership`, `MCExclusiveWindow`, `MCScheduleRunner`, `MCBackupCatalogue`, `MCConfigurationApply` | instances for TLC | model checking |

### How code and model correspond

* One action is one database transaction. A handler that awaits several of them is several
  actions; what it still holds in memory is a variable (`reports`, `polls`, `receipts`,
  `requests`) which `CrashApi` / `Crash` empties.
* A handler reads the clock once, at its start, and uses that value in all its
  transactions: every queue action takes `t \in 0 .. now`.
* A lease is addressed by job and attempt (the code uses a UUID); a lease row is in state
  `none` until claimWork inserts it, and `expired` is the outcome `failed` with code
  `lease-expired`.
* Which candidate rows a claim takes (priority, age, `SKIP LOCKED`) is any choice within the
  limit. A reclaim takes every lease that has expired at its clock; that it skips one which another
  transaction has locked at that moment, and leaves it to a later poll, is not modelled. Grants, job types and resources are the constant relation `Serves`.
* `Deadline` is `timeoutSeconds` of the job; `LeaseExpiryFor` computes as `leaseExpiryFor`.
* An operation has the name of its job; a server has the name of its agent, because
  `agents.server_instance_id` is unique.
* A refused update (a version that moved, a lease that is settled) changes nothing. Where
  the refusal throws, the model drops the rest of the handler.

`AgentSupervisor` adds the agents' side of the queue:

* A *supervisor* is a record of where its one cycle waits and of the leases of its batch that
  it has still to work or report. The order of a batch is that of an `UPDATE ... RETURNING`: any.
* A handler is two steps, its begin and its end; `begun` and `done` remember, per lease, how many
  handlers began and what they came to. They survive the supervisor, as their effects do.
* A request may reach its route or not, while its supervisor waits (`Claim`, `ReportResult`), or
  after it gave up or died (`LateClaim`, `LateResult`); `ResultLost` is a result that is refused or
  not heard of. A refused or lost result is never sent again, as in `runOnce`.
* `Poll` is the reclaim with which the claim route begins, `Answered` the answer of the result route
  after `CloseJob`, or the error of an API that died between.
* Left out: envelopes, nonces and credentials, the lengths of backoff and idle waits.

`ProcessOwnership` is about one server instance, and cuts the code finer:

* A *boot* is one run of the agent process. In it two fibers run between awaits: the
  exclusive effect (`#runExclusiveEffect`: a start or a graceful stop) and the state watch
  (`observeProcessState` after `reconcileOrphanProcessStates`). One action is the answer of
  one awaited call together with the code that runs until the next await. A fiber is a
  record of where it waits; a call may also fail, or have taken effect with its answer lost
  (`reply`).
* A *generation* is one reservation: its `ownershipId`, the JVM spawned under it and that
  JVM's PID are the same number; with `PidReuse` the probe may find another process under
  a dead generation's PID. The probe (`kill(pid, 0)`) answers for the one host that
  the agents of a server share.
* `reserve`, `attachPid`, `markOrphaned` and `release` of the repository are single statements
  guarded by the row they match (`WHERE ownership_id = ...`), as in the code.
* Ticks of the watch of one boot do not overlap: a tick is taken to be shorter than its
  interval of a minute, which `runtime.ts` does not enforce. Two boots may be up at once
  (`Overlap`).
* Left out: the console command channel, the force-kill request, and everything the adapter
  logs. What the watch publishes is kept only as far as state and PID (`published`).

`ExclusiveWindow` is about one server instance too, and takes the launch as a whole:

* A *window* is one operation from its request for the lock to its release: a job in the
  handler of a run of the agent (`start`, `stop`, `restart`, `restore`, `backup`, `command`
  under the agent's id; `apply`, `observe`, `install` under an id of their own) or a
  configuration read of the panel. A run handles one job at a time (`supervisor.ts`), so it
  has one window. One action is the answer of one awaited call.
* The lock is taken with the clock read when the operation began (`begun`), as `acquiredAt`
  is in every handler; `ends` is the `lease_expires_at` it asked for. `acquire` and `release`
  are the upsert and the delete of `OperationalLockRepository`; either may fail, or have
  been committed with its answer lost (`Faults`).
* `OwnsLock` is the `ownsLock` each caller hands to the guard: by owner for a backup, by
  operation name for a configuration, by both for a datapack observation. The installation
  has its own two inspections and no guard.
* Server operations (all but `apply` and `observe`, whose jobs are enqueued without one)
  are in flight one at a time, until their job's lease is reclaimed (`taken`, `WorkTerm`).
* A run may crash with its JVM alive, may be replaced by the fleet in the same process
  (`Replaced`: its adapter and JVM stay), and comes back as the next run with a new adapter.
  The row of `ProcessOwnership` appears as the guard of `Launch`.
* Left out: what the files hold, the idempotency memory of the controller and its
  `controller-busy` refusal (one job at a time never meets them), force-kill.

`ScheduleRunner` is about one schedule:

* A *pass* is one call of `runOnce`: a record of where it waits and of what it read. It reads the
  clock once (`pass.now`) and uses that reading for everything but the lease renewals and the
  final settlement, as the code does. One action is one awaited repository call.
* A run is identified by its occurrence, because `(schedule_id, scheduled_for)` is unique and a
  take-over keeps the `run_id`; so the idempotency key of a step is its occurrence and position.
* `advance`, `settle` and `claimOccurrence` are guarded by the row they match. A settle that is refused throws,
  and the loop swallows it: `TrySettle` changes nothing then.
* Another operation may be in flight on the server: every `AcceptStep` may be refused.
* `QueueStep` enqueues the job and links the operation in one step. A job reported in between leaves its operation running
  for ever, as in finding 1; the model has such operations too, because nothing forces an operation to end.
* Left out: calendar arithmetic (the instants of the trigger are the constant `Occurrences`) and
  `releaseHeldRuns` at shutdown: its callers reach it when the pass has ended and no run is held.

`BackupStore` and `BackupCatalogue` are about the backups of one server:

* A *task* is a caller of the service: the handler of the agent, or its retention timer. A
  task has one call in progress, a record of where it waits; one action is one awaited
  file-system operation that another call can observe.
* A snapshot is `stored`, `removing` (`rm` works file by file and may stop half way: a listing may or
  may not still see it) or `absent`. What it holds is abstracted to whether all of it is there.
* The clock moves as copies are made, so that two snapshots taken in turn differ in `createdAt`. `selectExpiredBackups`
  is `Expired`; a listing is any set between the whole snapshots and all that is on the disk.
* A *work* is a backup or restore of one id. Its request accepts the operation (`AcceptOperation`), enqueues the job
  (`QueueOperation`), links the two (`LinkOperation`, `markRunning`), and for a backup writes the row (`BeginBackup`): each
  is a transaction, and the job may be claimed and reported before the last two, as in `backup-routes.ts`.
* A *verdict* is the handler of a result, or of a claim that reclaimed a lease, in the control API. `Report` settles the
  lease and `CloseJob` the job; `ReclaimJob` does both at once, when the lease lapses while its handler goes on, and
  `Report` is refused then. Both go on to `FindOperation`, which finds the operation only if it carries the id
  of the job, and drops the verdict otherwise; `SettleOperation` decides what was found.
* `ApiDies` ends every request and every verdict on its way; such a verdict is `lost`, and nobody says it again. A result
  that does not reach the API looks like an agent that died before it.
* The exclusive lock is looked at by `AcquireExclusive` alone, so others take it only then (`OtherWorkLocks`).
* A restore may be asked for again when the last one failed or was refused (`AskedAgainAfter`). A request that is repeated
  with its idempotency key and replays the operation is left out.
* Left out: restore verification, manifests and seals beyond whether a payload verifies, encryption,
  `markPruned` (it has no caller).

`ConfigurationApply` is about one registered resource:

* A *request* is one accepted change, an update or a rollback to an earlier applied revision; a
  *worker* is an agent, with one call of `#execute` in progress. A call is a record of its stage;
  one action is one awaited call of the repository, the guard or the file system.
* A content stands for its SHA-256: equal contents are equal hashes.
* `disk.published` is the revision directory, with the content before and the content intended; staging
  directories, temporary siblings and the lock file are what a crash leaves behind.
* The lock's lease runs out after its owner is gone, or under a working call as one of the faults
  (`LockLapses`); the start of the server goes through the same lock.
* That `prepare`, `markApplied` or `markFailed` commits and its answer is lost is not modelled. A `prepare` of this kind
  would be one more exception of `PreparedIsDecided`.
* Left out: the formats of documents and manifest, registration, reads and history, and the
  staging of whole configuration sets.

## 3. Runs

| Run | Question | Result |
|---|---|---|
| `queue_safety` | do the two tables stay in step, and was what they record done, once per attempt, with late clocks, reclaims, workers, lost and late requests, and supervisors and an API that die? | holds |
| `dispatch_safety` | do request, claim and result implement the ledger, with crashes? | holds |
| `dispatch_live` | while the API lives, is no job stranded, does leased work come back, and is a linked operation decided even if its agent is silent? | holds |
| `dispatch_orphan` | is an operation decided when its job is quicker than the request? | violated (finding 1) |
| `ownership_faults` | is there never a second JVM when agents crash, calls fail or lose their answer, and PIDs are reused? | holds |
| `ownership_live` | does the row of a dead JVM leave, and does every effect end? | holds |
| `window_safety` | does one operation hold the lock at a time, and is no JVM held under file work, when leases lapse, calls fail and runs die? | holds |
| `window_live` | does every operation end? | holds |
| `window_orphan` | is the server offline while files are worked on? | violated (finding 2) |
| `schedule_runs` | with two loops that may die and a schedule that is switched, is every due occurrence settled once, in order, and truthfully, as `MaintenancePlan` promises? | holds |
| `backup_end` | with a lease that lapses, two prunings and a fault anywhere, do verdicts match the files, are linked operations decided, does the quota hold, and are the latest snapshots kept and the expired ones removed? | holds |
| `configuration_changes` | with two agents and two faults, is recorded content never lost, every applied change undoable, every prepared one decided, and `ReversibleChange` implemented? | holds |

Bounds. `MaxTime` bounds the clock and every lease end (2 to 4 with leases of 1 to 2 units:
a lease can expire, be retried and expire again). Two jobs, one with two attempts and one
with a single attempt and a deadline, cover requeue and exhaustion; two agents and a worker
cover takeover by somebody else. Two operations of one server cover the exclusion; a second
agent covers a reclaim by somebody else's poll. Operations have one attempt, as every route
enqueues them. Two boots cover a restart with the JVM alive and an agent that meets another
one; two generations cover a dead owner replaced by a new one. That two agents
of one server are up at once (`Overlap`) is covered by the proofs, which hold for either
value; the runs leave it out.

In `ExclusiveWindow` a unit of time is 300 seconds. `window_safety` has two runs, one after the other, a panel read and
three ids: enough for a holder, a taker and a row left by a third. There the launching
operations have leases that outlast the clock (`PatientTerms`), which is the premise of
`NoJvmUnderLease`, and all others lapse after one unit; `window_live` has every kind of
job and the leases of the code (`CodeTerms`).

`schedule_runs` has two loops, three instants of which the first two have passed when the loops
start (so that one is skipped and one is run late), two steps, leases of one unit, and one event:
a loop that dies or a request that switches the schedule. `backup_end` has two ids, one of
them a snapshot of before, retention of one snapshot with no minimum age, a quota of one or
two, and one fault anywhere, which may be a failing call, the death of the agent or that of the control API; a restore of
the old snapshot may be asked for again, but not after it succeeded; two tasks overlap all the same. `configuration_changes` has two requests (so
that one may roll back the other, or be accepted against the same version), two agents, three
contents (before, one, other), any two faults, of which a crash is one, and one start of the server.
What these bounds leave open the proofs cover, which hold for every value of the constants.

Fairness. The handlers of a live API run on, time passes, and agents keep polling
(`supervisor.ts` polls for ever with a bounded backoff); the reclaim runs on that poll. No
agent is assumed to report, no request to arrive, no job to be claimed. In
`ProcessOwnership` an awaited call answers or fails, the timers of a live agent fire, the
exit of a child reaches the agent that holds it, and the service manager starts the agent
again. In `ExclusiveWindow` every awaited call of a live operation is answered and the sleeps
of the controller end. In `ScheduleRunner` every loop keeps running
its passes (`SchedulerLoop.run` repeats for ever; a pass catches what it throws) and time passes, up to the end of the last lease. In
`BackupCatalogue` requests, the handlers of results and reclaims, the agent's handler, its calls and the retention timer go on while their process lives, and leases expire. In
`ConfigurationApply` every awaited call of a live agent is answered, and a queued job is taken.
Nothing forces a request to come, a JVM to boot or exit, or an agent to crash; fault
branches carry no fairness of their own.

## 4. Findings

1. `dispatch_orphan`: `acceptAndQueue` makes the job claimable before it writes `job_id` on the operation; a
   result in that window leaves the operation `running` for ever and the server locked, while
   `agent-work-routes.ts:335` says that the operation of a finished job is settled. Backups and the steps of schedules make
   the same two calls (`backup-routes.ts:206` and `:207`); a backup whose handler finds no row yet fails at once and
   makes the window easy to meet. `BackupOperationEnds` is about operations linked before their verdict looks for them.
2. `window_orphan`: the offline guard asks the adapter of the current run. After a crash that leaves the JVM
   alive the next run's adapter says `offline`, the guard passes, and a world is copied or a
   file rewritten under a running server; `offline-guards.ts:17` calls it proof that the server
   was offline and stayed so.

Read in the code while modelling and not stated as runs:

* A crash of the control API between `settleLease` and `complete`/`fail` leaves the job
  `running` with no lease to reclaim, against `docs/plataforma/PHASE_9_AGENT_TRANSPORT.md:27`
  (`NeverStranded` is checked and proved for an API that does not die there).
* A crash between the end of a job and the settlement of its operation leaves the operation `running` in the same
  way (the exception of `BackupOperationEnds`).
* The observation of a finished operation may be published after the next process control
  withdrew the snapshot, and makes the old state current again.
* The same new adapter as in finding 2 makes `AgentRuntime.start` publish `offline` right after it
  withdrew the snapshot of an orphaned owner; `requireStillOffline` looks at the server and not
  at the lock again; `acquire` admits a row of the same owner, so two live processes of one agent
  id share the lock once the lease of a job has lapsed; the configuration guard accepts
  any holder named `configuration.*` (`runtime.ts:239`).
* A backup's row may stay `creating`: its job is claimable before the row exists
  (`backup-routes.ts:265` and `:277`), or the lock is taken (`backup-operation.ts:192`). The next
  backup of the server then finds a row in flight; `backup-repositories.ts:13` describes such a row as one being taken.
* Retention may remove a snapshot that a restore is reading: restore locks its target,
  not the snapshot (`service.ts:775`). The restore then fails; it never reports success for less than
  the whole.
* A lock file left behind by a crash stops retention at that snapshot on every later run
  (the exception of `ExpiredIsRemoved`).
* What a removal that stopped half way leaves on the disk counts against the quota only while its manifest is still there;
  `WithinQuota` counts whole snapshots and says nothing of it.
* `scheduler-loop.ts:15` and `docs/plataforma/PHASE_10_TELEMETRY_SCHEDULES.md:70` say that missed occurrences are recorded
  as skipped and never executed. The loop skips all of them but the newest, which it executes (lines 182 to 187); so does the
  model, and `MaintenancePlan` leaves open which occurrences run.
* A pass that finds more than eight missed instants runs the newest of the first eight, which is
  older than the newest one (`scheduler-loop.ts:174` and `:187`).
* `releaseHeldRuns` never has a run to release: every caller reaches it after the loop's last pass has ended,
  although `scheduler-loop.ts:302` says it lets a restart resume in seconds.
* A lease that waits behind others of its batch runs out while they are worked: `leaseExpiryFor` counts from
  the claim, so "the lease has to outlive the work it authorises" (`agent-transport-repositories.ts`) holds of the first lease
  only. `UnreportedIsMine` says what holds: such a lease lapsed, its work is refused, and another attempt pays for it.
* A fresh boot id does not return the work of an earlier run to the queue; only expiry does.
* A guard that fails after the replacement leaves the new content in the file and the change recorded
  as failed, while `docs/plataforma/PHASE_7_CONFIGURATION_PERSISTENCE.md:42` says that a guard
  failure preserves the file. `RecordedContentIsKept` says what does hold: the recorded content is then
  in the published revision. After a crash a prepared revision and its lock file stay
  (lines 48 and 49 of that document), so that no later change is prepared until somebody intervenes.

## 5. Proofs

`WorkQueueProofs` proves, for any sets of jobs, agents and workers, any attempt limits and
any lease arithmetic, that `QueueInv` is inductive, and from it `QueueTypeOK`,
`LeaseBacksJob`, `ReportStillOwnsJob`, `ClaimNeverBlocked`, `VerdictFromLastLease` and
`FinishedIsFinal`. The assumptions are those of `ConstantsAssumption`: agents and workers are
distinct, and a job's attempts fit the lease table (`AttemptLimit`).

The invariants alone are not inductive. `ReportStillOwnsJob` needs that only an open lease
can take a job from an agent (`LeaseBacksJob`), which needs that a queued job has no open
lease (`ClaimNeverBlocked`), which needs that leases exist for counted attempts only
(`JobRowsConsistent`). `VerdictFromLastLease` needs in addition that an attempt run by a
build worker has no lease row (`WorkerHoldsNoLease`). There is one lemma per transaction, and
in it one step per conjunct.

`AgentSupervisorProofs` adds the supervisors: `SupervisorInv` is `QueueInv` and what they hold in memory
(`SupervisorHolds`: the leases of a batch were written for this agent, and the ones not yet worked had no handler),
that handlers began only under leases that were written (`BegunUnderLease`) and that settled leases carry
what their handler came to (`SettledWasDone`). A lease names its agent for ever, so no two batches share
one (`BatchesApart`), and a step of one supervisor leaves what the others remember true
(`MemoryKept`). With the attempt counter of `QueueInv` this gives `WorkedWithinBudget`, with
`VerdictFromLastLease` it gives `VerdictIsPerformed`; and `SupervisorSpec` implements `QueueSpec`
(`SupervisorRunsOnQueue`), so that the theorems about the queue hold of what the run `queue_safety` checks.

`ProcessOwnershipProofs` proves, for any set of boots, any number of generations, any
`Attempts`, with and without crashes, faults, overlap and reuse of PIDs
(`OwnershipAssumption`), that
`OwnershipInv` is inductive, and from it `OwnershipTypeOK`, `NoSecondJvm`,
`PublishedPidIsDurable`, and that the specification implements `JvmFence`.

`NoSecondJvm` is one conjunct of an invariant about what every fiber remembers: a fiber that
is about to delete a row remembers a generation that is *spent* (its JVM is dead or was
never spawned, and nobody is about to spawn it), and a fiber that is about to attach a PID
remembers a generation whose JVM is dead or whose row is still its own (*recorded*). Both
facts are stable under every step of every other fiber, which is what makes the proof
modular: `Gentle` steps, which touch neither row nor JVM, preserve them at once
(`Move`, `Carry`); reserve, spawn, attach and delete have a lemma each. The refinement maps
`Reserve` to `OwnershipReserved`, `Launch` to `ProcessSpawned`, `Exit` to `JvmExits`, and
`Vacate` to the deletes of a spent generation's row; all else stutters.

`ExclusiveWindowProofs` proves, for any sets of runs, readers and ids, any leases, crashes and
faults (`WindowAssumption`), under the premise that two runs are not up at once (`~Overlap`: the
lock admits a row of the same agent id, so it cannot part two runs of one agent), that `WindowInv` is inductive, and from it `WindowTypeOK`,
`WindowsExclude` and `NoJvmUnderLease`. `WindowsExclude` follows from `RowBacksWindow` (while a
lease runs, the row is the one its operation wrote) and from the fact that no two open
windows have one owner; the two need each other, because a release deletes by owner and
an acquire admits its own owner. `NoJvmUnderLease` needs in addition that an adapter which
holds a JVM and says `offline` is in the middle of a launch (`AdapterSound`), and that a launch
holds the lock all along (`LauncherHolds`). `MovePreserves` treats every step inside a lease,
`EdgePreserves` every step that opens or closes one, `BackgroundPreserves` every other; there
is one lemma per action, which shows that it is such a step.

Without the premise `~Overlap`, `WindowsExclude` is false: the first of two runs to finish deletes the row that both
entered under. Its last section proves what is left (`FreshInv`, inductive for either value of `Overlap`): operations that
lock under an id of their own (`apply`, `observe`, `install`, the panel's read) never hold the lock together
(`FreshWindowsApart`), and no run of the agent takes over or deletes the row of one while its lease
runs (`FreshRowsKept`), because nobody else ever acquires or releases under that id.

`OperationDispatchProofs` proves the properties of the handlers on top of it. `DispatchInv` is
`QueueInv` and eight facts: types; `SettledIsLast` (a settled lease is the job's last); `OperationHolds`
(a job exists only under an accepted operation, a linked operation is running or decided, a decided
one carries the verdict of its finished job); and for each kind of handler what it remembers
(`ReceiptHolds`, `PollHolds`, `OneHandlerPerVerdict`). The argument is that every handler speaks
for a job that is finished, that a finished job and its leases are never written again (`FinishedStays`), and that
one verdict has one handler. From it follow the safety properties of `dispatch_safety`, and two refinements:
`DispatchSpec` implements `QueueSpec`, so every theorem about the queue holds under the handlers too
(`DispatchRunsOnQueue`), and it implements `OperationLedger`, where accepting a request maps to
`Open`, the transaction that links and starts an operation to `Perform`, and the settlement by
result or by poll to `Decide` (`DispatchImplementsLedger`). `NeverStranded` is proved in both modules
under `~ApiMayCrash`, the case in which the runs check it.

`ScheduleRunnerProofs` proves, for any finite set of loops and occurrences, any list of steps, any
lease and any number of events, that `ScheduleInv` is inductive. A loop that waits at a step knows that all earlier steps
succeeded (`EarlierStepsDone`), that it accepted the operation it is about to enqueue
(`AcceptedIsMine`), and the verdict it is about to write (`VerdictIsTrue`); none of it is
undone by another loop, because the operation of a step is keyed by occurrence and position and
decided once. With `LoopsApart` (two loops wait for the write of one step in the places that the key
allows) this gives `StepsInOrder` and `SuccessIsEarned`, and the action properties by the guards of the rows.
From the same invariant the specification implements `MaintenancePlan` (`ScheduleImplementsPlan`): the acceptance of a
step's operation is `HandOver`, the end of the operation is `Finish`, the write of a verdict and a skip are `Decide`,
and claims, take-overs, renewals, queueing, refused writes and deaths stutter.

`BackupCatalogueProofs` proves, for any backups, quota, retention and faults, that `BackupInv` is
inductive. Three arguments carry it. A backup marked for removal, or already being removed, is *outlived*: as many
newer snapshots as retention keeps have been completed, which only grows, since a date is taken when the copy is
complete and lies after all others (`DatesPast`, `RemovedIsOutlived`); so the `KeepLatest` latest survive
(`LatestSurvive`), whatever two prunings remember and although a listing may count a snapshot that is being removed:
what is removed is older than all that is kept, so it adds nothing to the count of newer ones. The room that a copy needs was counted under the lock of the repository,
and every other call that writes waits for that lock (`RoomIsKept`, `WithinQuota`). And a handler that
waits for the service is the only caller of that creation or restore (`CreatorIsHandler`, `AskedOnce`,
`AwaitedIsUntouched`), so what it then reports is what was done (`SuccessLeavesResult`, `RestoreAnswer`); a verdict
on its way carries that report, and closes a job that nobody else can take (`VerdictInv`). From the same invariant no step takes the
job or the verdict from a linked operation without deciding it, but the death of the API
(`LinkedOperationsKeepWork`).

`ConfigurationApplyProofs` proves, for any requests, workers, contents and faults, that
`ConfigurationInv` is inductive: a working call is the resource's one pending change (`CallIsPending`), at
most one call works (`CallsApart`), and each stage of the call says what file, revision
directory and row hold (`CallFollowsFile`). `RecordedContentIsKept` and `AppliedCanBeUndone` need that the revision
rows follow the applied changes (`RevisionsFollowJobs`). The specification implements `ReversibleChange`
(`ConfigurationImplementsReversibleChange`): acceptance, publication, replacement, the write back, the record and the recorded
failure map to `Begin`, `Keep`, `Write`, `TakeBack`, `Record` and `GiveUp`. This needs more than `ConfigurationInv`
(`KeptByCalls`): until its call publishes, a change has no revision directory, so that what was put aside is never
overwritten, and what a call publishes differs from what it replaces. `PreparedInHand` is a second extension: a call that
reaches its release with the row still `prepared` knows that the decision was refused, and its job ends as `unrecorded`.

Only model-checked:

* Liveness (`LeasedWorkComesBack`, `LinkedOperationSettles`, `DeadOwnerLeaves`, `EffectsFinish`, `WindowsEnd`,
  `DueIsHandled`, `BackupOperationEnds`, `ExpiredIsRemoved`, `PreparedIsDecided`): the prover has
  no rule for fairness and none for `ENABLED`. Of some, the half that is safety is proved: what has a job, a
  verdict or a call that moves it keeps one (`LinkedOperationsKeepWork`, `PreparedNeverForgotten`), and what moves only goes
  forward, in a bounded number of steps (`CallsAlwaysAdvance`, `OperationsAlwaysAdvance`). What is left to TLC is that
  the next step can be taken, and that fairness takes it.
* The properties that do not hold.
* What recursive definitions compute for every input: the installed provers cannot instantiate
  the induction theorems. No module here declares a `RECURSIVE` operator.

`SupervisorTypeOK` (which holds `QueueTypeOK`), `OwnershipTypeOK`, `DispatchTypeOK`, `WindowTypeOK`, `ScheduleTypeOK` and
`ConfigurationTypeOK` are established by proof alone: no run lists them.

## 6. Plan

Done: the queue and its supervisors, the dispatch of operations, process ownership, the exclusive lock, schedules,
backups and the application of a configuration, each with its safety proved, and four refinements of an abstract
specification. Proofs still to add: the forward movement of the passes of `ScheduleRunner`, the effects of `ProcessOwnership`
and the handler of `BackupCatalogue`, as for calls and windows. Then, in this order:

1. A crash study of `OperationDispatch`: a request that dies between accept and enqueue and is
   sent again, a claim that dies between the reclaim and the settlements; then the same request in `BackupCatalogue`.
2. `AgentIdentity`: credential rotation, grants, nonces. `Outbox`: at-least-once delivery.
3. `ArtifactReview` and `AuthorizedFiles`: decisions and writes over the revision that was read.
4. `LocalProcessLock`: the lock file of the control API, with stale owners.
5. Pure algorithms, as recursive functions against reference definitions: `AuditChain`,
   `LauncherPlan`, the calendar arithmetic of the triggers.
6. Controller idempotency (remembered results, `controller-busy`) and the adapter's `error`
   state, from which only a new run of the agent recovers.
