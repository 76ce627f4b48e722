-------------------------- MODULE BackupCatalogue --------------------------
(* The backups of one server end to end: the requests that ask for them, the  *)
(* operation and the job of each, the catalogue row, the exclusive lock, the  *)
(* agent's handler and its retention timer, over BackupStore.                 *)
(*                                                                            *)
(* The calls of the control API to its database are steps of their own: a job *)
(* may be claimed, reported or reclaimed before its operation carries its id. *)
(* The lock is reduced to who holds it, the server to whether the guard finds *)
(* it offline.                                                                *)
EXTENDS BackupStore

CONSTANTS
    Handler, Timer,  \* the two callers of the service in an agent
    Restorable,      \* bound: the backups somebody may ask to restore
    AskedAgainAfter  \* bound: how the last restore of a backup stands when
                     \* somebody asks for it again

ASSUME CatalogueAssumption ==
    Tasks = {Handler, Timer} /\ Handler # Timer /\ Restorable \subseteq Backups

Works == {"create", "restore"} \X Backups
Kind(w) == w[1]
Of(w) == w[2]
NoWork == <<"none", SomeBackup>>

VARIABLES
    request,    \* the request in the control API, by work
    operation,  \* server_operations rows
    job,        \* jobs rows
    verdict,    \* the handler that settles the operation of a job that ends
    row,        \* server_backups rows
    exclusive,  \* holder of minecraft-exclusive
    handler     \* the lease the supervisor is handling

catalogueVars == <<request, operation, job, verdict, row, exclusive, handler>>
backupVars == <<diskVars, catalogueVars>>

Request == {"none", "accept", "queue", "link", "begin", "done"}
OperationStatus == {"none", "accepted", "running", "succeeded", "failed"}
\* Where the handler of a result or of a reclaimed lease is: the lease is settled
\* and the job is to be closed, its operation to be found, then settled. "lost"
\* stays when the process died on the way: nobody does the rest.
Verdict == [at : {"none", "close", "find", "settle", "lost"},
            outcome : {"succeeded", "failed"}]
Handling == [at : {"idle", "lookUp", "lock", "serve", "complete", "boot",
                   "fail", "prune", "unlock", "report"},
             work : Works \cup {NoWork},
             outcome : {"succeeded", "failed"}]

NoVerdict == [at |-> "none", outcome |-> "failed"]
Idle == [at |-> "idle", work |-> NoWork, outcome |-> "succeeded"]

InFlight(w) == operation[w] \in {"accepted", "running"}

-----------------------------------------------------------------------------
(* The control API, or the schedule executor for it: a read, the operation,   *)
(* its job, and only then the row the agent's handler looks up.               *)

RequestBackup(b) ==
    LET w == <<"create", b>>
    IN  /\ request[w] = "none" /\ row[b] = "none"
        /\ request' = [request EXCEPT ![w] = "accept"]
        /\ UNCHANGED <<diskVars, operation, job, verdict, row, exclusive, handler>>

RequestRestore(b) ==
    LET w == <<"restore", b>>
    IN  /\ \/ request[w] = "none"
           \/ request[w] = "done" /\ operation[w] \in AskedAgainAfter
        /\ row[b] = "available"
        /\ request' = [request EXCEPT ![w] = "accept"]
        /\ UNCHANGED <<diskVars, operation, job, verdict, row, exclusive, handler>>

\* One operation may be in flight per server. It may also be one of a kind
\* this module leaves out, so any request may be refused.
AcceptOperation(w) ==
    /\ request[w] = "accept"
    /\ \/ /\ \A v \in Works : ~InFlight(v)
          /\ operation' = [operation EXCEPT ![w] = "accepted"]
          /\ request' = [request EXCEPT ![w] = "queue"]
       \/ request' = [request EXCEPT ![w] = "done"] /\ UNCHANGED operation
    /\ UNCHANGED <<diskVars, job, verdict, row, exclusive, handler>>

\* An agent may have the job from here on, and a result for it find nothing.
QueueOperation(w) ==
    /\ request[w] = "queue"
    /\ job' = [job EXCEPT ![w] = "queued"]
    /\ request' = [request EXCEPT ![w] = "link"]
    /\ UNCHANGED <<diskVars, operation, verdict, row, exclusive, handler>>

\* markRunning writes the job_id; no other handler has found the operation yet.
LinkOperation(w) ==
    /\ request[w] = "link"
    /\ operation' = [operation EXCEPT ![w] = "running"]
    /\ request' = [request EXCEPT ![w] = IF Kind(w) = "create" THEN "begin" ELSE "done"]
    /\ UNCHANGED <<diskVars, job, verdict, row, exclusive, handler>>

\* server_backups_in_flight_idx: one row per server may be creating.
BeginBackup(b) ==
    LET w == <<"create", b>>
        refused == \E c \in Backups : row[c] = "creating"
    IN  /\ request[w] = "begin"
        /\ request' = [request EXCEPT ![w] = "done"]
        /\ \/ ~refused /\ row' = [row EXCEPT ![b] = "creating"]
           \/ refused /\ UNCHANGED row
        /\ UNCHANGED <<diskVars, operation, job, verdict, exclusive, handler>>

-----------------------------------------------------------------------------
(* The handlers of backup.create and backup.restore.                          *)

Step(place) == handler' = [handler EXCEPT !.at = place]
Fail(place) == handler' = [handler EXCEPT !.at = place, !.outcome = "failed"]

ClaimJob(w) ==
    /\ handler.at = "idle" /\ job[w] = "queued"
    /\ job' = [job EXCEPT ![w] = "leased"]
    /\ handler' = [at |-> "lookUp", work |-> w, outcome |-> "succeeded"]
    /\ UNCHANGED <<diskVars, request, operation, verdict, row, exclusive>>

\* A backup must still be creating, a snapshot to restore available.
Expected(w) == IF Kind(w) = "create" THEN "creating" ELSE "available"

LookUp ==
    /\ handler.at = "lookUp"
    /\ \/ row[Of(handler.work)] = Expected(handler.work) /\ Step("lock")
       \/ row[Of(handler.work)] # Expected(handler.work) /\ Fail("report")
    /\ UNCHANGED <<diskVars, request, operation, job, verdict, row, exclusive>>

\* Mutant: a lock that is taken ends the handler without an error.
AcquireExclusiveOrLeave ==
    /\ handler.at = "lock"
    /\ \/ exclusive = "free" /\ exclusive' = "agent" /\ Step("serve")
       \/ exclusive # "free" /\ Step("report") /\ UNCHANGED exclusive
    /\ UNCHANGED <<diskVars, request, operation, job, verdict, row>>

\* A lock that is taken ends the handler; the row is left as it is.
AcquireExclusive ==
    /\ handler.at = "lock"
    /\ \/ exclusive = "free" /\ exclusive' = "agent" /\ Step("serve")
       \/ exclusive # "free" /\ Fail("report") /\ UNCHANGED exclusive
    /\ UNCHANGED <<diskVars, request, operation, job, verdict, row>>

\* The guard asks the adapter before the copy; a restore has no guard.
ServeBackup ==
    /\ handler.at = "serve" /\ Kind(handler.work) = "create"
    /\ \/ StartCreate(Handler, Of(handler.work)) /\ Step("complete")
       \/ Fail("fail") /\ UNCHANGED diskVars
    /\ UNCHANGED <<request, operation, job, verdict, row, exclusive>>

ServeRestore ==
    /\ handler.at = "serve" /\ Kind(handler.work) = "restore"
    /\ StartRestore(Handler, Of(handler.work)) /\ Step("boot")
    /\ UNCHANGED <<request, operation, job, verdict, row, exclusive>>

Answered(outcome) == task[Handler].at = "returned" /\ task[Handler].outcome = outcome

\* createBackup answered: the guard asks again whether the server is offline,
\* then the row is completed. Whatever fails on the way fails the backup.
CompleteBackup ==
    LET b == Of(handler.work)
    IN  /\ handler.at = "complete"
        /\ Forget(Handler)
        /\ \/ /\ Answered("ok") /\ row[b] = "creating"
              /\ row' = [row EXCEPT ![b] = "available"]
              /\ Step("prune")
           \/ Answered("ok") /\ Fail("fail") /\ UNCHANGED row
           \/ Answered("failed") /\ Fail("fail") /\ UNCHANGED row
        /\ UNCHANGED <<host, now, snapshot, staging, lockFile, target>>
        /\ UNCHANGED <<request, operation, job, verdict, exclusive>>

FailBackup ==
    LET b == Of(handler.work)
    IN  /\ handler.at = "fail"
        /\ row' = IF row[b] = "creating" THEN [row EXCEPT ![b] = "failed"] ELSE row
        /\ Step("unlock")
        /\ UNCHANGED <<diskVars, request, operation, job, verdict, exclusive>>

\* Retention runs after a successful backup; its failure is swallowed.
PruneAfterBackup ==
    /\ handler.at = "prune"
    /\ StartPrune(Handler) /\ Step("unlock")
    /\ UNCHANGED <<request, operation, job, verdict, row, exclusive>>

\* The restored server must come up, or the restore failed.
BootRestored ==
    /\ handler.at = "boot"
    /\ Forget(Handler)
    /\ \/ Answered("ok") /\ (Step("unlock") \/ Fail("unlock"))
       \/ Answered("failed") /\ Fail("unlock")
    /\ UNCHANGED <<host, now, snapshot, staging, lockFile, target>>
    /\ UNCHANGED <<request, operation, job, verdict, row, exclusive>>

ReleaseExclusive ==
    /\ handler.at = "unlock" /\ task[Handler].at \in {"idle", "returned"}
    /\ Forget(Handler)
    /\ exclusive' = IF exclusive = "agent" THEN "free" ELSE exclusive
    /\ Step("report")
    /\ UNCHANGED <<host, now, snapshot, staging, lockFile, target>>
    /\ UNCHANGED <<request, operation, job, verdict, row>>

\* A result is refused when the job was reclaimed meanwhile; one that is lost
\* looks like the death of the agent before it.
Report ==
    LET w == handler.work
    IN  /\ handler.at = "report"
        /\ \/ /\ job[w] = "leased" /\ verdict[w].at = "none"
              /\ verdict' = [verdict EXCEPT ![w] = [at |-> "close", outcome |-> handler.outcome]]
           \/ (job[w] # "leased" \/ verdict[w].at # "none") /\ UNCHANGED verdict
        /\ handler' = Idle
        /\ UNCHANGED <<diskVars, request, operation, job, row, exclusive>>

-----------------------------------------------------------------------------
(* The handlers of results and claims in the control API: the lease is settled *)
(* or reclaimed, then the job's operation is looked up and settled.            *)

CloseJob(w) ==
    /\ verdict[w].at = "close"
    /\ job' = [job EXCEPT ![w] = "done"]
    /\ verdict' = [verdict EXCEPT ![w].at = "find"]
    /\ UNCHANGED <<diskVars, request, operation, row, exclusive, handler>>

\* Mutant: the operation is not settled with its job.
ReclaimJobOnly(w) ==
    /\ job[w] = "leased" /\ verdict[w].at = "none"
    /\ job' = [job EXCEPT ![w] = "done"]
    /\ UNCHANGED <<diskVars, request, operation, verdict, row, exclusive, handler>>

\* A lease that expires before its result ends the job, which has one attempt;
\* the copy it was for may still be going on.
ReclaimJob(w) ==
    /\ job[w] = "leased" /\ verdict[w].at = "none"
    /\ job' = [job EXCEPT ![w] = "done"]
    /\ verdict' = [verdict EXCEPT ![w] = [at |-> "find", outcome |-> "failed"]]
    /\ UNCHANGED <<diskVars, request, operation, row, exclusive, handler>>

\* findByJobId finds a linked operation in flight, or nothing, and then the
\* verdict is dropped: an operation linked later runs for ever.
FindOperation(w) ==
    /\ verdict[w].at = "find"
    /\ verdict' = [verdict EXCEPT ![w] = IF operation[w] = "running"
                                        THEN [@ EXCEPT !.at = "settle"] ELSE NoVerdict]
    /\ UNCHANGED <<diskVars, request, operation, job, row, exclusive, handler>>

SettleOperation(w) ==
    /\ verdict[w].at = "settle"
    /\ operation' = [operation EXCEPT ![w] = verdict[w].outcome]
    /\ verdict' = [verdict EXCEPT ![w] = NoVerdict]
    /\ UNCHANGED <<diskVars, request, job, row, exclusive, handler>>

\* The control API dies, with every request and every handler in it.
ApiDies ==
    LET stopped == {w \in Works : request[w] \notin {"none", "done"}}
        lost == {w \in Works : verdict[w].at \in {"close", "find", "settle"}}
    IN  /\ Fault
        /\ stopped \cup lost # {}
        /\ request' = [w \in Works |-> IF w \in stopped THEN "done" ELSE request[w]]
        /\ verdict' = [w \in Works |-> IF w \in lost THEN [NoVerdict EXCEPT !.at = "lost"]
                                                     ELSE verdict[w]]
        /\ UNCHANGED <<now, snapshot, staging, lockFile, target, task>>
        /\ UNCHANGED <<operation, job, row, exclusive, handler>>

-----------------------------------------------------------------------------
(* What happens around the handler.                                           *)

\* pruneRetention, on a timer, takes no lock.
PruneOnTimer ==
    /\ StartPrune(Timer)
    /\ UNCHANGED catalogueVars

\* Only AcquireExclusive looks at the lock: it is enough that other work may
\* hold it then.
OtherWorkLocks ==
    /\ handler.at = "lock"
    /\ exclusive = "free" /\ exclusive' = "other"
    /\ UNCHANGED <<diskVars, request, operation, job, verdict, row, handler>>

OtherWorkEnds ==
    /\ exclusive = "other" /\ exclusive' = "free"
    /\ UNCHANGED <<diskVars, request, operation, job, verdict, row, handler>>

\* The process dies: its calls and its lease are gone, what is on the disk and
\* in the tables stays. The lock lapses before another run could take it.
AgentDies ==
    /\ Fault
    /\ handler.at # "idle" \/ task[Timer].at # "idle"
    /\ handler' = Idle
    /\ task' = [t \in Tasks |-> NoTask]
    /\ exclusive' = IF exclusive = "agent" THEN "free" ELSE exclusive
    /\ UNCHANGED <<now, snapshot, staging, lockFile, target>>
    /\ UNCHANGED <<request, operation, job, verdict, row>>

-----------------------------------------------------------------------------

\* The row of an existing snapshot may have been left behind while creating.
BackupInit ==
    /\ StoreInit
    /\ request = [w \in Works |-> IF Kind(w) = "create" /\ Of(w) \in Existing
                                THEN "done" ELSE "none"]
    /\ operation = [w \in Works |-> "none"]
    /\ job = [w \in Works |-> "none"]
    /\ verdict = [w \in Works |-> NoVerdict]
    /\ \E old \in {"available", "creating"} :
         row = [b \in Backups |-> IF b \in Existing THEN old ELSE "none"]
    /\ exclusive = "free"
    /\ handler = Idle

DiskStep(t) == ServiceStep(t) /\ UNCHANGED catalogueVars

RequestStep ==
    \/ \E w \in Works : AcceptOperation(w) \/ QueueOperation(w) \/ LinkOperation(w)
    \/ \E b \in Backups : BeginBackup(b)

SettlementStep ==
    \E w \in Works :
        CloseJob(w) \/ ReclaimJob(w) \/ FindOperation(w) \/ SettleOperation(w)

HandlerStep ==
    \/ \E w \in Works : ClaimJob(w)
    \/ LookUp \/ AcquireExclusive \/ ServeBackup \/ ServeRestore
    \/ CompleteBackup \/ FailBackup \/ PruneAfterBackup \/ BootRestored
    \/ ReleaseExclusive \/ Report

BackupNext ==
    \/ \E b \in Backups : RequestBackup(b)
    \/ \E b \in Restorable : RequestRestore(b)
    \/ RequestStep \/ SettlementStep \/ HandlerStep \/ PruneOnTimer
    \/ \E t \in Tasks : DiskStep(t)
    \/ OtherWorkLocks \/ OtherWorkEnds \/ AgentDies \/ ApiDies

BackupSpec == BackupInit /\ [][BackupNext]_backupVars

\* Requests, settlements, the handler, the timer and their calls go on while
\* their process lives, leases expire and the clock moves.
BackupFairness ==
    /\ WF_backupVars(RequestStep) /\ WF_backupVars(SettlementStep)
    /\ WF_backupVars(HandlerStep) /\ WF_backupVars(PruneOnTimer)
    /\ \A t \in Tasks : WF_backupVars(DiskStep(t))
    /\ WF_backupVars(OtherWorkEnds)

FairBackupSpec == BackupSpec /\ BackupFairness

-----------------------------------------------------------------------------
(* Properties.                                                                *)

\* Rows, jobs, files and calls have the shapes the tables and types give.
BackupTypeOK ==
    /\ host \in Host /\ now \in Nat
    /\ snapshot \in [Backups -> Snapshot]
    /\ staging \subseteq Backups /\ lockFile \subseteq Backups
    /\ target \in [Backups -> RestoreTarget]
    /\ task \in [Tasks -> Task]
    /\ request \in [Works -> Request]
    /\ operation \in [Works -> OperationStatus]
    /\ job \in [Works -> {"none", "queued", "leased", "done"}]
    /\ verdict \in [Works -> Verdict]
    /\ row \in [Backups -> {"none", "creating", "available", "failed", "pruned"}]
    /\ exclusive \in {"free", "agent", "other"}
    /\ handler \in Handling

LockHolding == {"check", "copy", "promote", "discard", "unlock", "remove", "pruneUnlock"}
LeftBehind(b) ==
    b \in lockFile /\ \A t \in Tasks : ~(task[t].backup = b /\ task[t].at \in LockHolding)

\* A backup operation reported as succeeded left an available row, and a
\* restore operation a restored directory, whatever was reclaimed or died.
SuccessLeavesResult ==
    \A b \in Backups :
        /\ operation[<<"create", b>>] = "succeeded" => row[b] = "available"
        /\ operation[<<"restore", b>>] = "succeeded" => target[b].done

\* The whole snapshots newer than that of b.
Newer(b) == {c \in Backups : Intact(c) /\ snapshot[c].createdAt > snapshot[b].createdAt}

\* Retention keeps what its policy promises, although two prunings with
\* listings of different age may run at once and a listing may count what is
\* being removed: removing starts only while KeepLatest newer snapshots are
\* whole.
LatestSurvive ==
    [][\A b \in Backups :
          snapshot[b].state = "stored" /\ snapshot'[b].state = "removing" =>
              Cardinality(Newer(b)) >= KeepLatest]_backupVars

\* The repository never holds more whole snapshots than the quota allows, although
\* the count is taken before the copy.
WithinQuota ==
    Cardinality({b \in Backups : Intact(b)}) <= host.quota

\* The works somebody may ask for.
Asked == {<<"create", b>> : b \in Backups \ Existing} \cup {<<"restore", b>> : b \in Restorable}

\* An operation that carries the id of its job while that is unfinished, or
\* while its verdict is on the way.
HasWork(w) ==
    /\ operation[w] = "running"
    /\ \/ job[w] \in {"queued", "leased"} /\ verdict[w].at = "none"
       \/ verdict[w].at \in {"close", "find", "settle"}

\* Such an operation is decided, even if the agent dies, unless the control API
\* dies with the verdict. One linked after its verdict found nothing is not.
BackupOperationEnds ==
    \A w \in Asked :
        HasWork(w) ~> operation[w] \in {"succeeded", "failed"} \/ verdict[w].at = "lost"

\* A snapshot retention does not keep is removed in the end, although two
\* prunings get in each other's way, unless a lock file was left behind.
ExpiredIsRemoved ==
    \A b \in Backups :
        b \in Expired({c \in Backups : Intact(c)}, now)
            ~> (~Intact(b) \/ \E c \in Backups : LeftBehind(c))

=============================================================================
