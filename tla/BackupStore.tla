---------------------------- MODULE BackupStore ----------------------------
(* The backup repository of an agent's host: the snapshot and staging         *)
(* directories, the lock files beside them, the directories restores are      *)
(* promoted to, and the calls of FilesystemBackupService that work on them.   *)
(*                                                                            *)
(* A task is one caller of the service; it has one call in progress. A step   *)
(* is one awaited file-system operation that another call can observe. What a *)
(* snapshot holds is abstracted to whether all of it is there.                *)
EXTENDS Naturals, FiniteSetsExt

CONSTANTS
    Backups,      \* backup ids
    Existing,     \* those taken long ago
    Tasks,        \* callers of the service
    KeepLatest, MaximumAge,  \* the retention policy
    MaxFaults,               \* bound: the faults of a behaviour
    Quotas                   \* the values maximumBackups may be configured with

ASSUME StoreAssumption ==
    /\ IsFiniteSet(Backups) /\ Backups # {}
    /\ Existing \subseteq Backups /\ Cardinality(Existing) <= 1
    /\ KeepLatest \in Nat \ {0} /\ MaximumAge \in Nat
    /\ MaxFaults \in Nat /\ Quotas \subseteq Nat \ {0}

VARIABLES
    host,      \* its quota, and the faults that may still happen
    now,       \* the clock of the host, which moves as copies are made
    snapshot,  \* snapshots/<id>
    staging,   \* ids with a staging/<id>.partial
    lockFile,  \* ids with a snapshots/<id>.lock
    target,    \* the restore of <id> in the isolated parent
    task       \* the call each task has in progress

diskVars == <<host, now, snapshot, staging, lockFile, target, task>>

Host == [faults : 0 .. MaxFaults, quota : Quotas]
Snapshot == [state : {"absent", "stored", "removing"}, createdAt : Nat]
RestoreTarget == [locked : BOOLEAN, partial : BOOLEAN, done : BOOLEAN]
Task == [at : {"idle", "lock", "check", "copy", "promote", "discard", "unlock",
               "pruneLock", "remove", "pruneUnlock",
               "readBack", "restoreLock", "restoreCheck", "restoreCopy",
               "restoreDiscard", "restoreUnlock", "returned"},
         backup : Backups,
         expired : SUBSET Backups,
         createdAt : Nat,
         outcome : {"none", "ok", "failed"}]

SomeBackup == CHOOSE b \in Backups : TRUE
NoTask == [at |-> "idle", backup |-> SomeBackup, expired |-> {},
           createdAt |-> 0, outcome |-> "none"]

\* A fault: a file-system call that fails, or the death of the agent.
Fault == host.faults > 0 /\ host' = [host EXCEPT !.faults = @ - 1]
NoFault == UNCHANGED host

Intact(b) == snapshot[b].state = "stored"

\* listBackups: what has a manifest that parses. A snapshot being removed may
\* have lost its manifest already or not yet.
Listings == {L \in SUBSET {b \in Backups : snapshot[b].state # "absent"} :
                \A b \in Backups : Intact(b) => b \in L}

\* Mutant: a snapshot counts among those newer than itself.
ExpiredCountingItself(listed, t) ==
    {b \in listed :
        /\ Cardinality({c \in listed : snapshot[c].createdAt >= snapshot[b].createdAt})
              >= KeepLatest
        /\ snapshot[b].createdAt + MaximumAge < t}

\* selectExpiredBackups: neither among the newest KeepLatest, nor young. The
\* tie break by id is left out: copies are taken one at a time.
Expired(listed, t) ==
    {b \in listed :
        /\ Cardinality({c \in listed : snapshot[c].createdAt > snapshot[b].createdAt})
              >= KeepLatest
        /\ snapshot[b].createdAt + MaximumAge < t}

\* Mutant: the snapshot about to be taken is not counted.
RoomForOneLess(listed) == Cardinality(listed) <= host.quota

\* assertWithinQuota.
RoomFor(listed) == Cardinality(listed) + 1 <= host.quota

Return(t, outcome) ==
    task' = [task EXCEPT ![t] = [NoTask EXCEPT !.at = "returned", !.backup = task[t].backup,
                                               !.outcome = outcome]]
Forget(t) == task' = [task EXCEPT ![t] = NoTask]
GoTo(t, place) == task' = [task EXCEPT ![t].at = place]
\* Mutant: the error takes the place of the outcome.
FailingAs(t, place) == task' = [task EXCEPT ![t].at = place, ![t].outcome = "error"]

Failing(t, place) == task' = [task EXCEPT ![t].at = place, ![t].outcome = "failed"]

-----------------------------------------------------------------------------
(* createBackup                                                               *)

StartCreate(t, b) ==
    /\ task[t].at = "idle"
    /\ task' = [task EXCEPT ![t] = [NoTask EXCEPT !.at = "lock", !.backup = b, !.createdAt = now]]
    /\ UNCHANGED <<host, now, snapshot, staging, lockFile, target>>

\* An id that has a row is refused before, so nobody else has its lock.
CreateLock(t) ==
    LET b == task[t].backup
    IN  /\ task[t].at = "lock"
        /\ b \notin lockFile /\ lockFile' = lockFile \cup {b}
        /\ GoTo(t, "check")
        /\ UNCHANGED <<host, now, snapshot, staging, target>>

\* The destination, the quota and the free space; then the staging directory.
CreateCheck(t) ==
    LET b == task[t].backup
        free == b \notin staging /\ snapshot[b].state = "absent"
    IN  /\ task[t].at = "check"
        /\ \/ /\ free
              /\ \E listed \in Listings : RoomFor(listed)
              /\ staging' = staging \cup {b}
              /\ GoTo(t, "copy") /\ NoFault
           \/ /\ \/ ~free /\ NoFault
                 \/ /\ \E listed \in Listings : ~RoomFor(listed)
                    /\ NoFault
                 \/ Fault
              /\ Failing(t, "unlock")
              /\ UNCHANGED staging
        /\ UNCHANGED <<now, snapshot, lockFile, target>>

\* Copies, writes the manifest, verifies the payload and seals; that takes
\* time, so that two snapshots taken in turn differ in createdAt. A payload
\* that does not verify fails the call.
CreateCopy(t) ==
    /\ task[t].at = "copy"
    /\ now' = now + 1
    /\ GoTo(t, "promote") \/ Failing(t, "discard")
    /\ UNCHANGED <<host, snapshot, staging, lockFile, target>>

CreatePromote(t) ==
    LET b == task[t].backup
    IN  /\ task[t].at = "promote"
        /\ \/ /\ snapshot' = [snapshot EXCEPT ![b] = [state |-> "stored",
                                                      createdAt |-> task[t].createdAt]]
              /\ staging' = staging \ {b}
              /\ task' = [task EXCEPT ![t].at = "unlock", ![t].outcome = "ok"]
              /\ NoFault
           \/ Fault /\ Failing(t, "discard") /\ UNCHANGED <<snapshot, staging>>
        /\ UNCHANGED <<now, lockFile, target>>

CreateDiscard(t) ==
    /\ task[t].at = "discard"
    /\ \/ staging' = staging \ {task[t].backup} /\ NoFault
       \/ Fault /\ UNCHANGED staging
    /\ GoTo(t, "unlock")
    /\ UNCHANGED <<now, snapshot, lockFile, target>>

\* A lock file that cannot be removed fails the call, promoted or not.
CreateUnlock(t) ==
    /\ task[t].at = "unlock"
    /\ \/ lockFile' = lockFile \ {task[t].backup} /\ Return(t, task[t].outcome) /\ NoFault
       \/ Fault /\ Return(t, "failed") /\ UNCHANGED lockFile
    /\ UNCHANGED <<now, snapshot, staging, target>>

-----------------------------------------------------------------------------
(* pruneExpiredBackups: one listing, then each expired snapshot in turn,      *)
(* newest first. Both callers ignore how it ends.                             *)

\* Mutant: retention waits until the quota is used up.
StartPruneWhenFull(t) ==
    /\ task[t].at = "idle"
    /\ \E listed \in Listings :
         /\ Cardinality(listed) > host.quota
         /\ task' = [task EXCEPT ![t] = [NoTask EXCEPT !.at = "pruneLock",
                                                       !.expired = Expired(listed, now)]]
    /\ UNCHANGED <<host, now, snapshot, staging, lockFile, target>>

StartPrune(t) ==
    /\ task[t].at = "idle"
    /\ \E listed \in Listings :
         task' = [task EXCEPT ![t] = [NoTask EXCEPT !.at = "pruneLock",
                                                    !.expired = Expired(listed, now)]]
    /\ UNCHANGED <<host, now, snapshot, staging, lockFile, target>>

Newest(S) == CHOOSE b \in S : \A c \in S : snapshot[c].createdAt <= snapshot[b].createdAt

PruneLock(t) ==
    LET expired == task[t].expired
        b == Newest(expired)
    IN  /\ task[t].at = "pruneLock"
        /\ \/ expired = {} /\ Forget(t) /\ UNCHANGED lockFile
           \/ /\ expired # {} /\ b \notin lockFile
              /\ lockFile' = lockFile \cup {b}
              /\ task' = [task EXCEPT ![t].at = "remove", ![t].backup = b]
           \/ expired # {} /\ b \in lockFile /\ Forget(t) /\ UNCHANGED lockFile
        /\ UNCHANGED <<host, now, snapshot, staging, target>>

\* rm removes a tree file by file; it may fail half way.
PruneRemove(t) ==
    LET b == task[t].backup
    IN  /\ task[t].at = "remove"
        /\ \/ /\ snapshot[b].state = "stored"
              /\ snapshot' = [snapshot EXCEPT ![b].state = "removing"]
              /\ UNCHANGED task /\ NoFault
           \/ /\ snapshot[b].state # "stored"
              /\ snapshot' = [snapshot EXCEPT ![b] = [state |-> "absent", createdAt |-> 0]]
              /\ GoTo(t, "pruneUnlock") /\ NoFault
           \/ Fault /\ Failing(t, "pruneUnlock") /\ UNCHANGED snapshot
        /\ UNCHANGED <<now, staging, lockFile, target>>

PruneUnlock(t) ==
    LET b == task[t].backup
    IN  /\ task[t].at = "pruneUnlock"
        /\ \/ /\ lockFile' = lockFile \ {b} /\ NoFault
              /\ \/ /\ task[t].outcome = "none"
                    /\ task' = [task EXCEPT ![t].at = "pruneLock", ![t].expired = @ \ {b}]
                 \/ task[t].outcome = "failed" /\ Forget(t)
           \/ Fault /\ Forget(t) /\ UNCHANGED lockFile
        /\ UNCHANGED <<now, snapshot, staging, target>>

-----------------------------------------------------------------------------
(* restoreBackup: reads the snapshot under the lock of the target, not of the *)
(* snapshot.                                                                  *)

StartRestore(t, b) ==
    /\ task[t].at = "idle"
    /\ task' = [task EXCEPT ![t] = [NoTask EXCEPT !.at = "readBack", !.backup = b]]
    /\ UNCHANGED <<host, now, snapshot, staging, lockFile, target>>

\* The seal, then the whole payload.
RestoreReadBack(t) ==
    /\ task[t].at = "readBack"
    /\ \/ Intact(task[t].backup) /\ GoTo(t, "restoreLock") /\ NoFault
       \/ ~Intact(task[t].backup) /\ Return(t, "failed") /\ NoFault
       \/ Fault /\ Return(t, "failed")
    /\ UNCHANGED <<now, snapshot, staging, lockFile, target>>

RestoreLock(t) ==
    LET b == task[t].backup
    IN  /\ task[t].at = "restoreLock"
        /\ \/ /\ ~target[b].locked
              /\ target' = [target EXCEPT ![b].locked = TRUE]
              /\ GoTo(t, "restoreCheck")
           \/ target[b].locked /\ Return(t, "failed") /\ UNCHANGED target
        /\ UNCHANGED <<host, now, snapshot, staging, lockFile>>

RestoreCheck(t) ==
    LET b == task[t].backup
    IN  /\ task[t].at = "restoreCheck"
        /\ \/ /\ ~target[b].done /\ ~target[b].partial
              /\ target' = [target EXCEPT ![b].partial = TRUE]
              /\ GoTo(t, "restoreCopy") /\ NoFault
           \/ /\ \/ (target[b].done \/ target[b].partial) /\ NoFault
                 \/ Fault
              /\ Failing(t, "restoreUnlock")
              /\ UNCHANGED target
        /\ UNCHANGED <<now, snapshot, staging, lockFile>>

\* Copies, verifies the copy against the manifest read before, and promotes;
\* a copy that does not verify fails the call.
\* Of a snapshot that is being removed the files may have been read in time.
RestoreCopy(t) ==
    LET b == task[t].backup
    IN  /\ task[t].at = "restoreCopy"
        /\ \/ /\ snapshot[b].state # "absent"
              /\ target' = [target EXCEPT ![b].partial = FALSE, ![b].done = TRUE]
              /\ task' = [task EXCEPT ![t].at = "restoreUnlock", ![t].outcome = "ok"]
           \/ Failing(t, "restoreDiscard") /\ UNCHANGED target
        /\ UNCHANGED <<host, now, snapshot, staging, lockFile>>

RestoreDiscard(t) ==
    /\ task[t].at = "restoreDiscard"
    /\ \/ target' = [target EXCEPT ![task[t].backup].partial = FALSE] /\ NoFault
       \/ Fault /\ UNCHANGED target
    /\ GoTo(t, "restoreUnlock")
    /\ UNCHANGED <<now, snapshot, staging, lockFile>>

RestoreUnlock(t) ==
    /\ task[t].at = "restoreUnlock"
    /\ \/ /\ target' = [target EXCEPT ![task[t].backup].locked = FALSE]
          /\ Return(t, task[t].outcome) /\ NoFault
       \/ Fault /\ Return(t, "failed") /\ UNCHANGED target
    /\ UNCHANGED <<now, snapshot, staging, lockFile>>

-----------------------------------------------------------------------------

StoreInit ==
    /\ host \in [faults : {MaxFaults}, quota : Quotas]
    /\ now = 1
    /\ snapshot = [b \in Backups |->
                      [state |-> IF b \in Existing THEN "stored" ELSE "absent", createdAt |-> 0]]
    /\ staging = {} /\ lockFile = {}
    /\ target = [b \in Backups |-> [locked |-> FALSE, partial |-> FALSE, done |-> FALSE]]
    /\ task = [t \in Tasks |-> NoTask]

ServiceStep(t) ==
    \/ CreateLock(t) \/ CreateCheck(t) \/ CreateCopy(t) \/ CreatePromote(t)
    \/ CreateDiscard(t) \/ CreateUnlock(t)
    \/ PruneLock(t) \/ PruneRemove(t) \/ PruneUnlock(t)
    \/ RestoreReadBack(t) \/ RestoreLock(t) \/ RestoreCheck(t) \/ RestoreCopy(t)
    \/ RestoreDiscard(t) \/ RestoreUnlock(t)

=============================================================================
