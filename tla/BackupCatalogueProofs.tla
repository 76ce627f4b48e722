----------------------- MODULE BackupCatalogueProofs -----------------------
(***************************************************************************)
(* BackupInv is an inductive invariant of the backups of one server, for   *)
(* any number of backups, any retention policy, quota and number of        *)
(* faults. From it: the quota holds, a success leaves its result, and      *)
(* retention never goes below the snapshots its policy keeps.              *)
(***************************************************************************)
EXTENDS BackupCatalogue, FiniteSetTheorems, TLAPS

USE StoreAssumption, CatalogueAssumption

\* The places of a call of createBackup, and those before it promotes.
Creating == {"lock", "check", "copy", "promote", "discard", "unlock"}
Unpromoted == {"lock", "check", "copy", "promote"}
\* The places of a call of restoreBackup that the handler waits for.
Restoring == {"readBack", "restoreLock", "restoreCheck", "restoreCopy", "restoreDiscard",
              "restoreUnlock", "returned"}

Whole == {b \in Backups : Intact(b)}

\* As many whole snapshots as are to be kept are newer than that of b.
Outlived(b) == Cardinality(Newer(b)) >= KeepLatest

\* No snapshot is dated in the future.
DatesPast ==
    /\ \A b \in Backups : snapshot[b].createdAt <= now
    /\ \A t \in Tasks : task[t].createdAt <= now

\* What is being removed, and what a call of retention is going to remove, is
\* outlived, however old the listing of that call is.
RemovedIsOutlived ==
    /\ \A b \in Backups : snapshot[b].state = "removing" => Outlived(b)
    /\ \A t \in Tasks : \A b \in task[t].expired : snapshot[b].state # "absent" => Outlived(b)
    /\ \A t \in Tasks : task[t].at = "remove" => task[t].backup \in task[t].expired

\* A call that has passed the quota still finds room for its snapshot.
RoomIsKept ==
    \A t \in Tasks :
        task[t].at \in {"copy", "promote"} => Cardinality(Whole) + 1 <= host.quota

\* Only the handler takes backups, and it waits for the call.
CreatorIsHandler ==
    \A t \in Tasks :
        task[t].at \in Creating =>
            /\ t = Handler
            /\ handler.at = "complete"
            /\ handler.work = <<"create", task[t].backup>>

\* The snapshot of b is still to be taken.
Awaited(b) ==
    \/ b \notin Existing /\ job[<<"create", b>>] \in {"none", "queued"}
    \/ handler.at \in {"lookUp", "lock", "serve"} /\ handler.work = <<"create", b>>
    \/ \E t \in Tasks : task[t].at \in Unpromoted /\ task[t].backup = b

\* Until then there is nothing of it, on the disk or in a listing.
AwaitedIsUntouched ==
    \A b \in Backups :
        Awaited(b) => /\ snapshot[b].state = "absent"
                      /\ \A t \in Tasks : b \notin task[t].expired

DiskInv ==
    /\ DatesPast /\ RemovedIsOutlived
    /\ RoomIsKept /\ WithinQuota

-----------------------------------------------------------------------------

\* A backup is asked for once, and its job is queued once.
AskedOnce ==
    \A b \in Backups :
        /\ row[b] # "none" => request[<<"create", b>>] = "done"
        /\ request[<<"create", b>>] \in {"none", "accept", "queue"} =>
              job[<<"create", b>>] = "none"
        /\ b \in Existing => /\ request[<<"create", b>>] = "done"
                             /\ job[<<"create", b>>] = "none"

\* The handler works on a job; that of a backup is never queued again.
HandlerHasJob ==
    handler.at # "idle" =>
        /\ handler.work \in Works
        /\ Kind(handler.work) = "create" => job[handler.work] \in {"leased", "done"}

\* Where the handler is tells what it works on.
HandlerPlace ==
    /\ handler.at \in {"complete", "fail", "prune"} => Kind(handler.work) = "create"
    /\ handler.at = "boot" => Kind(handler.work) = "restore"
    /\ handler.at = "fail" => handler.outcome = "failed"

\* A success the handler is going to report has left its result.
HandlerHasResult ==
    handler.at \in {"prune", "unlock", "report"} /\ handler.outcome = "succeeded" =>
        /\ Kind(handler.work) = "create" => row[Of(handler.work)] = "available"
        /\ Kind(handler.work) = "restore" => target[Of(handler.work)].done

\* So has a success the control API is about to settle.
VerdictHasResult ==
    \A w \in Works :
        verdict[w].outcome = "succeeded" =>
            /\ Kind(w) = "create" => row[Of(w)] = "available"
            /\ Kind(w) = "restore" => target[Of(w)].done

\* A result to be closed is that of a job somebody claimed.
VerdictHasJob ==
    \A b \in Backups :
        verdict[<<"create", b>>].at = "close" => job[<<"create", b>>] \in {"leased", "done"}

VerdictInv == VerdictHasResult /\ VerdictHasJob

\* So has a restore that answered.
RestoreAnswer ==
    handler.at = "boot" =>
        /\ task[Handler].at \in Restoring
        /\ task[Handler].backup = Of(handler.work)
        /\ task[Handler].outcome = "ok" => target[Of(handler.work)].done

BackupInv ==
    /\ BackupTypeOK
    /\ DiskInv
    /\ CreatorIsHandler /\ AwaitedIsUntouched
    /\ SuccessLeavesResult /\ VerdictInv
    /\ AskedOnce /\ HandlerHasJob /\ HandlerPlace /\ HandlerHasResult /\ RestoreAnswer

-----------------------------------------------------------------------------
(* Sets and dates.                                                            *)

LEMMA SomeBackupType == SomeBackup \in Backups
BY DEF SomeBackup

LEMMA NoTaskType == NoTask \in Task
BY SomeBackupType DEF NoTask, Task

LEMMA WorkTypes ==
  /\ \A b \in Backups : <<"create", b>> \in Works /\ <<"restore", b>> \in Works
  /\ \A w \in Works : /\ Kind(w) \in {"create", "restore"} /\ Of(w) \in Backups
                      /\ w = <<Kind(w), Of(w)>>
  /\ NoWork \notin Works
BY DEF Works, Kind, Of, NoWork

\* A nonempty set of naturals has a least element.
LEMMA LeastOf ==
  ASSUME NEW S \in SUBSET Nat, S # {}
  PROVE  \E x \in S : \A y \in S : x <= y
<1>1. PICK x \in S : \A y \in S : ~(<<y, x>> \in OpToRel(<, Nat))
  BY NatLessThanWellFounded, WFMin
<1>2. ASSUME NEW y \in S PROVE x <= y
  <2>1. <<y, x>> \notin OpToRel(<, Nat)
    BY <1>1
  <2>2. x \in Nat /\ y \in Nat
    OBVIOUS
  <2>3. ~(y < x)
    BY <2>1, <2>2 DEF OpToRel
  <2> QED
    BY <2>2, <2>3
<1> QED
  BY <1>2

\* The newest of some snapshots is one of them.
LEMMA NewestIsThere ==
  ASSUME BackupInv, NEW S \in SUBSET Backups, S # {}
  PROVE  Newest(S) \in S
<1>0. /\ now \in Nat
      /\ \A b \in Backups : snapshot[b].createdAt \in Nat /\ snapshot[b].createdAt <= now
  BY DEF BackupInv, BackupTypeOK, DiskInv, DatesPast, Snapshot
<1> DEFINE age(b) == now - snapshot[b].createdAt
           ages == {age(b) : b \in S}
<1>1. \A b \in S : age(b) \in Nat
  BY <1>0
<1>2. ages \in SUBSET Nat /\ ages # {}
  BY <1>1
<1>3. PICK d \in ages : \A y \in ages : d <= y
  BY <1>2, LeastOf
<1>4. PICK b \in S : d = age(b)
  OBVIOUS
<1>5. ASSUME NEW c \in S PROVE snapshot[c].createdAt <= snapshot[b].createdAt
  <2>1. age(b) <= age(c)
    BY <1>3, <1>4
  <2> QED
    BY <1>0, <2>1
<1> QED
  BY <1>5 DEF Newest

\* A larger set of snapshots has more of them.
LEMMA AtLeastAsMany ==
  ASSUME NEW N \in SUBSET Backups, NEW K \in SUBSET N, Cardinality(K) >= KeepLatest
  PROVE  Cardinality(N) >= KeepLatest
<1>1. IsFiniteSet(N) /\ IsFiniteSet(K)
  BY FS_Subset
<1>2. Cardinality(N) \in Nat /\ Cardinality(K) \in Nat /\ Cardinality(K) <= Cardinality(N)
  BY <1>1, FS_Subset, FS_CardinalityType
<1> QED
  BY <1>2

\* It is enough to know some of the snapshots that outlive b.
LEMMA OutlivedBy ==
  ASSUME NEW b \in Backups, NEW K \in SUBSET Backups, Cardinality(K) >= KeepLatest,
         \A c \in K : /\ snapshot[c].state = "stored"
                     /\ snapshot[c].createdAt > snapshot[b].createdAt
  PROVE  Outlived(b)
<1>1. K \subseteq Newer(b) /\ Newer(b) \subseteq Backups
  BY DEF Newer, Intact
<1> QED
  BY <1>1, AtLeastAsMany DEF Outlived

LEMMA OutlivedNextBy ==
  ASSUME NEW b \in Backups, NEW K \in SUBSET Backups, Cardinality(K) >= KeepLatest,
         \A c \in K : /\ snapshot'[c].state = "stored"
                     /\ snapshot'[c].createdAt > snapshot'[b].createdAt
  PROVE  Outlived(b)'
<1>1. K \subseteq Newer(b)' /\ Newer(b)' \subseteq Backups
  BY DEF Newer, Intact
<1> QED
  BY <1>1, AtLeastAsMany DEF Outlived

\* What retention selects from a listing is outlived, although the listing may
\* count snapshots that are being removed: those are outlived themselves.
LEMMA ExpiredIsOutlived ==
  ASSUME BackupInv, NEW listed \in Listings, NEW b \in Expired(listed, now)
  PROVE  b \in Backups /\ snapshot[b].state # "absent" /\ Outlived(b)
<1>1. /\ listed \subseteq Backups
      /\ \A c \in listed : snapshot[c].state # "absent"
  BY DEF Listings
<1> DEFINE newer == {c \in listed : snapshot[c].createdAt > snapshot[b].createdAt}
<1>2. b \in listed /\ Cardinality(newer) >= KeepLatest
  BY DEF Expired
<1>3. /\ \A x \in Backups : snapshot[x].createdAt \in Nat
                            /\ snapshot[x].state \in {"absent", "stored", "removing"}
      /\ \A c \in Backups : snapshot[c].state = "removing" => Outlived(c)
  BY DEF BackupInv, BackupTypeOK, DiskInv, RemovedIsOutlived, Snapshot
<1>4. CASE \A c \in newer : snapshot[c].state = "stored"
  BY <1>1, <1>2, <1>4, OutlivedBy
<1>5. ASSUME NEW c \in newer, snapshot[c].state # "stored" PROVE Outlived(b)
  <2>1. /\ c \in Backups /\ b \in Backups /\ snapshot[c].state = "removing"
        /\ snapshot[c].createdAt > snapshot[b].createdAt
    BY <1>1, <1>2, <1>3, <1>5
  <2>2. Newer(c) \subseteq Backups /\ Cardinality(Newer(c)) >= KeepLatest
    BY <1>3, <2>1 DEF Outlived, Newer
  <2>3. ASSUME NEW d \in Newer(c)
        PROVE  snapshot[d].state = "stored" /\ snapshot[d].createdAt > snapshot[b].createdAt
    BY <1>3, <2>1 DEF Newer, Intact
  <2> QED
    BY <2>1, <2>2, <2>3, OutlivedBy
<1> QED
  BY <1>1, <1>2, <1>4, <1>5

LEMMA WholeIsFinite == IsFiniteSet(Whole) /\ Cardinality(Whole) \in Nat
BY FS_Subset, FS_CardinalityType DEF Whole

\* A listing that leaves room leaves it beside the whole snapshots.
LEMMA RoomForOne ==
  ASSUME BackupInv, NEW listed \in Listings, RoomFor(listed)
  PROVE  Cardinality(Whole) + 1 <= host.quota
<1>1. listed \subseteq Backups /\ Whole \subseteq listed
  BY DEF Listings, Whole
<1>2. IsFiniteSet(listed) /\ Cardinality(listed) \in Nat
  BY <1>1, FS_Subset, FS_CardinalityType
<1>3. Cardinality(Whole) <= Cardinality(listed)
  BY <1>1, <1>2, FS_Subset
<1>4. host.quota \in Nat
  BY DEF BackupInv, BackupTypeOK, Host
<1> QED
  BY <1>2, <1>3, <1>4, WholeIsFinite DEF RoomFor

\* A fault leaves the quota alone.
LEMMA FaultKeepsQuota ==
  ASSUME BackupInv, Fault \/ NoFault
  PROVE  host' \in Host /\ host'.quota = host.quota
<1>1. host \in Host
  BY DEF BackupInv, BackupTypeOK
<1>2. CASE NoFault
  BY <1>1, <1>2 DEF NoFault
<1>3. CASE Fault
  <2>1. host.faults \in 0 .. MaxFaults /\ host.faults > 0
    BY <1>1, <1>3 DEF Fault, Host
  <2>2. host.faults - 1 \in 0 .. MaxFaults
    BY <2>1
  <2>3. host' = [host EXCEPT !.faults = host.faults - 1]
    BY <1>3 DEF Fault
  <2> QED
    BY <1>1, <2>2, <2>3 DEF Host
<1> QED
  BY <1>2, <1>3

-----------------------------------------------------------------------------
(* Steps of a call of the service.                                            *)

\* The place a call goes to keeps what is known of it.
MovesSoundly(t, p) ==
    /\ p \in Task
    /\ p.createdAt <= now
    /\ p.expired \subseteq task[t].expired
    /\ p.at = "remove" => p.backup \in p.expired
    /\ p.at \in {"copy", "promote"} =>
          task[t].at \in {"copy", "promote"} \/ Cardinality(Whole) + 1 <= host.quota
    /\ p.at \in Creating => task[t].at \in Creating /\ p.backup = task[t].backup
    /\ p.at \in Unpromoted => task[t].at \in Unpromoted
    /\ t = Handler /\ handler.at = "boot" =>
          /\ p.at \in Restoring /\ p.backup = task[t].backup
          /\ p.outcome = "ok" => task[t].outcome = "ok" \/ target'[p.backup].done

\* Directories other than the snapshots.
RestKept ==
    /\ host' \in Host /\ host'.quota = host.quota
    /\ staging' \subseteq Backups /\ lockFile' \subseteq Backups
    /\ target' \in [Backups -> RestoreTarget]
    /\ \A b \in Backups : target[b].done => target'[b].done

\* A step that leaves the snapshots alone and may take time.
LEMMA CallMovesInTime ==
  ASSUME BackupInv, NEW t \in Tasks, NEW p, MovesSoundly(t, p), RestKept,
         task' = [task EXCEPT ![t] = p], now' \in {now, now + 1},
         UNCHANGED <<snapshot, catalogueVars>>
  PROVE  BackupInv'
<1> USE DEF BackupInv
<1>0. /\ UNCHANGED <<request, operation, job, verdict, row, exclusive, handler>>
      /\ task \in [Tasks -> Task] /\ p \in Task
      /\ task' \in [Tasks -> Task]
      /\ task'[t] = p /\ \A r \in Tasks : r # t => task'[r] = task[r]
  BY DEF BackupTypeOK, catalogueVars, MovesSoundly
<1>n. now \in Nat /\ now' \in Nat
  BY DEF BackupTypeOK
<1>1. BackupTypeOK'
  BY <1>0, <1>n DEF BackupTypeOK, RestKept
<1>2. DiskInv'
  <2>a. \A x \in Nat : x <= now => x <= now'
    BY <1>n
  <2>b. /\ \A b \in Backups : snapshot[b].createdAt \in Nat
        /\ \A r \in Tasks : task'[r].createdAt \in Nat
    BY <1>0 DEF BackupTypeOK, Snapshot, Task
  <2>c. \A r \in Tasks : task'[r].createdAt <= now
    BY <1>0 DEF DiskInv, DatesPast, MovesSoundly
  <2>1. DatesPast'
    BY <2>a, <2>b, <2>c DEF DiskInv, DatesPast
  <2>2. \A b \in Backups : Outlived(b)' <=> Outlived(b)
    BY DEF Outlived, Newer, Intact
  <2>3. \A r \in Tasks : task'[r].expired \subseteq task[r].expired
    BY <1>0 DEF MovesSoundly
  <2>4. \A r \in Tasks : task[r].expired \subseteq Backups
    BY <1>0 DEF Task
  <2>5. \A r \in Tasks : task'[r].at = "remove" => task'[r].backup \in task'[r].expired
    BY <1>0 DEF DiskInv, RemovedIsOutlived, MovesSoundly
  <2>6. RemovedIsOutlived'
    BY <2>2, <2>3, <2>4, <2>5 DEF DiskInv, RemovedIsOutlived
  <2>7. Whole' = Whole /\ host'.quota = host.quota
    BY DEF Whole, Intact, RestKept
  <2>8. RoomIsKept'
    BY <1>0, <2>7 DEF DiskInv, RoomIsKept, MovesSoundly
  <2>9. WithinQuota'
    BY <2>7 DEF DiskInv, WithinQuota, Whole, Intact
  <2> QED
    BY <2>1, <2>6, <2>8, <2>9 DEF DiskInv
<1>3. CreatorIsHandler'
  BY <1>0 DEF CreatorIsHandler, MovesSoundly
<1>4. AwaitedIsUntouched'
  <2>1. \A r \in Tasks : task'[r].at \in Unpromoted =>
            task[r].at \in Unpromoted /\ task'[r].backup = task[r].backup
    BY <1>0 DEF MovesSoundly, Unpromoted, Creating
  <2>2. \A b \in Backups : Awaited(b)' => Awaited(b)
    BY <1>0, <2>1 DEF Awaited
  <2>3. \A r \in Tasks : task'[r].expired \subseteq task[r].expired
    BY <1>0 DEF MovesSoundly
  <2> QED
    BY <2>2, <2>3 DEF AwaitedIsUntouched
<1>5. SuccessLeavesResult' /\ VerdictInv'
  BY <1>0, WorkTypes DEF SuccessLeavesResult, VerdictInv, VerdictHasResult, VerdictHasJob, RestKept
<1>6. AskedOnce' /\ HandlerHasJob' /\ HandlerPlace'
  BY <1>0 DEF AskedOnce, HandlerHasJob, HandlerPlace
<1>7. HandlerHasResult'
  <2>1. handler.at # "idle" => Of(handler.work) \in Backups
    BY WorkTypes DEF HandlerHasJob
  <2> QED
    BY <1>0, <2>1 DEF HandlerHasResult, RestKept
<1>8. RestoreAnswer'
  <2> SUFFICES ASSUME handler.at = "boot"
               PROVE  /\ task'[Handler].at \in Restoring
                      /\ task'[Handler].backup = Of(handler.work)
                      /\ task'[Handler].outcome = "ok" => target'[Of(handler.work)].done
    BY <1>0 DEF RestoreAnswer
  <2>1. Of(handler.work) \in Backups
    BY WorkTypes DEF HandlerHasJob
  <2>2. CASE t = Handler
    BY <1>0, <2>1, <2>2 DEF RestoreAnswer, MovesSoundly, RestKept
  <2>3. CASE t # Handler
    BY <1>0, <2>1, <2>3 DEF RestoreAnswer, RestKept
  <2> QED
    BY <2>2, <2>3
<1> QED
  BY <1>1, <1>2, <1>3, <1>4, <1>5, <1>6, <1>7, <1>8

LEMMA CallMoves ==
  ASSUME BackupInv, NEW t \in Tasks, NEW p, MovesSoundly(t, p), RestKept,
         task' = [task EXCEPT ![t] = p],
         UNCHANGED <<now, snapshot, catalogueVars>>
  PROVE  BackupInv'
BY CallMovesInTime

LEMMA TaskFacts ==
  ASSUME BackupInv, NEW t \in Tasks
  PROVE  /\ task[t] \in Task /\ task \in [Tasks -> Task] /\ task[t].createdAt <= now
         /\ task[t].backup \in Backups
         /\ target \in [Backups -> RestoreTarget]
         /\ snapshot \in [Backups -> Snapshot]
         /\ staging \subseteq Backups /\ lockFile \subseteq Backups
         /\ now \in Nat /\ host \in Host
BY DEF BackupInv, BackupTypeOK, DiskInv, DatesPast, Task

\* A call that moves to another place of createBackup, restoreBackup or
\* pruneExpiredBackups and keeps the rest of its state.
LEMMA GoToSoundly ==
  ASSUME BackupInv, NEW t \in Tasks, NEW place, NEW outcome \in {"none", "ok", "failed"},
         [task[t] EXCEPT !.at = place, !.outcome = outcome] \in Task,
         place = "remove" => task[t].at = "remove",
         place \in {"copy", "promote"} =>
            task[t].at \in {"copy", "promote"} \/ Cardinality(Whole) + 1 <= host.quota,
         place \in Creating => task[t].at \in Creating,
         place \in Unpromoted => task[t].at \in Unpromoted,
         t = Handler /\ handler.at = "boot" =>
            place \in Restoring /\ (outcome = "ok" => task[t].outcome = "ok"
                                                      \/ target'[task[t].backup].done)
  PROVE  MovesSoundly(t, [task[t] EXCEPT !.at = place, !.outcome = outcome])
<1> DEFINE p == [task[t] EXCEPT !.at = place, !.outcome = outcome]
<1>1. /\ task[t] \in Task /\ task[t].createdAt <= now
      /\ task[t].at = "remove" => task[t].backup \in task[t].expired
  BY TaskFacts DEF BackupInv, DiskInv, RemovedIsOutlived
<1>2. /\ p \in Task /\ p.at = place /\ p.outcome = outcome /\ p.backup = task[t].backup
      /\ p.expired = task[t].expired /\ p.createdAt = task[t].createdAt
  BY <1>1 DEF Task
<1> HIDE DEF p
<1>3. MovesSoundly(t, p)
  BY <1>1, <1>2 DEF MovesSoundly
<1> QED
  BY <1>3 DEF p

\* A call that returns.
LEMMA ReturnsSoundly ==
  ASSUME BackupInv, NEW t \in Tasks, NEW outcome \in {"none", "ok", "failed"},
         t = Handler /\ handler.at = "boot" => (outcome = "ok" => task[t].outcome = "ok")
  PROVE  MovesSoundly(t, [NoTask EXCEPT !.at = "returned", !.backup = task[t].backup,
                                        !.outcome = outcome])
<1> DEFINE p == [NoTask EXCEPT !.at = "returned", !.backup = task[t].backup,
                               !.outcome = outcome]
<1>1. task[t].backup \in Backups /\ now \in Nat /\ task[t].expired \subseteq Backups
  BY TaskFacts DEF Task
<1>2. /\ p \in Task /\ p.at = "returned" /\ p.outcome = outcome /\ p.backup = task[t].backup
      /\ p.expired = {} /\ p.createdAt = 0
  BY <1>1 DEF NoTask, Task
<1> HIDE DEF p
<1>3. MovesSoundly(t, p)
  BY <1>1, <1>2 DEF MovesSoundly, Creating, Unpromoted, Restoring
<1> QED
  BY <1>3 DEF p

\* A call that ends and is forgotten.
LEMMA ForgetsSoundly ==
  ASSUME BackupInv, NEW t \in Tasks, t = Handler => handler.at # "boot"
  PROVE  MovesSoundly(t, NoTask)
<1>1. now \in Nat /\ task[t].expired \subseteq Backups
  BY TaskFacts DEF Task
<1>2. NoTask.at = "idle" /\ NoTask.expired = {} /\ NoTask.createdAt = 0
  BY DEF NoTask
<1> QED
  BY <1>1, <1>2, NoTaskType DEF MovesSoundly, Creating, Unpromoted

Places == Creating \cup Restoring \cup {"idle", "pruneLock", "remove", "pruneUnlock"}

\* The handler waits for restores only while it is going to boot the server.
LEMMA BootWaits ==
  ASSUME BackupInv, NEW t \in Tasks, task[t].at \notin Restoring
  PROVE  ~(t = Handler /\ handler.at = "boot")
BY DEF BackupInv, RestoreAnswer

\* One step of a call that goes to another place, or fails there.
LEMMA StepInv ==
  ASSUME BackupInv, NEW t \in Tasks, NEW place \in Places,
         GoTo(t, place) \/ Failing(t, place),
         place # "remove",
         place \in {"copy", "promote"} =>
            task[t].at \in {"copy", "promote"} \/ Cardinality(Whole) + 1 <= host.quota,
         place \in Creating => task[t].at \in Creating,
         place \in Unpromoted => task[t].at \in Unpromoted,
         place \in Restoring <=> task[t].at \in Restoring,
         RestKept, UNCHANGED <<now, snapshot, catalogueVars>>
  PROVE  BackupInv'
<1>1. task[t] \in Task /\ task \in [Tasks -> Task]
  BY TaskFacts
<1>2. PICK outcome \in {"none", "ok", "failed"} :
        /\ task' = [task EXCEPT ![t] = [task[t] EXCEPT !.at = place, !.outcome = outcome]]
        /\ outcome = task[t].outcome \/ outcome = "failed"
  <2>1. CASE GoTo(t, place)
    <3>1. [task[t] EXCEPT !.at = place] =
             [task[t] EXCEPT !.at = place, !.outcome = task[t].outcome]
      BY <1>1 DEF Task
    <3>2. task' = [task EXCEPT ![t] = [task[t] EXCEPT !.at = place]]
      BY <2>1 DEF GoTo
    <3>3. task[t].outcome \in {"none", "ok", "failed"}
      BY <1>1 DEF Task
    <3> QED
      BY <3>1, <3>2, <3>3
  <2>2. CASE Failing(t, place)
    BY <1>1, <2>2 DEF Failing
  <2> QED
    BY <2>1, <2>2
<1> DEFINE p == [task[t] EXCEPT !.at = place, !.outcome = outcome]
<1>3. p \in Task
  BY <1>1, <1>2 DEF Task, Places, Creating, Restoring
<1>4. t = Handler /\ handler.at = "boot" => place \in Restoring
  BY BootWaits
<1>5. outcome = "ok" => task[t].outcome = "ok"
  BY <1>2
<1>6. MovesSoundly(t, p)
  BY <1>3, <1>4, <1>5, GoToSoundly
<1> HIDE DEF p
<1> QED
  BY <1>2, <1>6, CallMoves DEF p

LEMMA ReturnInv ==
  ASSUME BackupInv, NEW t \in Tasks, NEW outcome \in {"none", "ok", "failed"},
         Return(t, outcome),
         outcome = "ok" => task[t].outcome = "ok",
         RestKept, UNCHANGED <<now, snapshot, catalogueVars>>
  PROVE  BackupInv'
BY ReturnsSoundly, CallMoves DEF Return

LEMMA ForgetInv ==
  ASSUME BackupInv, NEW t \in Tasks, task[t].at \notin Restoring, Forget(t),
         RestKept, UNCHANGED <<now, snapshot, catalogueVars>>
  PROVE  BackupInv'
BY BootWaits, ForgetsSoundly, CallMoves DEF Forget

\* A step that changes none of the other directories, fault or not.
LEMMA NothingElse ==
  ASSUME BackupInv, Fault \/ NoFault, UNCHANGED <<staging, lockFile, target>>
  PROVE  RestKept
<1>1. /\ staging \subseteq Backups /\ lockFile \subseteq Backups
      /\ target \in [Backups -> RestoreTarget]
  BY DEF BackupInv, BackupTypeOK
<1> QED
  BY <1>1, FaultKeepsQuota DEF RestKept

LEMMA UnchangedHost == UNCHANGED host => NoFault
BY DEF NoFault

\* One that adds or removes a file beside the snapshots.
LEMMA OneFile ==
  ASSUME BackupInv, Fault \/ NoFault, NEW b \in Backups, target' = target,
         staging' \in {staging, staging \cup {b}, staging \ {b}},
         lockFile' \in {lockFile, lockFile \cup {b}, lockFile \ {b}}
  PROVE  RestKept
<1>1. /\ staging \subseteq Backups /\ lockFile \subseteq Backups
      /\ target \in [Backups -> RestoreTarget]
  BY DEF BackupInv, BackupTypeOK
<1>2. staging' \subseteq Backups /\ lockFile' \subseteq Backups
  BY <1>1
<1> QED
  BY <1>1, <1>2, FaultKeepsQuota DEF RestKept

\* One that touches the target of a restore and does not take it back.
LEMMA OneTarget ==
  ASSUME BackupInv, Fault \/ NoFault, NEW b \in Backups, NEW v \in RestoreTarget,
         target' = [target EXCEPT ![b] = v], target[b].done => v.done,
         UNCHANGED <<staging, lockFile>>
  PROVE  RestKept
<1>1. /\ staging \subseteq Backups /\ lockFile \subseteq Backups
      /\ target \in [Backups -> RestoreTarget]
  BY DEF BackupInv, BackupTypeOK
<1>2. target' \in [Backups -> RestoreTarget]
  BY <1>1
<1>3. \A c \in Backups : target[c].done => target'[c].done
  BY <1>1
<1> QED
  BY <1>1, <1>2, <1>3, FaultKeepsQuota DEF RestKept

-----------------------------------------------------------------------------
(* createBackup.                                                              *)

LEMMA CreateLockInv ==
  ASSUME BackupInv, NEW t \in Tasks, CreateLock(t), UNCHANGED catalogueVars
  PROVE  BackupInv'
<1>1. RestKept
  BY TaskFacts, OneFile, UnchangedHost DEF CreateLock
<1> QED
  BY <1>1, StepInv DEF CreateLock, Places, Creating, Unpromoted, Restoring

LEMMA CreateCheckInv ==
  ASSUME BackupInv, NEW t \in Tasks, CreateCheck(t), UNCHANGED catalogueVars
  PROVE  BackupInv'
<1>0. /\ task[t].at = "check" /\ task[t].backup \in Backups
      /\ UNCHANGED <<now, snapshot, lockFile, target, catalogueVars>>
  BY TaskFacts DEF CreateCheck
<1>1. CASE /\ \E listed \in Listings : RoomFor(listed)
           /\ staging' = staging \cup {task[t].backup}
           /\ GoTo(t, "copy") /\ NoFault
  <2>1. Cardinality(Whole) + 1 <= host.quota
    BY <1>1, RoomForOne
  <2>2. RestKept
    BY <1>0, <1>1, OneFile
  <2> QED
    BY <1>0, <1>1, <2>1, <2>2, StepInv DEF Places, Creating, Unpromoted, Restoring
<1>2. CASE Failing(t, "unlock") /\ UNCHANGED staging /\ (Fault \/ NoFault)
  <2>1. RestKept
    BY <1>0, <1>2, NothingElse
  <2> QED
    BY <1>0, <1>2, <2>1, StepInv DEF Places, Creating, Unpromoted, Restoring
<1> QED
  BY <1>1, <1>2 DEF CreateCheck

LEMMA CreateDiscardInv ==
  ASSUME BackupInv, NEW t \in Tasks, CreateDiscard(t), UNCHANGED catalogueVars
  PROVE  BackupInv'
<1>1. RestKept
  BY TaskFacts, OneFile DEF CreateDiscard
<1> QED
  BY <1>1, StepInv DEF CreateDiscard, Places, Creating, Unpromoted, Restoring

LEMMA CreateUnlockInv ==
  ASSUME BackupInv, NEW t \in Tasks, CreateUnlock(t), UNCHANGED catalogueVars
  PROVE  BackupInv'
<1>1. RestKept
  BY TaskFacts, OneFile DEF CreateUnlock
<1>2. task[t].outcome \in {"none", "ok", "failed"}
  BY TaskFacts DEF Task
<1> QED
  BY <1>1, <1>2, ReturnInv DEF CreateUnlock

-----------------------------------------------------------------------------
(* restoreBackup.                                                             *)

LEMMA RestoreReadBackInv ==
  ASSUME BackupInv, NEW t \in Tasks, RestoreReadBack(t), UNCHANGED catalogueVars
  PROVE  BackupInv'
<1>1. RestKept
  BY NothingElse DEF RestoreReadBack
<1>2. CASE GoTo(t, "restoreLock")
  BY <1>1, <1>2, StepInv DEF RestoreReadBack, Places, Creating, Unpromoted, Restoring
<1>3. CASE Return(t, "failed")
  BY <1>1, <1>3, ReturnInv DEF RestoreReadBack
<1> QED
  BY <1>2, <1>3 DEF RestoreReadBack

LEMMA RestoreLockInv ==
  ASSUME BackupInv, NEW t \in Tasks, RestoreLock(t), UNCHANGED catalogueVars
  PROVE  BackupInv'
<1> DEFINE b == task[t].backup
           v == [target[b] EXCEPT !.locked = TRUE]
<1>0. /\ task[t].at = "restoreLock" /\ b \in Backups /\ target[b] \in RestoreTarget
      /\ UNCHANGED <<host, now, snapshot, staging, lockFile, catalogueVars>>
  BY TaskFacts DEF RestoreLock
<1>1. CASE target' = [target EXCEPT ![b].locked = TRUE] /\ GoTo(t, "restoreCheck")
  <2>1. v \in RestoreTarget /\ v.done = target[b].done /\ target' = [target EXCEPT ![b] = v]
    BY <1>0, <1>1 DEF RestoreTarget
  <2>2. RestKept
    BY <1>0, <2>1, OneTarget, UnchangedHost
  <2> QED
    BY <1>0, <1>1, <2>2, StepInv DEF Places, Creating, Unpromoted, Restoring
<1>2. CASE Return(t, "failed") /\ UNCHANGED target
  <2>1. RestKept
    BY <1>0, <1>2, NothingElse, UnchangedHost
  <2> QED
    BY <1>0, <1>2, <2>1, ReturnInv
<1> QED
  BY <1>1, <1>2 DEF RestoreLock

LEMMA RestoreCheckInv ==
  ASSUME BackupInv, NEW t \in Tasks, RestoreCheck(t), UNCHANGED catalogueVars
  PROVE  BackupInv'
<1> DEFINE b == task[t].backup
           v == [target[b] EXCEPT !.partial = TRUE]
<1>0. /\ task[t].at = "restoreCheck" /\ b \in Backups /\ target[b] \in RestoreTarget
      /\ UNCHANGED <<now, snapshot, staging, lockFile, catalogueVars>>
  BY TaskFacts DEF RestoreCheck
<1>1. CASE target' = [target EXCEPT ![b].partial = TRUE] /\ GoTo(t, "restoreCopy") /\ NoFault
  <2>1. v \in RestoreTarget /\ v.done = target[b].done /\ target' = [target EXCEPT ![b] = v]
    BY <1>0, <1>1 DEF RestoreTarget
  <2>2. RestKept
    BY <1>0, <1>1, <2>1, OneTarget
  <2> QED
    BY <1>0, <1>1, <2>2, StepInv DEF Places, Creating, Unpromoted, Restoring
<1>2. CASE Failing(t, "restoreUnlock") /\ UNCHANGED target /\ (Fault \/ NoFault)
  <2>1. RestKept
    BY <1>0, <1>2, NothingElse
  <2> QED
    BY <1>0, <1>2, <2>1, StepInv DEF Places, Creating, Unpromoted, Restoring
<1> QED
  BY <1>1, <1>2 DEF RestoreCheck

\* The copy that is promoted is the result the handler waits for.
LEMMA RestoreCopyInv ==
  ASSUME BackupInv, NEW t \in Tasks, RestoreCopy(t), UNCHANGED catalogueVars
  PROVE  BackupInv'
<1> DEFINE b == task[t].backup
           v == [target[b] EXCEPT !.partial = FALSE, !.done = TRUE]
           p == [task[t] EXCEPT !.at = "restoreUnlock", !.outcome = "ok"]
<1>0. /\ task[t].at = "restoreCopy" /\ b \in Backups /\ target[b] \in RestoreTarget
      /\ task[t] \in Task /\ task \in [Tasks -> Task] /\ target \in [Backups -> RestoreTarget]
      /\ UNCHANGED <<host, now, snapshot, staging, lockFile, catalogueVars>>
  BY TaskFacts DEF RestoreCopy
<1>1. CASE /\ target' = [target EXCEPT ![b].partial = FALSE, ![b].done = TRUE]
           /\ task' = [task EXCEPT ![t].at = "restoreUnlock", ![t].outcome = "ok"]
  <2>1. v \in RestoreTarget /\ v.done = TRUE /\ target' = [target EXCEPT ![b] = v]
    BY <1>0, <1>1 DEF RestoreTarget
  <2>2. RestKept
    BY <1>0, <2>1, OneTarget, UnchangedHost
  <2>3. target'[b].done
    BY <1>0, <2>1
  <2>4. p \in Task
    BY <1>0 DEF Task
  <2>5. MovesSoundly(t, p)
    BY <2>3, <2>4, GoToSoundly DEF Creating, Unpromoted, Restoring
  <2>6. task' = [task EXCEPT ![t] = p]
    BY <1>0, <1>1
  <2> HIDE DEF p
  <2> QED
    BY <1>0, <2>2, <2>5, <2>6, CallMoves
<1>2. CASE Failing(t, "restoreDiscard") /\ UNCHANGED target
  <2>1. RestKept
    BY <1>0, <1>2, NothingElse, UnchangedHost
  <2> QED
    BY <1>0, <1>2, <2>1, StepInv DEF Places, Creating, Unpromoted, Restoring
<1> QED
  BY <1>1, <1>2 DEF RestoreCopy

LEMMA RestoreDiscardInv ==
  ASSUME BackupInv, NEW t \in Tasks, RestoreDiscard(t), UNCHANGED catalogueVars
  PROVE  BackupInv'
<1> DEFINE b == task[t].backup
           v == [target[b] EXCEPT !.partial = FALSE]
<1>0. /\ task[t].at = "restoreDiscard" /\ b \in Backups /\ target[b] \in RestoreTarget
      /\ UNCHANGED <<now, snapshot, staging, lockFile, catalogueVars>>
      /\ GoTo(t, "restoreUnlock")
  BY TaskFacts DEF RestoreDiscard
<1>1. CASE target' = [target EXCEPT ![b].partial = FALSE] /\ NoFault
  <2>1. v \in RestoreTarget /\ v.done = target[b].done /\ target' = [target EXCEPT ![b] = v]
    BY <1>0, <1>1 DEF RestoreTarget
  <2>2. RestKept
    BY <1>0, <1>1, <2>1, OneTarget
  <2> QED
    BY <1>0, <2>2, StepInv DEF Places, Creating, Unpromoted, Restoring
<1>2. CASE Fault /\ UNCHANGED target
  <2>1. RestKept
    BY <1>0, <1>2, NothingElse
  <2> QED
    BY <1>0, <2>1, StepInv DEF Places, Creating, Unpromoted, Restoring
<1> QED
  BY <1>1, <1>2 DEF RestoreDiscard

LEMMA RestoreUnlockInv ==
  ASSUME BackupInv, NEW t \in Tasks, RestoreUnlock(t), UNCHANGED catalogueVars
  PROVE  BackupInv'
<1> DEFINE b == task[t].backup
           v == [target[b] EXCEPT !.locked = FALSE]
<1>0. /\ b \in Backups /\ target[b] \in RestoreTarget
      /\ UNCHANGED <<now, snapshot, staging, lockFile, catalogueVars>>
      /\ task[t].outcome \in {"none", "ok", "failed"}
  BY TaskFacts DEF RestoreUnlock, Task
<1>1. CASE /\ target' = [target EXCEPT ![b].locked = FALSE]
           /\ Return(t, task[t].outcome) /\ NoFault
  <2>1. v \in RestoreTarget /\ v.done = target[b].done /\ target' = [target EXCEPT ![b] = v]
    BY <1>0, <1>1 DEF RestoreTarget
  <2>2. RestKept
    BY <1>0, <1>1, <2>1, OneTarget
  <2> QED
    BY <1>0, <1>1, <2>2, ReturnInv
<1>2. CASE Fault /\ Return(t, "failed") /\ UNCHANGED target
  <2>1. RestKept
    BY <1>0, <1>2, NothingElse
  <2> QED
    BY <1>0, <1>2, <2>1, ReturnInv
<1> QED
  BY <1>1, <1>2 DEF RestoreUnlock

-----------------------------------------------------------------------------
(* The steps that take time, or change a snapshot.                            *)

\* The copy takes time; the call then promotes, or discards what it has.
LEMMA CreateCopyInv ==
  ASSUME BackupInv, NEW t \in Tasks, CreateCopy(t), UNCHANGED catalogueVars
  PROVE  BackupInv'
<1>0. /\ task[t].at = "copy" /\ now' = now + 1
      /\ UNCHANGED <<host, snapshot, staging, lockFile, target, catalogueVars>>
      /\ task[t] \in Task /\ task \in [Tasks -> Task]
  BY TaskFacts DEF CreateCopy
<1>1. RestKept
  BY <1>0, NothingElse, UnchangedHost
<1>2. PICK place \in {"promote", "discard"}, outcome \in {"none", "ok", "failed"} :
        task' = [task EXCEPT ![t] = [task[t] EXCEPT !.at = place, !.outcome = outcome]]
  <2>1. CASE GoTo(t, "promote")
    <3>1. [task[t] EXCEPT !.at = "promote"] =
             [task[t] EXCEPT !.at = "promote", !.outcome = task[t].outcome]
      BY <1>0 DEF Task
    <3>2. task' = [task EXCEPT ![t] = [task[t] EXCEPT !.at = "promote"]]
      BY <2>1 DEF GoTo
    <3>3. task[t].outcome \in {"none", "ok", "failed"}
      BY <1>0 DEF Task
    <3> QED
      BY <3>1, <3>2, <3>3
  <2>2. CASE Failing(t, "discard")
    BY <1>0, <2>2 DEF Failing
  <2> QED
    BY <2>1, <2>2 DEF CreateCopy
<1> DEFINE p == [task[t] EXCEPT !.at = place, !.outcome = outcome]
<1>3. p \in Task
  BY <1>0, <1>2 DEF Task
<1>4. ~(t = Handler /\ handler.at = "boot")
  BY <1>0, BootWaits DEF Restoring
<1>5. MovesSoundly(t, p)
  BY <1>0, <1>2, <1>3, <1>4, GoToSoundly DEF Creating, Unpromoted
<1> HIDE DEF p
<1> QED
  BY <1>0, <1>1, <1>2, <1>5, CallMovesInTime DEF p

\* A promoted snapshot finds room, and nobody was going to remove it.
LEMMA CreatePromoteInv ==
  ASSUME BackupInv, NEW t \in Tasks, CreatePromote(t), UNCHANGED catalogueVars
  PROVE  BackupInv'
<1> USE DEF BackupInv
<1> DEFINE b == task[t].backup
           new == [state |-> "stored", createdAt |-> task[t].createdAt]
           p == [task[t] EXCEPT !.at = "unlock", !.outcome = "ok"]
<1>0. /\ task[t].at = "promote" /\ b \in Backups
      /\ UNCHANGED <<now, lockFile, target, catalogueVars>>
      /\ UNCHANGED <<request, operation, job, verdict, row, exclusive, handler>>
      /\ task[t] \in Task /\ task \in [Tasks -> Task] /\ task[t].createdAt <= now
      /\ snapshot \in [Backups -> Snapshot]
  BY TaskFacts DEF CreatePromote, catalogueVars
<1>1. CASE /\ snapshot' = [snapshot EXCEPT ![b] = new]
           /\ staging' = staging \ {b}
           /\ task' = [task EXCEPT ![t].at = "unlock", ![t].outcome = "ok"]
           /\ NoFault
  <2>1. /\ p \in Task /\ p.at = "unlock" /\ p.backup = b /\ p.expired = task[t].expired
        /\ p.createdAt = task[t].createdAt
    BY <1>0 DEF Task
  <2>2. task' = [task EXCEPT ![t] = p]
    BY <1>0, <1>1
  <2> HIDE DEF p
  <2>3. /\ task' \in [Tasks -> Task] /\ task'[t] = p
        /\ \A r \in Tasks : r # t => task'[r] = task[r]
    BY <1>0, <2>1, <2>2
  <2>4. new \in Snapshot /\ new.state = "stored" /\ new.createdAt = task[t].createdAt
    BY <1>0 DEF Snapshot, Task
  <2> HIDE DEF new
  <2>5. /\ snapshot' \in [Backups -> Snapshot] /\ snapshot'[b] = new
        /\ \A c \in Backups : c # b => snapshot'[c] = snapshot[c]
    BY <1>0, <1>1, <2>4
  <2>6. /\ snapshot[b].state = "absent"
        /\ \A r \in Tasks : b \notin task[r].expired
    BY <1>0 DEF AwaitedIsUntouched, Awaited, Unpromoted
  <2>7. t = Handler /\ handler.at = "complete" /\ handler.work = <<"create", b>>
    BY <1>0 DEF CreatorIsHandler, Creating
  <2>8. job[<<"create", b>>] \in {"leased", "done"}
    BY <2>7 DEF HandlerHasJob, Kind
  <2>9. BackupTypeOK'
    BY <1>0, <1>1, <2>3, <2>5 DEF BackupTypeOK, NoFault
  <2>10. DatesPast'
    BY <1>0, <2>1, <2>3, <2>4, <2>5 DEF DiskInv, DatesPast
  <2>11. ASSUME NEW c \in Backups, c # b, Outlived(c) PROVE Outlived(c)'
    <3>1. \A d \in Newer(c) : d \in Backups /\ d # b /\ snapshot[d].state = "stored"
      BY <2>6 DEF Newer, Intact
    <3>2. \A d \in Newer(c) : /\ snapshot'[d].state = "stored"
                              /\ snapshot'[d].createdAt > snapshot'[c].createdAt
      BY <2>5, <2>11, <3>1 DEF Newer
    <3> QED
      BY <2>11, <3>1, <3>2, OutlivedNextBy DEF Outlived
  <2>12. RemovedIsOutlived'
    <3>1. \A c \in Backups : snapshot'[c].state = "removing" => Outlived(c)'
      BY <2>4, <2>5, <2>11 DEF DiskInv, RemovedIsOutlived
    <3>2. ASSUME NEW r \in Tasks, NEW c \in task'[r].expired, snapshot'[c].state # "absent"
          PROVE  Outlived(c)'
      <4>1. c \in task[r].expired /\ c # b
        BY <2>1, <2>3, <2>6, <3>2
      <4>2. c \in Backups
        BY <1>0, <4>1 DEF Task
      <4> QED
        BY <2>5, <2>11, <3>2, <4>1, <4>2 DEF DiskInv, RemovedIsOutlived
    <3>3. \A r \in Tasks : task'[r].at = "remove" => task'[r].backup \in task'[r].expired
      BY <2>1, <2>3 DEF DiskInv, RemovedIsOutlived
    <3> QED
      BY <3>1, <3>2, <3>3 DEF RemovedIsOutlived
  <2>13. ASSUME NEW r \in Tasks PROVE task'[r].at \notin {"copy", "promote"} /\
                                      task'[r].at \notin Unpromoted
    BY <2>1, <2>3, <2>7 DEF CreatorIsHandler, Creating, Unpromoted
  <2>14. RoomIsKept'
    BY <2>13 DEF RoomIsKept
  <2>15. WithinQuota'
    <3>1. Cardinality(Whole) + 1 <= host.quota
      BY <1>0 DEF DiskInv, RoomIsKept
    <3>2. Whole' = Whole \cup {b}
      BY <1>0, <2>4, <2>5 DEF Whole, Intact
    <3>a. Cardinality(Whole \cup {b}) =
             IF b \in Whole THEN Cardinality(Whole) ELSE Cardinality(Whole) + 1
      BY WholeIsFinite, FS_AddElement
    <3>b. Cardinality(Whole) \in Nat
      BY WholeIsFinite
    <3>3. Cardinality(Whole \cup {b}) <= Cardinality(Whole) + 1
      BY <3>a, <3>b
    <3>4. Cardinality(Whole \cup {b}) \in Nat
      BY <3>a, <3>b
    <3>5. host.quota \in Nat /\ host' = host
      BY <1>1 DEF BackupTypeOK, Host, NoFault
    <3>6. Cardinality(Whole)' <= host'.quota
      BY <3>1, <3>2, <3>3, <3>4, <3>5, WholeIsFinite
    <3> QED
      BY <3>6 DEF WithinQuota, Whole
  <2>16. CreatorIsHandler'
    BY <1>0, <2>1, <2>3, <2>7 DEF CreatorIsHandler
  <2>17. AwaitedIsUntouched'
    <3> SUFFICES ASSUME NEW c \in Backups, Awaited(c)'
                 PROVE  /\ snapshot'[c].state = "absent"
                        /\ \A r \in Tasks : c \notin task'[r].expired
      BY DEF AwaitedIsUntouched
    <3>1. Awaited(c)
      BY <1>0, <2>13 DEF Awaited
    <3>2. c # b
      BY <1>0, <2>7, <2>8, <2>13 DEF Awaited
    <3> QED
      BY <2>1, <2>3, <2>5, <3>1, <3>2 DEF AwaitedIsUntouched
  <2>18. /\ SuccessLeavesResult' /\ VerdictInv' /\ AskedOnce'
         /\ HandlerHasJob' /\ HandlerPlace' /\ HandlerHasResult'
    BY <1>0 DEF SuccessLeavesResult, VerdictInv, VerdictHasResult, VerdictHasJob, AskedOnce,
       HandlerHasJob, HandlerPlace, HandlerHasResult
  <2>19. RestoreAnswer'
    BY <1>0, <2>7 DEF RestoreAnswer
  <2> QED
    BY <2>9, <2>10, <2>12, <2>14, <2>15, <2>16, <2>17, <2>18, <2>19 DEF DiskInv
<1>2. CASE Fault /\ Failing(t, "discard") /\ UNCHANGED <<snapshot, staging>>
  <2>1. RestKept
    BY <1>0, <1>2, NothingElse
  <2> QED
    BY <1>0, <1>2, <2>1, StepInv DEF Places, Creating, Unpromoted, Restoring
<1> QED
  BY <1>1, <1>2 DEF CreatePromote

-----------------------------------------------------------------------------
(* pruneExpiredBackups.                                                       *)

LEMMA PruneLockInv ==
  ASSUME BackupInv, NEW t \in Tasks, PruneLock(t), UNCHANGED catalogueVars
  PROVE  BackupInv'
<1> DEFINE b == Newest(task[t].expired)
           p == [task[t] EXCEPT !.at = "remove", !.backup = b]
<1>0. /\ task[t].at = "pruneLock" /\ task[t].at \notin Restoring
      /\ UNCHANGED <<host, now, snapshot, staging, target, catalogueVars>>
      /\ task[t] \in Task /\ task \in [Tasks -> Task] /\ task[t].createdAt <= now
      /\ task[t].expired \subseteq Backups
  BY TaskFacts DEF PruneLock, Restoring, Task
<1>1. CASE Forget(t) /\ UNCHANGED lockFile
  <2>1. RestKept
    BY <1>0, <1>1, NothingElse, UnchangedHost
  <2> QED
    BY <1>0, <1>1, <2>1, ForgetInv
<1>2. CASE /\ task[t].expired # {} /\ lockFile' = lockFile \cup {b}
           /\ task' = [task EXCEPT ![t].at = "remove", ![t].backup = b]
  <2>1. b \in task[t].expired /\ b \in Backups
    BY <1>0, <1>2, NewestIsThere
  <2> HIDE DEF b
  <2>2. /\ p \in Task /\ p.at = "remove" /\ p.backup = b /\ p.expired = task[t].expired
        /\ p.createdAt = task[t].createdAt
    BY <1>0, <2>1 DEF Task
  <2>3. task' = [task EXCEPT ![t] = p]
    BY <1>0, <1>2
  <2>4. RestKept
    BY <1>0, <1>2, <2>1, OneFile, UnchangedHost
  <2>5. ~(t = Handler /\ handler.at = "boot")
    BY <1>0, BootWaits
  <2> HIDE DEF p
  <2>6. MovesSoundly(t, p)
    BY <1>0, <2>1, <2>2, <2>5 DEF MovesSoundly, Creating, Unpromoted
  <2> QED
    BY <1>0, <2>3, <2>4, <2>6, CallMoves
<1> QED
  BY <1>1, <1>2 DEF PruneLock

LEMMA PruneUnlockInv ==
  ASSUME BackupInv, NEW t \in Tasks, PruneUnlock(t), UNCHANGED catalogueVars
  PROVE  BackupInv'
<1> DEFINE b == task[t].backup
           p == [task[t] EXCEPT !.at = "pruneLock", !.expired = @ \ {b}]
<1>0. /\ task[t].at = "pruneUnlock" /\ task[t].at \notin Restoring /\ b \in Backups
      /\ UNCHANGED <<now, snapshot, staging, target, catalogueVars>>
      /\ task[t] \in Task /\ task \in [Tasks -> Task] /\ task[t].createdAt <= now
  BY TaskFacts DEF PruneUnlock, Restoring
<1>1. RestKept
  BY <1>0, OneFile DEF PruneUnlock
<1>2. CASE Forget(t)
  BY <1>0, <1>1, <1>2, ForgetInv
<1>3. CASE task' = [task EXCEPT ![t].at = "pruneLock", ![t].expired = @ \ {b}]
  <2>1. /\ p \in Task /\ p.at = "pruneLock" /\ p.backup = b
        /\ p.expired = task[t].expired \ {b} /\ p.createdAt = task[t].createdAt
    BY <1>0 DEF Task
  <2>2. task' = [task EXCEPT ![t] = p]
    BY <1>0, <1>3
  <2>3. ~(t = Handler /\ handler.at = "boot")
    BY <1>0, BootWaits
  <2> HIDE DEF p
  <2>4. MovesSoundly(t, p)
    BY <1>0, <2>1, <2>3 DEF MovesSoundly, Creating, Unpromoted
  <2> QED
    BY <1>0, <1>1, <2>2, <2>4, CallMoves
<1> QED
  BY <1>2, <1>3 DEF PruneUnlock

\* What is removed is outlived, and so is everything it outlived.
LEMMA PruneRemoveInv ==
  ASSUME BackupInv, NEW t \in Tasks, PruneRemove(t), UNCHANGED catalogueVars
  PROVE  BackupInv'
<1> USE DEF BackupInv
<1> DEFINE b == task[t].backup
<1>0. /\ task[t].at = "remove" /\ b \in Backups /\ b \in task[t].expired
      /\ UNCHANGED <<now, staging, lockFile, target, catalogueVars>>
      /\ UNCHANGED <<request, operation, job, verdict, row, exclusive, handler>>
      /\ task[t] \in Task /\ task \in [Tasks -> Task]
      /\ snapshot \in [Backups -> Snapshot]
      /\ \A c \in Backups : snapshot[c].createdAt \in Nat
  BY TaskFacts DEF PruneRemove, catalogueVars, DiskInv, RemovedIsOutlived, Snapshot
<1>f. CASE Fault /\ Failing(t, "pruneUnlock") /\ UNCHANGED snapshot
  <2>1. RestKept
    BY <1>0, <1>f, NothingElse
  <2> QED
    BY <1>0, <1>f, <2>1, StepInv DEF Places, Creating, Unpromoted, Restoring
<1>k. ASSUME NEW v \in Snapshot, snapshot' = [snapshot EXCEPT ![b] = v],
             v.state # "stored", v.createdAt <= now,
             v.state = "removing" => /\ snapshot[b].state # "absent"
                                     /\ v.createdAt = snapshot[b].createdAt,
             UNCHANGED host,
             task' \in [Tasks -> Task],
             \A r \in Tasks :
                /\ task'[r].at \in Creating \cup Restoring \cup {"remove"} => task'[r] = task[r]
                /\ task'[r].createdAt = task[r].createdAt
                /\ task'[r].expired = task[r].expired
                /\ task[r].at \in Restoring => task'[r] = task[r],
             \A c \in Backups : /\ c # b \/ v.state = "removing"
                                /\ Outlived(c)
                                => Outlived(c)'
      PROVE  BackupInv'
  <2>1. /\ snapshot' \in [Backups -> Snapshot] /\ snapshot'[b] = v
        /\ \A c \in Backups : c # b => snapshot'[c] = snapshot[c]
    BY <1>0, <1>k
  <2>2. BackupTypeOK'
    BY <1>0, <1>k, <2>1 DEF BackupTypeOK
  <2>3. DatesPast'
    BY <1>0, <1>k, <2>1 DEF DiskInv, DatesPast
  <2>4. RemovedIsOutlived'
    <3>0. snapshot[b].state # "absent" => Outlived(b)
      BY <1>0 DEF DiskInv, RemovedIsOutlived
    <3>1. ASSUME NEW c \in Backups, snapshot'[c].state = "removing" PROVE Outlived(c)'
      <4>1. CASE c = b
        BY <1>k, <2>1, <3>0, <3>1, <4>1
      <4>2. CASE c # b
        <5>1. Outlived(c)
          BY <2>1, <3>1, <4>2 DEF DiskInv, RemovedIsOutlived
        <5> QED
          BY <1>k, <4>2, <5>1
      <4> QED
        BY <4>1, <4>2
    <3>2. ASSUME NEW r \in Tasks, NEW c \in task'[r].expired, snapshot'[c].state # "absent"
          PROVE  Outlived(c)'
      <4>1. c \in task[r].expired /\ c \in Backups
        BY <1>0, <1>k, <3>2 DEF Task
      <4>2. CASE c = b
        <5>1. v.state \in {"absent", "stored", "removing"}
          BY <1>k DEF Snapshot
        <5>2. v.state = "removing"
          BY <1>k, <2>1, <3>2, <4>2, <5>1
        <5> QED
          BY <1>k, <3>0, <4>1, <4>2, <5>2
      <4>3. CASE c # b
        <5>1. snapshot[c].state # "absent"
          BY <2>1, <3>2, <4>1, <4>3
        <5>2. Outlived(c)
          BY <4>1, <5>1 DEF DiskInv, RemovedIsOutlived
        <5> QED
          BY <1>k, <4>1, <4>3, <5>2
      <4> QED
        BY <4>2, <4>3
    <3>3. \A r \in Tasks : task'[r].at = "remove" => task'[r].backup \in task'[r].expired
      BY <1>k DEF DiskInv, RemovedIsOutlived
    <3> QED
      BY <3>1, <3>2, <3>3 DEF RemovedIsOutlived
  <2>5. Cardinality(Whole') <= Cardinality(Whole) /\ Cardinality(Whole') \in Nat
    <3>1. Whole' \subseteq Whole
      BY <1>k, <2>1 DEF Whole, Intact
    <3> QED
      BY <3>1, WholeIsFinite, FS_Subset, FS_CardinalityType
  <2>6. host.quota \in Nat /\ host' = host /\ Cardinality(Whole) \in Nat
    BY <1>k, WholeIsFinite DEF BackupTypeOK, Host
  <2>7. RoomIsKept'
    <3>1. ASSUME NEW r \in Tasks, task'[r].at \in {"copy", "promote"}
          PROVE  Cardinality(Whole') + 1 <= host'.quota
      <4>1. task[r].at \in {"copy", "promote"}
        BY <1>k, <3>1 DEF Creating
      <4>2. Cardinality(Whole) + 1 <= host.quota
        BY <4>1 DEF DiskInv, RoomIsKept
      <4> QED
        BY <2>5, <2>6, <4>2
    <3> QED
      BY <3>1 DEF RoomIsKept
  <2>8. WithinQuota'
    <3>1. Cardinality(Whole) <= host.quota
      BY DEF DiskInv, WithinQuota, Whole
    <3>2. Cardinality(Whole') <= host'.quota
      BY <2>5, <2>6, <3>1
    <3> QED
      BY <3>2 DEF WithinQuota, Whole
  <2>9. CreatorIsHandler'
    BY <1>0, <1>k DEF CreatorIsHandler
  <2>10. AwaitedIsUntouched'
    <3>1. \A c \in Backups : Awaited(c)' => Awaited(c)
      BY <1>0, <1>k DEF Awaited, Unpromoted, Creating
    <3>2. ~Awaited(b)
      BY <1>0 DEF AwaitedIsUntouched
    <3> QED
      BY <1>k, <2>1, <3>1, <3>2 DEF AwaitedIsUntouched
  <2>11. /\ SuccessLeavesResult' /\ VerdictInv' /\ AskedOnce'
         /\ HandlerHasJob' /\ HandlerPlace' /\ HandlerHasResult'
    BY <1>0 DEF SuccessLeavesResult, VerdictInv, VerdictHasResult, VerdictHasJob, AskedOnce,
       HandlerHasJob, HandlerPlace, HandlerHasResult
  <2>12. RestoreAnswer'
    BY <1>0, <1>k DEF RestoreAnswer
  <2> QED
    BY <2>2, <2>3, <2>4, <2>7, <2>8, <2>9, <2>10, <2>11, <2>12 DEF DiskInv
<1>1. CASE /\ snapshot[b].state = "stored"
           /\ snapshot' = [snapshot EXCEPT ![b].state = "removing"]
           /\ UNCHANGED task /\ NoFault
  <2> DEFINE v == [snapshot[b] EXCEPT !.state = "removing"]
  <2>1. /\ v \in Snapshot /\ v.state = "removing" /\ v.createdAt = snapshot[b].createdAt
        /\ snapshot' = [snapshot EXCEPT ![b] = v]
    BY <1>0, <1>1 DEF Snapshot
  <2> HIDE DEF v
  <2>2. /\ \A c \in Backups : c # b => snapshot'[c] = snapshot[c]
        /\ snapshot'[b].createdAt = snapshot[b].createdAt
    BY <1>0, <2>1
  <2>3. Outlived(b)
    BY <1>0, <1>1 DEF DiskInv, RemovedIsOutlived
  <2>4. \A c \in Backups : /\ snapshot'[c].createdAt = snapshot[c].createdAt
                           /\ c # b => snapshot'[c].state = snapshot[c].state
    BY <2>2
  <2>5. ASSUME NEW c \in Backups, NEW d \in Newer(c), d # b
        PROVE  snapshot'[d].state = "stored" /\ snapshot'[d].createdAt > snapshot'[c].createdAt
    BY <2>4, <2>5 DEF Newer, Intact
  <2>6. ASSUME NEW c \in Backups, Outlived(c) PROVE Outlived(c)'
    <3>1. CASE b \notin Newer(c)
      <4>1. Newer(c) \subseteq Backups /\ Cardinality(Newer(c)) >= KeepLatest
        BY <2>6 DEF Outlived, Newer
      <4> QED
        BY <2>5, <3>1, <4>1, OutlivedNextBy
    <3>2. CASE b \in Newer(c)
      <4>1. Newer(b) \subseteq Backups /\ Cardinality(Newer(b)) >= KeepLatest
        BY <2>3 DEF Outlived, Newer
      <4>2. \A d \in Newer(b) : d \in Newer(c) /\ d # b
        BY <1>0, <3>2 DEF Newer
      <4> QED
        BY <2>5, <4>1, <4>2, OutlivedNextBy
    <3> QED
      BY <3>1, <3>2
  <2>7. v.createdAt <= now
    BY <1>0, <2>1 DEF DiskInv, DatesPast
  <2> QED
    BY <1>0, <1>1, <1>k, <2>1, <2>6, <2>7 DEF NoFault
<1>2. CASE /\ snapshot[b].state # "stored"
           /\ snapshot' = [snapshot EXCEPT ![b] = [state |-> "absent", createdAt |-> 0]]
           /\ GoTo(t, "pruneUnlock") /\ NoFault
  <2> DEFINE v == [state |-> "absent", createdAt |-> 0]
             p == [task[t] EXCEPT !.at = "pruneUnlock"]
  <2>1. v \in Snapshot /\ v.state = "absent" /\ v.createdAt = 0
    BY DEF Snapshot
  <2>2. /\ p \in Task /\ p.at = "pruneUnlock" /\ p.expired = task[t].expired
        /\ p.createdAt = task[t].createdAt
        /\ task' = [task EXCEPT ![t] = p]
    BY <1>0, <1>2 DEF Task, GoTo
  <2>3. snapshot' = [snapshot EXCEPT ![b] = v]
    BY <1>2
  <2> HIDE DEF v, p
  <2>4. /\ task' \in [Tasks -> Task] /\ task'[t] = p
        /\ \A r \in Tasks : r # t => task'[r] = task[r]
    BY <1>0, <2>2
  <2>5. \A c \in Backups : c # b => snapshot'[c] = snapshot[c]
    BY <1>0, <2>3
  <2>6. ASSUME NEW c \in Backups, c # b, Outlived(c) PROVE Outlived(c)'
    <3>1. \A d \in Newer(c) : /\ d \in Backups
                              /\ snapshot'[d].state = "stored"
                              /\ snapshot'[d].createdAt > snapshot'[c].createdAt
      BY <1>2, <2>5, <2>6 DEF Newer, Intact
    <3> QED
      BY <2>6, <3>1, OutlivedNextBy DEF Outlived
  <2>7. \A r \in Tasks :
          /\ task'[r].at \in Creating \cup Restoring \cup {"remove"} => task'[r] = task[r]
          /\ task'[r].createdAt = task[r].createdAt
          /\ task'[r].expired = task[r].expired
          /\ task[r].at \in Restoring => task'[r] = task[r]
    BY <1>0, <2>2, <2>4 DEF Creating, Restoring
  <2>8. v.createdAt <= now
    BY <2>1 DEF BackupTypeOK
  <2> QED
    BY <1>2, <1>k, <2>1, <2>3, <2>4, <2>6, <2>7, <2>8 DEF NoFault
<1> QED
  BY <1>f, <1>1, <1>2 DEF PruneRemove

-----------------------------------------------------------------------------
(* Steps of the catalogue: the disk stays, calls begin and are forgotten.     *)

\* The calls after a step of the handler are sound.
SoundTasks ==
    /\ task' \in [Tasks -> Task]
    /\ \A t \in Tasks :
          /\ task'[t].createdAt <= now
          /\ \A b \in task'[t].expired :
                b \in task[t].expired \/ (snapshot[b].state # "absent" /\ Outlived(b))
          /\ task'[t].at = "remove" => task'[t].backup \in task'[t].expired
          /\ task'[t].at \in {"copy", "promote"} => task[t].at \in {"copy", "promote"}

LEMMA SameTasks ==
  ASSUME BackupInv, UNCHANGED task PROVE SoundTasks
BY DEF BackupInv, BackupTypeOK, DiskInv, DatesPast, RemovedIsOutlived, SoundTasks

LEMMA OneTask ==
  ASSUME BackupInv, NEW t \in Tasks, NEW p \in Task, task' = [task EXCEPT ![t] = p],
         p.createdAt <= now, p.at \notin {"remove", "copy", "promote"},
         \A b \in p.expired : snapshot[b].state # "absent" /\ Outlived(b)
  PROVE  SoundTasks
<1>1. /\ task \in [Tasks -> Task] /\ task' \in [Tasks -> Task] /\ task'[t] = p
      /\ \A r \in Tasks : r # t => task'[r] = task[r]
  BY DEF BackupInv, BackupTypeOK
<1>2. \A r \in Tasks : /\ task[r].createdAt <= now
                       /\ task[r].at = "remove" => task[r].backup \in task[r].expired
  BY DEF BackupInv, DiskInv, DatesPast, RemovedIsOutlived
<1> QED
  BY <1>1, <1>2 DEF SoundTasks

LEMMA NoTaskIsSound ==
  ASSUME BackupInv
  PROVE  /\ NoTask \in Task /\ NoTask.createdAt <= now /\ NoTask.at = "idle"
         /\ NoTask.expired = {}
<1>1. now \in Nat
  BY DEF BackupInv, BackupTypeOK
<1> QED
  BY <1>1, NoTaskType DEF NoTask

LEMMA ForgottenTask ==
  ASSUME BackupInv, NEW t \in Tasks, Forget(t) PROVE SoundTasks
BY NoTaskIsSound, OneTask DEF Forget

LEMMA DiskKept ==
  ASSUME BackupInv, SoundTasks, host' \in Host, host'.quota = host.quota,
         UNCHANGED <<now, snapshot, staging, lockFile, target>>,
         \A b \in Backups : Awaited(b)' => Awaited(b)
  PROVE  DiskInv' /\ AwaitedIsUntouched'
<1> USE DEF BackupInv
<1>0. task' \in [Tasks -> Task] /\ \A t \in Tasks : task'[t].expired \subseteq Backups
  BY DEF SoundTasks, Task
<1>1. DatesPast'
  BY DEF DiskInv, DatesPast, SoundTasks
<1>2. \A b \in Backups : Outlived(b)' <=> Outlived(b)
  BY DEF Outlived, Newer, Intact
<1>3. RemovedIsOutlived'
  <2>1. \A b \in Backups : snapshot'[b].state = "removing" => Outlived(b)'
    BY <1>2 DEF DiskInv, RemovedIsOutlived
  <2>2. \A t \in Tasks : \A b \in task'[t].expired :
            snapshot'[b].state # "absent" => Outlived(b)'
    BY <1>0, <1>2 DEF DiskInv, RemovedIsOutlived, SoundTasks
  <2>3. \A t \in Tasks : task'[t].at = "remove" => task'[t].backup \in task'[t].expired
    BY DEF SoundTasks
  <2> QED
    BY <2>1, <2>2, <2>3 DEF RemovedIsOutlived
<1>4. Whole' = Whole
  BY DEF Whole, Intact
<1>5. RoomIsKept'
  BY <1>4 DEF DiskInv, RoomIsKept, SoundTasks
<1>6. WithinQuota'
  BY <1>4 DEF DiskInv, WithinQuota, Whole, Intact
<1>7. AwaitedIsUntouched'
  <2> SUFFICES ASSUME NEW b \in Backups, Awaited(b)'
               PROVE  /\ snapshot'[b].state = "absent"
                      /\ \A t \in Tasks : b \notin task'[t].expired
    BY DEF AwaitedIsUntouched
  <2>1. snapshot[b].state = "absent" /\ \A t \in Tasks : b \notin task[t].expired
    BY DEF AwaitedIsUntouched
  <2> QED
    BY <2>1 DEF SoundTasks
<1> QED
  BY <1>1, <1>3, <1>5, <1>6, <1>7 DEF DiskInv

\* The same, when nothing of the disk changes and no call begins or ends.
LEMMA DiskSame ==
  ASSUME BackupInv, UNCHANGED diskVars, \A b \in Backups : Awaited(b)' => Awaited(b)
  PROVE  /\ DiskInv' /\ AwaitedIsUntouched'
         /\ UNCHANGED <<host, now, snapshot, staging, lockFile, target, task>>
<1>1. UNCHANGED <<host, now, snapshot, staging, lockFile, target, task>>
  BY DEF diskVars
<1>2. host \in Host
  BY DEF BackupInv, BackupTypeOK
<1> QED
  BY <1>1, <1>2, SameTasks, DiskKept

-----------------------------------------------------------------------------
(* Requests.                                                                  *)

\* A step of the requests, jobs or verdicts, which leaves the handler and the
\* files alone.
LEMMA ApiSteps ==
  ASSUME BackupInv, UNCHANGED <<now, snapshot, staging, lockFile, target, task, handler>>,
         host' \in Host, host'.quota = host.quota,
         exclusive' \in {"free", "agent", "other"},
         request' \in [Works -> Request], operation' \in [Works -> OperationStatus],
         job' \in [Works -> {"none", "queued", "leased", "done"}],
         verdict' \in [Works -> Verdict],
         row' \in [Backups -> {"none", "creating", "available", "failed", "pruned"}],
         \A b \in Backups : row[b] = "available" => row'[b] = "available",
         \A w \in Works : operation'[w] = "succeeded" =>
                             operation[w] = "succeeded" \/ verdict[w].outcome = "succeeded",
         \A w \in Works : verdict'[w].outcome = "succeeded" => verdict[w].outcome = "succeeded",
         \A b \in Backups : b \notin Existing /\ job'[<<"create", b>>] \in {"none", "queued"} =>
                               job[<<"create", b>>] \in {"none", "queued"},
         \A b \in Backups : job[<<"create", b>>] \in {"leased", "done"} =>
                               job'[<<"create", b>>] \in {"leased", "done"},
         AskedOnce', VerdictHasJob'
  PROVE  BackupInv'
<1> USE DEF BackupInv
<1>1. \A b \in Backups : Awaited(b)' => Awaited(b)
  BY DEF Awaited
<1>2. DiskInv' /\ AwaitedIsUntouched'
  BY <1>1, SameTasks, DiskKept
<1>3. BackupTypeOK'
  BY DEF BackupTypeOK
<1>4. CreatorIsHandler' /\ HandlerPlace' /\ RestoreAnswer'
  BY DEF CreatorIsHandler, HandlerPlace, RestoreAnswer
<1>5. SuccessLeavesResult'
  <2> SUFFICES ASSUME NEW b \in Backups
               PROVE  /\ operation'[<<"create", b>>] = "succeeded" => row'[b] = "available"
                      /\ operation'[<<"restore", b>>] = "succeeded" => target[b].done
    BY DEF SuccessLeavesResult
  <2>1. /\ Kind(<<"create", b>>) = "create" /\ Of(<<"create", b>>) = b
        /\ Kind(<<"restore", b>>) = "restore" /\ Of(<<"restore", b>>) = b
    BY DEF Kind, Of
  <2> QED
    BY <2>1, WorkTypes DEF SuccessLeavesResult, VerdictInv, VerdictHasResult
<1>v. VerdictInv'
  BY WorkTypes DEF VerdictInv, VerdictHasResult
<1>6. HandlerHasJob'
  BY WorkTypes DEF HandlerHasJob
<1>7. HandlerHasResult'
  <2>1. handler.at # "idle" => Of(handler.work) \in Backups
    BY WorkTypes DEF HandlerHasJob
  <2> QED
    BY <2>1 DEF HandlerHasResult
<1> QED
  BY <1>2, <1>3, <1>4, <1>5, <1>v, <1>6, <1>7

\* The same, when nothing fails and no success is settled.
LEMMA RequestSteps ==
  ASSUME BackupInv, UNCHANGED diskVars, UNCHANGED <<verdict, handler>>,
         exclusive' \in {"free", "agent", "other"},
         request' \in [Works -> Request], operation' \in [Works -> OperationStatus],
         job' \in [Works -> {"none", "queued", "leased", "done"}],
         row' \in [Backups -> {"none", "creating", "available", "failed", "pruned"}],
         \A b \in Backups : row[b] = "available" => row'[b] = "available",
         \A w \in Works : operation'[w] = "succeeded" => operation[w] = "succeeded",
         \A b \in Backups : b \notin Existing /\ job'[<<"create", b>>] \in {"none", "queued"} =>
                               job[<<"create", b>>] \in {"none", "queued"},
         \A b \in Backups : job[<<"create", b>>] \in {"leased", "done"} =>
                               job'[<<"create", b>>] \in {"leased", "done"},
         AskedOnce'
  PROVE  BackupInv'
<1>1. UNCHANGED <<host, now, snapshot, staging, lockFile, target, task>>
  BY DEF diskVars
<1>2. host \in Host /\ verdict \in [Works -> Verdict] /\ VerdictHasJob'
  BY DEF BackupInv, BackupTypeOK, VerdictInv, VerdictHasJob
<1> QED
  BY <1>1, <1>2, ApiSteps

LEMMA RowTypes ==
  ASSUME BackupInv
  PROVE  /\ request \in [Works -> Request] /\ operation \in [Works -> OperationStatus]
         /\ job \in [Works -> {"none", "queued", "leased", "done"}]
         /\ verdict \in [Works -> Verdict]
         /\ row \in [Backups -> {"none", "creating", "available", "failed", "pruned"}]
         /\ exclusive \in {"free", "agent", "other"}
         /\ handler \in Handling /\ AskedOnce
BY DEF BackupInv, BackupTypeOK

LEMMA RequestBackupInv ==
  ASSUME BackupInv, NEW b \in Backups, RequestBackup(b) PROVE BackupInv'
<1>1. AskedOnce'
  BY RowTypes, WorkTypes DEF RequestBackup, AskedOnce
<1>2. request' \in [Works -> Request]
  BY RowTypes, WorkTypes DEF RequestBackup, Request
<1> QED
  BY <1>1, <1>2, RowTypes, RequestSteps DEF RequestBackup

LEMMA RequestRestoreInv ==
  ASSUME BackupInv, NEW b \in Backups, RequestRestore(b) PROVE BackupInv'
<1>1. AskedOnce'
  BY RowTypes, WorkTypes DEF RequestRestore, AskedOnce
<1>2. request' \in [Works -> Request]
  BY RowTypes, WorkTypes DEF RequestRestore, Request
<1> QED
  BY <1>1, <1>2, RowTypes, RequestSteps DEF RequestRestore

LEMMA AcceptOperationInv ==
  ASSUME BackupInv, NEW w \in Works, AcceptOperation(w) PROVE BackupInv'
<1>1. AskedOnce'
  <2> SUFFICES ASSUME NEW b \in Backups
               PROVE  /\ row'[b] # "none" => request'[<<"create", b>>] = "done"
                      /\ request'[<<"create", b>>] \in {"none", "accept", "queue"} =>
                            job'[<<"create", b>>] = "none"
                      /\ b \in Existing => /\ request'[<<"create", b>>] = "done"
                                           /\ job'[<<"create", b>>] = "none"
    BY DEF AskedOnce
  <2>1. CASE w = <<"create", b>>
    <3>1. request[w] = "accept" /\ request'[w] \in {"queue", "done"} /\ job' = job /\ row' = row
      BY RowTypes DEF AcceptOperation
    <3>2. row[b] = "none" /\ job[w] = "none" /\ b \notin Existing
      BY <2>1, <3>1, RowTypes DEF AskedOnce
    <3> QED
      BY <2>1, <3>1, <3>2
  <2>2. CASE w # <<"create", b>>
    <3> DEFINE v == <<"create", b>>
    <3>1. v \in Works
      BY WorkTypes
    <3> HIDE DEF v
    <3>2. request'[v] = request[v] /\ job' = job /\ row' = row
      BY <2>2, <3>1, RowTypes DEF AcceptOperation, v
    <3> QED
      BY <3>2, RowTypes DEF AskedOnce, v
  <2> QED
    BY <2>1, <2>2
<1>2. /\ request' \in [Works -> Request] /\ operation' \in [Works -> OperationStatus]
      /\ \A v \in Works : operation'[v] = "succeeded" => operation[v] = "succeeded"
  BY RowTypes DEF AcceptOperation, Request, OperationStatus
<1> QED
  BY <1>1, <1>2, RowTypes, RequestSteps DEF AcceptOperation

LEMMA QueueOperationInv ==
  ASSUME BackupInv, NEW w \in Works, QueueOperation(w) PROVE BackupInv'
<1>1. /\ request' \in [Works -> Request]
      /\ job' \in [Works -> {"none", "queued", "leased", "done"}]
  BY RowTypes DEF QueueOperation, Request
<1>2. \A b \in Backups : w = <<"create", b>> => Kind(w) = "create" /\ job[w] = "none"
                                                /\ row[b] = "none" /\ b \notin Existing
  BY RowTypes, WorkTypes DEF QueueOperation, AskedOnce, Kind
<1>3. AskedOnce'
  <2> SUFFICES ASSUME NEW b \in Backups
               PROVE  /\ row'[b] # "none" => request'[<<"create", b>>] = "done"
                      /\ request'[<<"create", b>>] \in {"none", "accept", "queue"} =>
                            job'[<<"create", b>>] = "none"
                      /\ b \in Existing => /\ request'[<<"create", b>>] = "done"
                                           /\ job'[<<"create", b>>] = "none"
    BY DEF AskedOnce
  <2>1. CASE w = <<"create", b>>
    BY <1>2, <2>1, RowTypes DEF QueueOperation
  <2>2. CASE w # <<"create", b>>
    BY <2>2, RowTypes, WorkTypes DEF QueueOperation, AskedOnce
  <2> QED
    BY <2>1, <2>2
<1>4. \A b \in Backups : job'[<<"create", b>>] \in {"none", "queued"} =>
                            job[<<"create", b>>] \in {"none", "queued"}
  BY <1>2, RowTypes, WorkTypes DEF QueueOperation
<1>5. \A b \in Backups : job[<<"create", b>>] \in {"leased", "done"} =>
                            job'[<<"create", b>>] \in {"leased", "done"}
  BY <1>2, RowTypes, WorkTypes DEF QueueOperation
<1> QED
  BY <1>1, <1>3, <1>4, <1>5, RowTypes, RequestSteps DEF QueueOperation

LEMMA LinkOperationInv ==
  ASSUME BackupInv, NEW w \in Works, LinkOperation(w) PROVE BackupInv'
<1>0. PICK at \in {"begin", "done"} : request' = [request EXCEPT ![w] = at]
  BY DEF LinkOperation
<1>1. /\ request' \in [Works -> Request] /\ operation' \in [Works -> OperationStatus]
      /\ \A v \in Works : operation'[v] = "succeeded" => operation[v] = "succeeded"
  BY <1>0, RowTypes DEF LinkOperation, Request, OperationStatus
<1>2. \A v \in Works : \/ request'[v] = request[v]
                       \/ request[v] = "link" /\ request'[v] \notin {"none", "accept", "queue"}
  BY <1>0, RowTypes DEF LinkOperation
<1>3. AskedOnce'
  BY <1>2, RowTypes, WorkTypes DEF LinkOperation, AskedOnce
<1> QED
  BY <1>1, <1>3, RowTypes, RequestSteps DEF LinkOperation

LEMMA BeginBackupInv ==
  ASSUME BackupInv, NEW b \in Backups, BeginBackup(b) PROVE BackupInv'
<1>1. request[<<"create", b>>] = "begin" /\ row[b] = "none"
  BY RowTypes DEF BeginBackup, AskedOnce
<1>2. /\ request' \in [Works -> Request]
      /\ row' \in [Backups -> {"none", "creating", "available", "failed", "pruned"}]
      /\ \A c \in Backups : row[c] = "available" => row'[c] = "available"
  <2> DEFINE w == <<"create", b>>
  <2>1. w \in Works /\ request' = [request EXCEPT ![w] = "done"]
    BY WorkTypes DEF BeginBackup
  <2> HIDE DEF w
  <2>2. request' \in [Works -> Request]
    BY <2>1, RowTypes DEF Request
  <2>3. row' = row \/ row' = [row EXCEPT ![b] = "creating"]
    BY DEF BeginBackup
  <2> QED
    BY <1>1, <2>2, <2>3, RowTypes
<1>3. AskedOnce'
  <2> SUFFICES ASSUME NEW c \in Backups
               PROVE  /\ row'[c] # "none" => request'[<<"create", c>>] = "done"
                      /\ request'[<<"create", c>>] \in {"none", "accept", "queue"} =>
                            job'[<<"create", c>>] = "none"
                      /\ c \in Existing => /\ request'[<<"create", c>>] = "done"
                                           /\ job'[<<"create", c>>] = "none"
    BY DEF AskedOnce
  <2>1. CASE c = b
    BY <1>1, <2>1, RowTypes, WorkTypes DEF BeginBackup, AskedOnce
  <2>2. CASE c # b
    BY <2>2, RowTypes, WorkTypes DEF BeginBackup, AskedOnce
  <2> QED
    BY <2>1, <2>2
<1> QED
  BY <1>2, <1>3, RowTypes, RequestSteps DEF BeginBackup

\* The end of a job, by its result or by its lease.
LEMMA JobEndInv ==
  ASSUME BackupInv, NEW w \in Works, CloseJob(w) \/ ReclaimJob(w) PROVE BackupInv'
<1>0. /\ job' = [job EXCEPT ![w] = "done"]
      /\ UNCHANGED <<diskVars, request, operation, row, exclusive, handler>>
      /\ \/ verdict' = [verdict EXCEPT ![w].at = "find"]
         \/ verdict' = [verdict EXCEPT ![w] = [at |-> "find", outcome |-> "failed"]]
  BY DEF CloseJob, ReclaimJob
<1>1. /\ job' \in [Works -> {"none", "queued", "leased", "done"}]
      /\ \A v \in Works : /\ job[v] \in {"leased", "done"} => job'[v] \in {"leased", "done"}
                          /\ job'[v] \in {"none", "queued"} => job'[v] = job[v]
  BY <1>0, RowTypes
<1>2. /\ verdict' \in [Works -> Verdict]
      /\ \A v \in Works : verdict'[v].outcome = "succeeded" => verdict[v].outcome = "succeeded"
  BY <1>0, RowTypes DEF Verdict
<1>3. \A b \in Backups : w = <<"create", b>> => job[w] \in {"leased", "done"}
  BY DEF CloseJob, ReclaimJob, BackupInv, VerdictInv, VerdictHasJob
<1>4. AskedOnce' /\ VerdictHasJob'
  <2> SUFFICES ASSUME NEW b \in Backups
               PROVE  /\ job[<<"create", b>>] = "none" => job'[<<"create", b>>] = "none"
                      /\ verdict'[<<"create", b>>].at = "close" =>
                            /\ verdict[<<"create", b>>].at = "close"
                            /\ job[<<"create", b>>] \in {"leased", "done"}
    BY <1>0, <1>1, RowTypes, WorkTypes
       DEF AskedOnce, BackupInv, VerdictInv, VerdictHasJob
  <2>1. CASE w = <<"create", b>>
    <3>1. verdict[w] \in Verdict /\ w \in DOMAIN verdict
      BY RowTypes
    <3>2. verdict'[w].at = "find"
      BY <1>0, <3>1 DEF Verdict
    <3>3. job[w] # "none"
      BY <1>3, <2>1
    <3> QED
      BY <2>1, <3>2, <3>3
  <2>2. CASE w # <<"create", b>>
    <3> DEFINE v == <<"create", b>>
    <3>1. v \in Works /\ v # w
      BY <2>2, WorkTypes
    <3> HIDE DEF v
    <3>2. job'[v] = job[v] /\ verdict'[v] = verdict[v]
      BY <1>0, <3>1, RowTypes
    <3> QED
      BY <3>2 DEF BackupInv, VerdictInv, VerdictHasJob, v
  <2> QED
    BY <2>1, <2>2
<1>5. UNCHANGED <<host, now, snapshot, staging, lockFile, target, task>> /\ host \in Host
  BY <1>0 DEF diskVars, BackupInv, BackupTypeOK
<1> QED
  BY <1>0, <1>1, <1>2, <1>4, <1>5, RowTypes, WorkTypes, ApiSteps

\* What is found is to be settled; what is not is dropped.
LEMMA SettlementInv ==
  ASSUME BackupInv, NEW w \in Works, FindOperation(w) \/ SettleOperation(w) PROVE BackupInv'
<1>0. /\ \/ verdict' = [verdict EXCEPT ![w].at = "settle"] /\ operation' = operation
         \/ verdict' = [verdict EXCEPT ![w] = NoVerdict] /\ operation' = operation
         \/ /\ verdict' = [verdict EXCEPT ![w] = NoVerdict]
            /\ operation' = [operation EXCEPT ![w] = verdict[w].outcome]
      /\ UNCHANGED <<diskVars, request, job, row, exclusive, handler>>
  BY RowTypes DEF FindOperation, SettleOperation
<1>1. /\ NoVerdict \in Verdict /\ NoVerdict.outcome = "failed" /\ NoVerdict.at = "none"
      /\ verdict \in [Works -> Verdict] /\ operation \in [Works -> OperationStatus]
      /\ verdict[w].outcome \in {"succeeded", "failed"}
  BY RowTypes DEF Verdict, NoVerdict
<1>2. /\ verdict' \in [Works -> Verdict]
      /\ \A v \in Works : /\ verdict'[v].outcome = "succeeded" => verdict[v].outcome = "succeeded"
                          /\ verdict'[v].at = "close" => verdict[v].at = "close"
  BY <1>0, <1>1 DEF Verdict
<1>3. /\ operation' \in [Works -> OperationStatus]
      /\ \A v \in Works : operation'[v] = "succeeded" =>
                            operation[v] = "succeeded" \/ verdict[v].outcome = "succeeded"
  BY <1>0, <1>1 DEF OperationStatus
<1>4. AskedOnce' /\ VerdictHasJob'
  BY <1>0, <1>2, RowTypes, WorkTypes DEF AskedOnce, BackupInv, VerdictInv, VerdictHasJob
<1>5. UNCHANGED <<host, now, snapshot, staging, lockFile, target, task>> /\ host \in Host
  BY <1>0 DEF diskVars, BackupInv, BackupTypeOK
<1> QED
  BY <1>0, <1>2, <1>3, <1>4, <1>5, RowTypes, ApiSteps

\* The control API dies: requests end, and verdicts are lost.
LEMMA ApiDiesInv == ASSUME BackupInv, ApiDies PROVE BackupInv'
<1>0. /\ UNCHANGED <<now, snapshot, staging, lockFile, target, task>>
      /\ UNCHANGED <<operation, job, row, exclusive, handler>>
      /\ host' \in Host /\ host'.quota = host.quota
  BY FaultKeepsQuota DEF ApiDies
<1>1. /\ request' \in [Works -> Request]
      /\ \A w \in Works : request'[w] = request[w] \/ request'[w] = "done"
  BY RowTypes DEF ApiDies, Request
<1>2. /\ verdict' \in [Works -> Verdict]
      /\ \A w \in Works : /\ verdict'[w].outcome = "succeeded" => verdict[w].outcome = "succeeded"
                          /\ verdict'[w].at = "close" => verdict[w].at = "close"
  BY RowTypes DEF ApiDies, Verdict, NoVerdict
<1>3. AskedOnce' /\ VerdictHasJob'
  BY <1>0, <1>1, <1>2, RowTypes, WorkTypes DEF AskedOnce, BackupInv, VerdictInv, VerdictHasJob
<1> QED
  BY <1>0, <1>1, <1>2, <1>3, RowTypes, ApiSteps

LEMMA OtherWorkInv ==
  ASSUME BackupInv, OtherWorkLocks \/ OtherWorkEnds PROVE BackupInv'
<1>1. exclusive' \in {"free", "agent", "other"}
      /\ UNCHANGED <<diskVars, request, operation, job, verdict, row, handler>>
  BY DEF OtherWorkLocks, OtherWorkEnds
<1>2. AskedOnce'
  BY <1>1, RowTypes DEF AskedOnce
<1> QED
  BY <1>1, <1>2, RowTypes, RequestSteps

-----------------------------------------------------------------------------
(* The handler.                                                               *)

\* A step of the handler that begins or ends no call of createBackup.
LEMMA HandlerSteps ==
  ASSUME BackupInv, SoundTasks, host' \in Host, host'.quota = host.quota,
         UNCHANGED <<now, snapshot, staging, lockFile, target>>,
         \A b \in Backups : Awaited(b)' => Awaited(b),
         UNCHANGED request,
         exclusive' \in {"free", "agent", "other"},
         operation' \in [Works -> OperationStatus],
         job' \in [Works -> {"none", "queued", "leased", "done"}],
         row' \in [Backups -> {"none", "creating", "available", "failed", "pruned"}],
         \A b \in Backups : row[b] = "available" => row'[b] = "available",
         \A b \in Backups : row'[b] # "none" => row[b] # "none",
         \A b \in Backups : job[<<"create", b>>] = "none" => job'[<<"create", b>>] = "none",
         verdict' \in [Works -> Verdict], handler' \in Handling,
         CreatorIsHandler', SuccessLeavesResult', VerdictInv',
         HandlerHasJob', HandlerPlace', HandlerHasResult', RestoreAnswer'
  PROVE  BackupInv'
<1>1. DiskInv' /\ AwaitedIsUntouched'
  BY DiskKept
<1>2. BackupTypeOK'
  BY DEF BackupInv, BackupTypeOK, SoundTasks
<1>3. AskedOnce'
  BY DEF BackupInv, AskedOnce
<1> QED
  BY <1>1, <1>2, <1>3 DEF BackupInv

\* The handler waits for a call only where it completes or boots.
LEMMA NoneCreating ==
  ASSUME BackupInv, handler.at # "complete"
  PROVE  \A t \in Tasks : task[t].at \notin Creating
BY DEF BackupInv, CreatorIsHandler

HandlerPlaces == {"idle", "lookUp", "lock", "serve", "complete", "boot", "fail", "prune",
                  "unlock", "report"}

LEMMA HandlerGoes ==
  ASSUME BackupInv, NEW place \in HandlerPlaces, Step(place) \/ Fail(place)
  PROVE  /\ handler' \in Handling /\ handler'.at = place /\ handler'.work = handler.work
         /\ handler'.outcome \in {handler.outcome, "failed"}
         /\ Fail(place) => handler'.outcome = "failed"
<1>1. handler \in Handling
  BY RowTypes
<1> QED
  BY <1>1 DEF Step, Fail, Handling, HandlerPlaces

\* A step of the handler between its calls that leaves the disk alone.
LEMMA DeskSteps ==
  ASSUME BackupInv, UNCHANGED <<diskVars, request>>,
         handler.at \notin {"complete", "boot"}, handler'.at \notin {"complete", "boot"},
         handler' \in Handling,
         handler'.at \in {"lookUp", "lock", "serve"} =>
            \/ handler.at \in {"lookUp", "lock", "serve"} /\ handler'.work = handler.work
            \/ handler'.work \in Works /\ job[handler'.work] = "queued",
         exclusive' \in {"free", "agent", "other"},
         operation' \in [Works -> OperationStatus],
         job' \in [Works -> {"none", "queued", "leased", "done"}],
         \A w \in Works : job[w] = "none" => job'[w] = "none",
         \A w \in Works : job'[w] \in {"none", "queued"} => job'[w] = job[w],
         verdict' \in [Works -> Verdict], VerdictInv',
         row' \in [Backups -> {"none", "creating", "available", "failed", "pruned"}],
         \A b \in Backups : row[b] = "available" => row'[b] = "available",
         \A b \in Backups : row'[b] # "none" => row[b] # "none",
         SuccessLeavesResult', HandlerHasJob', HandlerPlace', HandlerHasResult'
  PROVE  BackupInv'
<1>1. UNCHANGED <<host, now, snapshot, staging, lockFile, target, task>> /\ host \in Host
  BY DEF diskVars, BackupInv, BackupTypeOK
<1>2. SoundTasks
  BY <1>1, SameTasks
<1>3. CreatorIsHandler' /\ RestoreAnswer'
  BY <1>1, NoneCreating DEF CreatorIsHandler, RestoreAnswer
<1>4. ASSUME NEW b \in Backups, Awaited(b)' PROVE Awaited(b)
  <2> DEFINE w == <<"create", b>>
  <2>1. w \in Works /\ (b \in Existing => job[w] = "none")
    BY WorkTypes, RowTypes DEF AskedOnce
  <2> HIDE DEF w
  <2>2. CASE b \notin Existing /\ job'[w] \in {"none", "queued"}
    BY <2>1, <2>2 DEF Awaited, w
  <2>3. CASE handler'.at \in {"lookUp", "lock", "serve"} /\ handler'.work = w
    BY <2>1, <2>3 DEF Awaited, w
  <2>4. CASE \E t \in Tasks : task'[t].at \in Unpromoted /\ task'[t].backup = b
    BY <1>1, <2>4 DEF Awaited
  <2> QED
    BY <1>4, <2>2, <2>3, <2>4 DEF Awaited, w
<1>5. /\ \A b \in Backups : job[<<"create", b>>] = "none" => job'[<<"create", b>>] = "none"
      /\ UNCHANGED request
  BY WorkTypes
<1> QED
  BY <1>1, <1>2, <1>3, <1>4, <1>5, HandlerSteps

LEMMA ClaimJobInv ==
  ASSUME BackupInv, NEW w \in Works, ClaimJob(w) PROVE BackupInv'
<1> USE DEF BackupInv
<1>1. /\ handler' \in Handling /\ handler'.at = "lookUp" /\ handler'.work = w
      /\ job' = [job EXCEPT ![w] = "leased"] /\ job[w] = "queued" /\ handler.at = "idle"
      /\ UNCHANGED <<diskVars, request, operation, verdict, row, exclusive>>
  BY DEF ClaimJob, Handling
<1>2. job' \in [Works -> {"none", "queued", "leased", "done"}] /\ job'[w] = "leased"
  BY <1>1, RowTypes
<1>v. VerdictInv'
  <2>1. \A v \in Works : job'[v] = job[v] \/ job'[v] = "leased"
    BY <1>1, RowTypes
  <2> QED
    BY <1>1, <2>1, WorkTypes DEF VerdictInv, VerdictHasResult, VerdictHasJob, diskVars
<1>3. SuccessLeavesResult' /\ HandlerHasJob' /\ HandlerPlace' /\ HandlerHasResult'
  BY <1>1, <1>2 DEF SuccessLeavesResult, HandlerHasJob, HandlerPlace, HandlerHasResult,
     diskVars
<1> QED
  BY <1>1, <1>2, <1>v, <1>3, RowTypes, DeskSteps

\* A step that only changes the place of the handler, and who has the lock.
LEMMA PlaceInv ==
  ASSUME BackupInv, NEW place \in HandlerPlaces, Step(place) \/ Fail(place),
         handler.at \notin {"idle", "complete", "boot"}, place \notin {"complete", "boot", "prune"},
         place \in {"lookUp", "lock", "serve"} => handler.at \in {"lookUp", "lock", "serve"},
         place \in {"fail", "unlock", "report"} =>
            Fail(place) \/ handler.at \in {"prune", "unlock", "report"} \/ handler.at = "fail",
         place = "fail" => Fail(place) /\ Kind(handler.work) = "create",
         exclusive' \in {"free", "agent", "other"},
         UNCHANGED <<diskVars, request, operation, job, verdict, row>>
  PROVE  BackupInv'
<1> USE DEF BackupInv
<1>1. /\ handler' \in Handling /\ handler'.at = place /\ handler'.work = handler.work
      /\ handler'.outcome \in {handler.outcome, "failed"}
      /\ Fail(place) => handler'.outcome = "failed"
  BY HandlerGoes
<1>2. SuccessLeavesResult' /\ HandlerHasJob' /\ HandlerPlace'
  BY <1>1 DEF SuccessLeavesResult, HandlerHasJob, HandlerPlace, diskVars
<1>v. VerdictInv'
  BY DEF VerdictInv, VerdictHasResult, VerdictHasJob, diskVars
<1>3. HandlerHasResult'
  BY <1>1 DEF HandlerHasResult, HandlerPlace, diskVars
<1> QED
  BY <1>1, <1>2, <1>v, <1>3, RowTypes, DeskSteps

LEMMA LookUpInv == ASSUME BackupInv, LookUp PROVE BackupInv'
BY PlaceInv, RowTypes DEF LookUp, HandlerPlaces

LEMMA AcquireExclusiveInv == ASSUME BackupInv, AcquireExclusive PROVE BackupInv'
BY PlaceInv, RowTypes DEF AcquireExclusive, HandlerPlaces

LEMMA FailBackupInv == ASSUME BackupInv, FailBackup PROVE BackupInv'
<1> USE DEF BackupInv
<1>1. /\ handler' \in Handling /\ handler'.at = "unlock" /\ handler'.work = handler.work
      /\ handler'.outcome \in {handler.outcome, "failed"}
      /\ handler.at = "fail" /\ UNCHANGED <<diskVars, request, operation, job, verdict, exclusive>>
  BY HandlerGoes DEF FailBackup, HandlerPlaces
<1>2. handler'.outcome = "failed"
  BY <1>1 DEF HandlerPlace
<1>3. row' = row \/ /\ row[Of(handler.work)] = "creating"
                    /\ row' = [row EXCEPT ![Of(handler.work)] = "failed"]
  BY DEF FailBackup
<1>4. /\ row' \in [Backups -> {"none", "creating", "available", "failed", "pruned"}]
      /\ \A b \in Backups : row[b] = "available" => row'[b] = "available"
      /\ \A b \in Backups : row'[b] # "none" => row[b] # "none"
  BY <1>3, RowTypes
<1>5. SuccessLeavesResult' /\ HandlerHasJob' /\ HandlerPlace' /\ HandlerHasResult'
  BY <1>1, <1>2, <1>4 DEF SuccessLeavesResult, HandlerHasJob, HandlerPlace, HandlerHasResult,
     diskVars
<1>v. VerdictInv'
  BY <1>1, <1>4, WorkTypes DEF VerdictInv, VerdictHasResult, VerdictHasJob, diskVars
<1> QED
  BY <1>1, <1>4, <1>5, <1>v, RowTypes, DeskSteps

LEMMA ReportInv == ASSUME BackupInv, Report PROVE BackupInv'
<1> USE DEF BackupInv
<1> DEFINE w == handler.work
           new == [at |-> "close", outcome |-> handler.outcome]
<1>1. /\ handler.at = "report" /\ handler' = Idle
      /\ UNCHANGED <<diskVars, request, operation, job, row, exclusive>>
  BY DEF Report
<1>2. /\ w \in Works /\ handler.outcome \in {"succeeded", "failed"}
      /\ handler' \in Handling /\ handler'.at = "idle" /\ handler'.work = NoWork
  BY <1>1, RowTypes DEF HandlerHasJob, Handling, Idle
<1>3. \/ verdict' = verdict
      \/ job[w] = "leased" /\ verdict' = [verdict EXCEPT ![w] = new]
  BY DEF Report
<1>4. /\ new \in Verdict /\ new.outcome = handler.outcome
      /\ handler.outcome = "succeeded" =>
            /\ Kind(w) = "create" => row[Of(w)] = "available"
            /\ Kind(w) = "restore" => target[Of(w)].done
  BY <1>1, <1>2 DEF Verdict, HandlerHasResult
<1> HIDE DEF w, new
<1>5. /\ verdict' \in [Works -> Verdict]
      /\ \A v \in Works \ {w} : verdict'[v] = verdict[v]
      /\ verdict'[w] = verdict[w] \/ (verdict'[w] = new /\ job[w] = "leased")
  BY <1>2, <1>3, <1>4, RowTypes
<1>6. VerdictInv'
  <2>1. VerdictHasResult'
    BY <1>1, <1>4, <1>5 DEF VerdictInv, VerdictHasResult, diskVars
  <2>2. VerdictHasJob'
    BY <1>1, <1>5, WorkTypes DEF VerdictInv, VerdictHasJob
  <2> QED
    BY <2>1, <2>2 DEF VerdictInv
<1>7. SuccessLeavesResult' /\ HandlerHasJob' /\ HandlerPlace' /\ HandlerHasResult'
  BY <1>1, <1>2 DEF SuccessLeavesResult, HandlerHasJob, HandlerPlace, HandlerHasResult, diskVars
<1> QED
  BY <1>1, <1>2, <1>5, <1>6, <1>7, RowTypes, DeskSteps

-----------------------------------------------------------------------------
(* Calls that begin and end.                                                  *)

\* What a step of the handler leaves, seen from the task of the handler.
LEMMA OthersCreateNothing ==
  ASSUME BackupInv, NEW p \in Task, task' = [task EXCEPT ![Handler] = p]
  PROVE  /\ task'[Handler] = p
         /\ \A t \in Tasks : t # Handler => task'[t] = task[t] /\ task'[t].at \notin Creating
BY TaskFacts DEF BackupInv, CreatorIsHandler

LEMMA ServeBackupInv == ASSUME BackupInv, ServeBackup PROVE BackupInv'
<1> USE DEF BackupInv
<1> DEFINE b == Of(handler.work)
           p == [NoTask EXCEPT !.at = "lock", !.backup = b, !.createdAt = now]
<1>0. /\ handler.at = "serve" /\ Kind(handler.work) = "create" /\ handler.work \in Works
      /\ b \in Backups /\ handler.work = <<"create", b>>
      /\ UNCHANGED <<request, operation, job, verdict, row, exclusive>>
  BY WorkTypes DEF ServeBackup, HandlerHasJob
<1>1. CASE Fail("fail") /\ UNCHANGED diskVars
  BY <1>0, <1>1, PlaceInv, RowTypes DEF HandlerPlaces
<1>2. CASE StartCreate(Handler, b) /\ Step("complete")
  <2>1. /\ p \in Task /\ p.at = "lock" /\ p.backup = b /\ p.createdAt = now
        /\ p.expired = {}
    BY <1>0, SomeBackupType, TaskFacts DEF NoTask, Task
  <2>2. /\ task' = [task EXCEPT ![Handler] = p]
        /\ UNCHANGED <<host, now, snapshot, staging, lockFile, target>>
    BY <1>2 DEF StartCreate
  <2> HIDE DEF p, b
  <2>3. SoundTasks
    <3>1. p.createdAt <= now
      BY <2>1, TaskFacts
    <3>2. p.at \notin {"remove", "copy", "promote"}
      BY <2>1
    <3> QED
      BY <2>1, <2>2, <3>1, <3>2, OneTask
  <2>4. /\ task'[Handler] = p
        /\ \A t \in Tasks : t # Handler => task'[t] = task[t] /\ task'[t].at \notin Creating
    BY <2>1, <2>2, OthersCreateNothing
  <2>5. handler' \in Handling /\ handler'.at = "complete" /\ handler'.work = handler.work
    BY <1>2, HandlerGoes DEF HandlerPlaces
  <2>6. CreatorIsHandler'
    BY <1>0, <2>1, <2>4, <2>5 DEF CreatorIsHandler
  <2>7. \A c \in Backups : Awaited(c)' => Awaited(c)
    <3> SUFFICES ASSUME NEW c \in Backups, Awaited(c)' PROVE Awaited(c)
      OBVIOUS
    <3>1. CASE \E t \in Tasks : task'[t].at \in Unpromoted /\ task'[t].backup = c
      <4>1. PICK t \in Tasks : task'[t].at \in Unpromoted /\ task'[t].backup = c
        BY <3>1
      <4>2. CASE t = Handler
        BY <1>0, <2>1, <2>4, <4>1, <4>2 DEF Awaited
      <4>3. CASE t # Handler
        BY <2>4, <4>1, <4>3 DEF Unpromoted, Creating
      <4> QED
        BY <4>2, <4>3
    <3>2. CASE c \notin Existing /\ job'[<<"create", c>>] \in {"none", "queued"}
      BY <1>0, <3>2 DEF Awaited
    <3> QED
      BY <2>5, <3>1, <3>2 DEF Awaited
  <2>8. SuccessLeavesResult' /\ VerdictInv'
    BY <1>0, <2>2, WorkTypes DEF SuccessLeavesResult, VerdictInv, VerdictHasResult, VerdictHasJob
  <2>9. HandlerHasJob' /\ HandlerPlace' /\ HandlerHasResult' /\ RestoreAnswer'
    BY <1>0, <2>5 DEF HandlerHasJob, HandlerPlace, HandlerHasResult, RestoreAnswer
  <2> QED
    BY <1>0, <2>2, <2>3, <2>5, <2>6, <2>7, <2>8, <2>9, RowTypes, TaskFacts, HandlerSteps
<1> QED
  BY <1>1, <1>2 DEF ServeBackup

\* A step of the handler after which it waits for no call of createBackup.
LEMMA CallStepInv ==
  ASSUME BackupInv, NEW p \in Task, task' = [task EXCEPT ![Handler] = p],
         p.at \notin Creating, p.at # "remove", p.createdAt <= now,
         \A b \in p.expired : snapshot[b].state # "absent" /\ Outlived(b),
         NEW place \in HandlerPlaces, place \notin {"idle", "lookUp", "lock", "serve", "complete"},
         Step(place) \/ Fail(place), handler.at # "idle",
         UNCHANGED <<host, now, snapshot, staging, lockFile, target, request, operation, job, verdict>>,
         exclusive' \in {"free", "agent", "other"},
         row' \in [Backups -> {"none", "creating", "available", "failed", "pruned"}],
         \A b \in Backups : row[b] = "available" => row'[b] = "available",
         \A b \in Backups : row'[b] # "none" => row[b] # "none",
         HandlerPlace', HandlerHasResult', RestoreAnswer'
  PROVE  BackupInv'
<1> USE DEF BackupInv
<1>1. handler' \in Handling /\ handler'.at = place /\ handler'.work = handler.work
  BY HandlerGoes
<1>2. SoundTasks
  BY OneTask DEF Creating
<1>3. \A t \in Tasks : task'[t].at \notin Creating
  BY OthersCreateNothing
<1>4. \A b \in Backups : Awaited(b)' => Awaited(b)
  BY <1>1, <1>3 DEF Awaited, Unpromoted, Creating
<1>5. CreatorIsHandler' /\ HandlerHasJob'
  BY <1>1, <1>3 DEF CreatorIsHandler, HandlerHasJob
<1>6. SuccessLeavesResult' /\ VerdictInv'
  BY WorkTypes DEF SuccessLeavesResult, VerdictInv, VerdictHasResult, VerdictHasJob
<1> QED
  BY <1>1, <1>2, <1>4, <1>5, <1>6, RowTypes, TaskFacts, HandlerSteps

LEMMA ServeRestoreInv == ASSUME BackupInv, ServeRestore PROVE BackupInv'
<1> USE DEF BackupInv
<1> DEFINE b == Of(handler.work)
           p == [NoTask EXCEPT !.at = "readBack", !.backup = b]
<1>0. /\ handler.at = "serve" /\ Kind(handler.work) = "restore" /\ b \in Backups
      /\ Step("boot")
      /\ UNCHANGED <<request, operation, job, verdict, row, exclusive>>
  BY WorkTypes DEF ServeRestore, HandlerHasJob
<1>1. /\ p \in Task /\ p.at = "readBack" /\ p.backup = b /\ p.createdAt = 0
      /\ p.expired = {} /\ p.outcome = "none"
  BY <1>0 DEF NoTask, Task
<1>2. /\ task' = [task EXCEPT ![Handler] = p]
      /\ UNCHANGED <<host, now, snapshot, staging, lockFile, target>>
  BY DEF ServeRestore, StartRestore
<1> HIDE DEF p, b
<1>3. /\ handler' \in Handling /\ handler'.at = "boot" /\ handler'.work = handler.work
  BY <1>0, HandlerGoes DEF HandlerPlaces
<1>4. task'[Handler] = p
  BY <1>1, <1>2, OthersCreateNothing
<1>5. HandlerPlace' /\ HandlerHasResult'
  BY <1>0, <1>3 DEF HandlerPlace, HandlerHasResult
<1>6. RestoreAnswer'
  BY <1>1, <1>3, <1>4 DEF RestoreAnswer, Restoring, b
<1>7. p.createdAt <= now
  BY <1>1 DEF BackupTypeOK
<1>8. /\ p.at \notin Creating /\ p.at # "remove"
      /\ \A c \in p.expired : snapshot[c].state # "absent" /\ Outlived(c)
  BY <1>1 DEF Creating
<1>9. "boot" \in HandlerPlaces /\ handler.at # "idle"
  BY <1>0 DEF HandlerPlaces
<1> QED
  BY <1>0, <1>1, <1>2, <1>5, <1>6, <1>7, <1>8, <1>9, RowTypes, CallStepInv

LEMMA CompleteBackupInv == ASSUME BackupInv, CompleteBackup PROVE BackupInv'
<1> USE DEF BackupInv
<1> DEFINE b == Of(handler.work)
<1>0. /\ handler.at = "complete" /\ Kind(handler.work) = "create" /\ b \in Backups
      /\ task' = [task EXCEPT ![Handler] = NoTask]
      /\ UNCHANGED <<host, now, snapshot, staging, lockFile, target>>
      /\ UNCHANGED <<request, operation, job, verdict, exclusive>>
  BY WorkTypes DEF CompleteBackup, HandlerHasJob, HandlerPlace, Forget
<1> HIDE DEF b
<1>1. PICK place \in {"prune", "fail"} :
        /\ Step(place) \/ Fail(place)
        /\ \/ place = "prune" /\ row[b] = "creating" /\ row' = [row EXCEPT ![b] = "available"]
           \/ place = "fail" /\ Fail(place) /\ row' = row
  BY DEF CompleteBackup, b
<1>2. /\ handler' \in Handling /\ handler'.at = place /\ handler'.work = handler.work
      /\ place = "fail" => handler'.outcome = "failed"
  BY <1>1, HandlerGoes DEF HandlerPlaces
<1>3. /\ row' \in [Backups -> {"none", "creating", "available", "failed", "pruned"}]
      /\ \A c \in Backups : row[c] = "available" => row'[c] = "available"
      /\ \A c \in Backups : row'[c] # "none" => row[c] # "none"
      /\ place = "prune" => row'[b] = "available"
  BY <1>0, <1>1, RowTypes
<1>4. HandlerPlace' /\ HandlerHasResult' /\ RestoreAnswer'
  BY <1>0, <1>1, <1>2, <1>3 DEF HandlerPlace, HandlerHasResult, RestoreAnswer, b
<1> QED
  BY <1>0, <1>1, <1>3, <1>4, NoTaskIsSound, RowTypes, CallStepInv DEF HandlerPlaces, Creating

\* A call of retention that begins has selected what is outlived.
LEMMA PruneIsSound ==
  ASSUME BackupInv, NEW t \in Tasks, StartPrune(t)
  PROVE  \E p \in Task :
            /\ task' = [task EXCEPT ![t] = p] /\ p.at = "pruneLock" /\ p.createdAt <= now
            /\ \A b \in p.expired : snapshot[b].state # "absent" /\ Outlived(b)
<1>1. PICK listed \in Listings :
        task' = [task EXCEPT ![t] = [NoTask EXCEPT !.at = "pruneLock",
                                                   !.expired = Expired(listed, now)]]
  BY DEF StartPrune
<1> DEFINE e == Expired(listed, now)
           p == [NoTask EXCEPT !.at = "pruneLock", !.expired = e]
<1>2. \A b \in e : b \in Backups /\ snapshot[b].state # "absent" /\ Outlived(b)
  BY ExpiredIsOutlived
<1> HIDE DEF e
<1>3. now \in Nat /\ e \subseteq Backups
  BY <1>2 DEF BackupInv, BackupTypeOK
<1>4. p \in Task /\ p.at = "pruneLock" /\ p.createdAt = 0 /\ p.expired = e
  BY <1>3, SomeBackupType DEF NoTask, Task
<1> HIDE DEF p
<1>5. p.createdAt <= now /\ task' = [task EXCEPT ![t] = p]
  BY <1>1, <1>3, <1>4 DEF p, e
<1>6. \A b \in p.expired : snapshot[b].state # "absent" /\ Outlived(b)
  BY <1>2, <1>4
<1> QED
  BY <1>4, <1>5, <1>6

LEMMA PruneAfterBackupInv == ASSUME BackupInv, PruneAfterBackup PROVE BackupInv'
<1> USE DEF BackupInv
<1>0. /\ handler.at = "prune" /\ Step("unlock")
      /\ UNCHANGED <<host, now, snapshot, staging, lockFile, target>>
      /\ UNCHANGED <<request, operation, job, verdict, row, exclusive>>
  BY DEF PruneAfterBackup, StartPrune
<1>1. PICK p \in Task :
        /\ task' = [task EXCEPT ![Handler] = p] /\ p.at = "pruneLock" /\ p.createdAt <= now
        /\ \A b \in p.expired : snapshot[b].state # "absent" /\ Outlived(b)
  BY PruneIsSound DEF PruneAfterBackup
<1>2. /\ handler' \in Handling /\ handler'.at = "unlock" /\ handler'.work = handler.work
      /\ handler'.outcome \in {handler.outcome, "failed"}
  BY <1>0, HandlerGoes DEF HandlerPlaces
<1>3. HandlerPlace' /\ HandlerHasResult' /\ RestoreAnswer'
  BY <1>0, <1>2 DEF HandlerPlace, HandlerHasResult, RestoreAnswer
<1> QED
  BY <1>0, <1>1, <1>3, RowTypes, CallStepInv DEF HandlerPlaces, Creating

LEMMA BootRestoredInv == ASSUME BackupInv, BootRestored PROVE BackupInv'
<1> USE DEF BackupInv
<1>0. /\ handler.at = "boot" /\ Kind(handler.work) = "restore"
      /\ task' = [task EXCEPT ![Handler] = NoTask]
      /\ Step("unlock") \/ Fail("unlock")
      /\ Fail("unlock") \/ task[Handler].outcome = "ok"
      /\ UNCHANGED <<host, now, snapshot, staging, lockFile, target>>
      /\ UNCHANGED <<request, operation, job, verdict, row, exclusive>>
  BY DEF BootRestored, Forget, Answered, HandlerPlace
<1>1. /\ handler' \in Handling /\ handler'.at = "unlock" /\ handler'.work = handler.work
      /\ Fail("unlock") => handler'.outcome = "failed"
  BY <1>0, HandlerGoes DEF HandlerPlaces
<1>2. HandlerPlace' /\ HandlerHasResult' /\ RestoreAnswer'
  BY <1>0, <1>1 DEF HandlerPlace, HandlerHasResult, RestoreAnswer
<1> QED
  BY <1>0, <1>2, NoTaskIsSound, RowTypes, CallStepInv DEF HandlerPlaces, Creating

LEMMA ReleaseExclusiveInv == ASSUME BackupInv, ReleaseExclusive PROVE BackupInv'
<1> USE DEF BackupInv
<1>0. /\ handler.at = "unlock" /\ Step("report")
      /\ task' = [task EXCEPT ![Handler] = NoTask]
      /\ exclusive' \in {"free", "agent", "other"}
      /\ UNCHANGED <<host, now, snapshot, staging, lockFile, target>>
      /\ UNCHANGED <<request, operation, job, verdict, row>>
  BY RowTypes DEF ReleaseExclusive, Forget
<1>1. /\ handler' \in Handling /\ handler'.at = "report" /\ handler'.work = handler.work
      /\ handler'.outcome \in {handler.outcome, "failed"}
  BY <1>0, HandlerGoes DEF HandlerPlaces
<1>2. HandlerPlace' /\ HandlerHasResult' /\ RestoreAnswer'
  BY <1>0, <1>1 DEF HandlerPlace, HandlerHasResult, RestoreAnswer
<1> QED
  BY <1>0, <1>2, NoTaskIsSound, RowTypes, CallStepInv DEF HandlerPlaces, Creating

\* The process dies: no call is left, and the handler is idle.
LEMMA AgentDiesInv == ASSUME BackupInv, AgentDies PROVE BackupInv'
<1> USE DEF BackupInv
<1>0. /\ handler' = Idle /\ task' = [t \in Tasks |-> NoTask]
      /\ exclusive' \in {"free", "agent", "other"}
      /\ UNCHANGED <<now, snapshot, staging, lockFile, target>>
      /\ UNCHANGED <<request, operation, job, verdict, row>>
  BY RowTypes DEF AgentDies
<1>1. host' \in Host /\ host'.quota = host.quota
  BY FaultKeepsQuota DEF AgentDies
<1>2. handler' \in Handling /\ handler'.at = "idle"
  BY <1>0 DEF Handling, Idle
<1>3. SoundTasks /\ \A t \in Tasks : task'[t].at = "idle"
  BY <1>0, NoTaskIsSound DEF SoundTasks
<1>4. \A b \in Backups : Awaited(b)' => Awaited(b)
  BY <1>0, <1>2, <1>3 DEF Awaited, Unpromoted
<1>5. CreatorIsHandler'
  BY <1>3 DEF CreatorIsHandler, Creating
<1>6. SuccessLeavesResult' /\ VerdictInv'
  BY <1>0, WorkTypes DEF SuccessLeavesResult, VerdictInv, VerdictHasResult, VerdictHasJob
<1>7. HandlerHasJob' /\ HandlerPlace' /\ HandlerHasResult' /\ RestoreAnswer'
  BY <1>2 DEF HandlerHasJob, HandlerPlace, HandlerHasResult, RestoreAnswer
<1> QED
  BY <1>0, <1>1, <1>2, <1>3, <1>4, <1>5, <1>6, <1>7, RowTypes, HandlerSteps

LEMMA PruneOnTimerInv == ASSUME BackupInv, PruneOnTimer PROVE BackupInv'
<1> USE DEF BackupInv
<1>0. /\ UNCHANGED <<host, now, snapshot, staging, lockFile, target>>
      /\ UNCHANGED <<request, operation, job, verdict, row, exclusive, handler>>
      /\ Timer \in Tasks /\ Handler # Timer
  BY DEF PruneOnTimer, StartPrune, catalogueVars
<1>1. PICK p \in Task :
        /\ task' = [task EXCEPT ![Timer] = p] /\ p.at = "pruneLock" /\ p.createdAt <= now
        /\ \A b \in p.expired : snapshot[b].state # "absent" /\ Outlived(b)
  BY <1>0, PruneIsSound DEF PruneOnTimer
<1>2. SoundTasks
  BY <1>0, <1>1, OneTask
<1>3. /\ task'[Timer] = p
      /\ \A t \in Tasks : t # Timer => task'[t] = task[t]
  BY <1>0, <1>1, TaskFacts
<1>4. \A b \in Backups : Awaited(b)' => Awaited(b)
  BY <1>0, <1>1, <1>3 DEF Awaited, Unpromoted
<1>5. CreatorIsHandler'
  BY <1>0, <1>1, <1>3 DEF CreatorIsHandler, Creating
<1>6. SuccessLeavesResult' /\ VerdictInv'
  BY <1>0, WorkTypes DEF SuccessLeavesResult, VerdictInv, VerdictHasResult, VerdictHasJob
<1>7. HandlerHasJob' /\ HandlerPlace' /\ HandlerHasResult'
  BY <1>0 DEF HandlerHasJob, HandlerPlace, HandlerHasResult
<1>8. RestoreAnswer'
  BY <1>0, <1>3 DEF RestoreAnswer
<1> QED
  BY <1>0, <1>2, <1>4, <1>5, <1>6, <1>7, <1>8, RowTypes, TaskFacts, HandlerSteps

-----------------------------------------------------------------------------
(* The invariant.                                                             *)

LEMMA BackupInitInv == BackupInit => BackupInv
<1> SUFFICES ASSUME BackupInit PROVE BackupInv
  OBVIOUS
<1>q. host \in Host /\ host.quota \in Nat \ {0}
  <2>1. host \in [faults : {MaxFaults}, quota : Quotas]
    BY DEF BackupInit, StoreInit
  <2>2. host.faults = MaxFaults /\ host.quota \in Quotas
        /\ host = [faults |-> host.faults, quota |-> host.quota]
    BY <2>1
  <2> QED
    BY <2>2 DEF Host
<1>0. /\ now = 1
      /\ snapshot = [b \in Backups |->
            [state |-> IF b \in Existing THEN "stored" ELSE "absent", createdAt |-> 0]]
      /\ task = [t \in Tasks |-> NoTask]
      /\ handler = Idle /\ job = [w \in Works |-> "none"]
      /\ operation = [w \in Works |-> "none"]
      /\ verdict = [w \in Works |-> NoVerdict]
  BY DEF BackupInit, StoreInit
<1>1. \A t \in Tasks : /\ task[t] \in Task /\ task[t].at = "idle"
                       /\ task[t].expired = {} /\ task[t].createdAt = 0
  BY <1>0, NoTaskType DEF NoTask
<1>2. /\ \A b \in Backups : /\ snapshot[b].createdAt = 0
                            /\ snapshot[b].state # "removing"
                            /\ snapshot[b].state = "stored" <=> b \in Existing
                            /\ b \notin Existing => snapshot[b].state = "absent"
      /\ snapshot \in [Backups -> Snapshot]
  BY <1>0 DEF Snapshot
<1>3. handler \in Handling /\ handler.at = "idle" /\ exclusive = "free"
  BY <1>0 DEF Handling, Idle, BackupInit
<1>4. \A b \in Backups : Kind(<<"create", b>>) = "create" /\ Of(<<"create", b>>) = b
  BY DEF Kind, Of
<1>5. BackupTypeOK
  <2>1. /\ request \in [Works -> Request] /\ operation \in [Works -> OperationStatus]
        /\ job \in [Works -> {"none", "queued", "leased", "done"}]
        /\ verdict \in [Works -> Verdict]
    BY <1>0 DEF BackupInit, Request, OperationStatus, Verdict, NoVerdict
  <2>2. row \in [Backups -> {"none", "creating", "available", "failed", "pruned"}]
    BY DEF BackupInit
  <2>3. /\ target \in [Backups -> RestoreTarget]
        /\ staging \subseteq Backups /\ lockFile \subseteq Backups
    BY DEF BackupInit, StoreInit, RestoreTarget
  <2>4. task \in [Tasks -> Task]
    BY <1>0, <1>1
  <2> QED
    BY <1>0, <1>q, <1>2, <1>3, <2>1, <2>2, <2>3, <2>4 DEF BackupTypeOK
<1>6. WithinQuota
  <2>1. {b \in Backups : Intact(b)} = Existing
    BY <1>2 DEF Intact
  <2>2. Cardinality(Existing) <= 1 /\ Cardinality(Existing) \in Nat
    BY FS_Subset, FS_CardinalityType
  <2>3. host.quota \in Nat /\ 1 <= host.quota
    BY <1>q
  <2>4. Cardinality(Existing) <= host.quota
    BY <2>2, <2>3
  <2> QED
    BY <2>1, <2>4 DEF WithinQuota
<1>7. DiskInv
  BY <1>0, <1>1, <1>2, <1>6 DEF DiskInv, DatesPast, RemovedIsOutlived, RoomIsKept
<1>8. CreatorIsHandler /\ AwaitedIsUntouched
  BY <1>1, <1>2, <1>3 DEF CreatorIsHandler, AwaitedIsUntouched, Awaited, Creating, Unpromoted
<1>9. SuccessLeavesResult /\ VerdictInv
  BY <1>0, WorkTypes
     DEF SuccessLeavesResult, VerdictInv, VerdictHasResult, VerdictHasJob, NoVerdict
<1>10. AskedOnce
  BY <1>0, <1>4, WorkTypes DEF AskedOnce, BackupInit
<1>11. HandlerHasJob /\ HandlerPlace /\ HandlerHasResult /\ RestoreAnswer
  BY <1>3 DEF HandlerHasJob, HandlerPlace, HandlerHasResult, RestoreAnswer
<1> QED
  BY <1>5, <1>7, <1>8, <1>9, <1>10, <1>11 DEF BackupInv

LEMMA DiskStepInv ==
  ASSUME BackupInv, NEW t \in Tasks, DiskStep(t) PROVE BackupInv'
<1>1. UNCHANGED catalogueVars /\ ServiceStep(t)
  BY DEF DiskStep
<1>2. CASE \/ CreateLock(t) \/ CreateCheck(t) \/ CreateCopy(t) \/ CreatePromote(t)
           \/ CreateDiscard(t) \/ CreateUnlock(t)
  BY <1>1, <1>2, CreateLockInv, CreateCheckInv, CreateCopyInv, CreatePromoteInv,
     CreateDiscardInv, CreateUnlockInv
<1>3. CASE PruneLock(t) \/ PruneRemove(t) \/ PruneUnlock(t)
  BY <1>1, <1>3, PruneLockInv, PruneRemoveInv, PruneUnlockInv
<1>4. CASE \/ RestoreReadBack(t) \/ RestoreLock(t) \/ RestoreCheck(t) \/ RestoreCopy(t)
           \/ RestoreDiscard(t) \/ RestoreUnlock(t)
  BY <1>1, <1>4, RestoreReadBackInv, RestoreLockInv, RestoreCheckInv, RestoreCopyInv,
     RestoreDiscardInv, RestoreUnlockInv
<1> QED
  BY <1>1, <1>2, <1>3, <1>4 DEF ServiceStep

LEMMA HandlerStepInv == ASSUME BackupInv, HandlerStep PROVE BackupInv'
BY ClaimJobInv, LookUpInv, AcquireExclusiveInv, ServeBackupInv, ServeRestoreInv,
   CompleteBackupInv, FailBackupInv, PruneAfterBackupInv, BootRestoredInv,
   ReleaseExclusiveInv, ReportInv DEF HandlerStep

LEMMA StutterInv == ASSUME BackupInv, UNCHANGED backupVars PROVE BackupInv'
<1>1. /\ UNCHANGED <<diskVars, request, operation, job, verdict, row, exclusive, handler>>
  BY DEF backupVars, catalogueVars
<1>2. AskedOnce'
  BY <1>1, RowTypes DEF AskedOnce
<1> QED
  BY <1>1, <1>2, RowTypes, RequestSteps

LEMMA BackupNextInv == BackupInv /\ [BackupNext]_backupVars => BackupInv'
<1> SUFFICES ASSUME BackupInv, [BackupNext]_backupVars PROVE BackupInv'
  OBVIOUS
<1>1. CASE \E b \in Backups : RequestBackup(b)
  BY <1>1, RequestBackupInv
<1>2. CASE \E b \in Restorable : RequestRestore(b)
  BY <1>2, RequestRestoreInv
<1>3. CASE RequestStep \/ SettlementStep
  BY <1>3, AcceptOperationInv, QueueOperationInv, LinkOperationInv, BeginBackupInv,
     JobEndInv, SettlementInv DEF RequestStep, SettlementStep
<1>4. CASE HandlerStep \/ PruneOnTimer
  BY <1>4, HandlerStepInv, PruneOnTimerInv
<1>5. CASE \E t \in Tasks : DiskStep(t)
  BY <1>5, DiskStepInv
<1>6. CASE OtherWorkLocks \/ OtherWorkEnds \/ AgentDies \/ ApiDies
  BY <1>6, OtherWorkInv, AgentDiesInv, ApiDiesInv
<1>7. CASE UNCHANGED backupVars
  BY <1>7, StutterInv
<1> QED
  BY <1>1, <1>2, <1>3, <1>4, <1>5, <1>6, <1>7 DEF BackupNext

\* The invariant holds in every reachable state.
THEOREM BackupInvariant == BackupSpec => []BackupInv
<1>1. BackupInit => BackupInv
  BY BackupInitInv
<1>2. BackupInv /\ [BackupNext]_backupVars => BackupInv'
  BY BackupNextInv
<1> QED
  BY <1>1, <1>2, PTL DEF BackupSpec

\* Rows, jobs, files and calls keep the shapes the tables and types give.
THEOREM BackupTypeCorrect == BackupSpec => []BackupTypeOK
<1>1. BackupInv => BackupTypeOK
  BY DEF BackupInv
<1> QED
  BY <1>1, BackupInvariant, PTL

\* An operation reported as succeeded left an available row, or a restored
\* directory, whatever was reclaimed or died on the way.
THEOREM SuccessesLeaveResults == BackupSpec => []SuccessLeavesResult
<1>1. BackupInv => SuccessLeavesResult
  BY DEF BackupInv
<1> QED
  BY <1>1, BackupInvariant, PTL

\* The repository never holds more whole snapshots than the quota allows.
THEOREM QuotaHolds == BackupSpec => []WithinQuota
<1>1. BackupInv => WithinQuota
  BY DEF BackupInv, DiskInv
<1> QED
  BY <1>1, BackupInvariant, PTL

\* Only a promotion and a removal touch the snapshots.
LEMMA SnapshotSteps ==
  ASSUME BackupNext
  PROVE  UNCHANGED snapshot \/ \E t \in Tasks : CreatePromote(t) \/ PruneRemove(t)
<1>1. CASE \/ \E b \in Backups : RequestBackup(b)
           \/ \E b \in Restorable : RequestRestore(b)
           \/ RequestStep \/ SettlementStep
           \/ OtherWorkLocks \/ OtherWorkEnds \/ AgentDies \/ ApiDies \/ PruneOnTimer
  BY <1>1 DEF RequestBackup, BeginBackup, RequestRestore, RequestStep, AcceptOperation,
     QueueOperation, LinkOperation, SettlementStep, CloseJob, ReclaimJob, FindOperation,
     SettleOperation, OtherWorkLocks, OtherWorkEnds, AgentDies, ApiDies, PruneOnTimer,
     StartPrune, diskVars
<1>2. CASE HandlerStep
  BY <1>2 DEF HandlerStep, ClaimJob, LookUp, AcquireExclusive, ServeBackup, ServeRestore,
     StartCreate, StartRestore, StartPrune, CompleteBackup, FailBackup, PruneAfterBackup,
     BootRestored, ReleaseExclusive, Report, diskVars
<1>3. ASSUME NEW t \in Tasks, DiskStep(t)
      PROVE  UNCHANGED snapshot \/ CreatePromote(t) \/ PruneRemove(t)
  BY <1>3 DEF DiskStep, ServiceStep, CreateLock, CreateCheck, CreateCopy, CreateDiscard,
     CreateUnlock, PruneLock, PruneUnlock, RestoreReadBack, RestoreLock, RestoreCheck,
     RestoreCopy, RestoreDiscard, RestoreUnlock
<1> QED
  BY <1>1, <1>2, <1>3 DEF BackupNext

\* However old the listing is that a pruning works on, and whatever else is
\* being removed: KeepLatest newer snapshots are whole when removing starts.
THEOREM LatestAreKept == BackupSpec => LatestSurvive
<1> DEFINE Kept == \A b \in Backups :
          snapshot[b].state = "stored" /\ snapshot'[b].state = "removing" =>
              Cardinality(Newer(b)) >= KeepLatest
<1>1. BackupInv /\ [BackupNext]_backupVars => [Kept]_backupVars
  <2> SUFFICES ASSUME BackupInv, BackupNext, NEW b \in Backups,
                      snapshot[b].state = "stored", snapshot'[b].state = "removing"
               PROVE  Outlived(b)
    BY DEF Outlived
  <2>1. snapshot \in [Backups -> Snapshot]
    BY DEF BackupInv, BackupTypeOK
  <2>2. PICK t \in Tasks : CreatePromote(t) \/ PruneRemove(t)
    BY SnapshotSteps
  <2>3. CASE CreatePromote(t)
    <3>1. snapshot' = snapshot \/ snapshot' = [snapshot EXCEPT
              ![task[t].backup] = [state |-> "stored", createdAt |-> task[t].createdAt]]
      BY <2>3 DEF CreatePromote
    <3> QED
      BY <2>1, <3>1
  <2>4. CASE PruneRemove(t)
    <3>1. task[t].at = "remove" /\ task[t].backup \in task[t].expired
      BY <2>4 DEF PruneRemove, BackupInv, DiskInv, RemovedIsOutlived
    <3>2. \/ snapshot' = snapshot
          \/ snapshot' = [snapshot EXCEPT ![task[t].backup].state = "removing"]
          \/ snapshot' = [snapshot EXCEPT ![task[t].backup] = [state |-> "absent",
                                                               createdAt |-> 0]]
      BY <2>4 DEF PruneRemove
    <3>3. b = task[t].backup
      BY <2>1, <3>2
    <3> QED
      BY <3>1, <3>3 DEF BackupInv, DiskInv, RemovedIsOutlived
  <2> QED
    BY <2>2, <2>3, <2>4
<1> QED
  BY <1>1, BackupInvariant, PTL DEF BackupSpec, LatestSurvive

-----------------------------------------------------------------------------
(* What BackupOperationEnds rests on: an operation that has work keeps it     *)
(* until it is settled.                                                       *)

\* The work of a linked operation ends only with its settlement, by the verdict
\* on its way, or with the death of the control API that held the verdict.
LinkedWorkIsKept ==
    [][\A w \in Works :
          HasWork(w) =>
              \/ HasWork(w)'
              \/ verdict[w].at = "settle" /\ operation'[w] = verdict[w].outcome
              \/ verdict'[w].at = "lost"]_backupVars

\* What is left of an operation and its work by a step elsewhere.
LEMMA WorkUnmoved ==
  ASSUME NEW w \in Works, HasWork(w), operation'[w] = "running",
         job'[w] = job[w], verdict'[w] = verdict[w]
  PROVE  HasWork(w)'
BY DEF HasWork

LEMMA RequestsKeepWork ==
  ASSUME BackupInv, NEW w \in Works, HasWork(w), RequestStep
  PROVE  HasWork(w)'
<1>1. ASSUME NEW v \in Works, AcceptOperation(v)
      PROVE  HasWork(w)'
  <2>1. operation'[w] = "running" /\ job' = job /\ verdict' = verdict
    BY <1>1, RowTypes DEF AcceptOperation, InFlight, HasWork
  <2> QED
    BY <2>1, WorkUnmoved
<1>2. ASSUME NEW v \in Works, QueueOperation(v)
      PROVE  HasWork(w)'
  <2>1. operation' = operation /\ verdict' = verdict
    BY <1>2 DEF QueueOperation
  <2>2. job'[w] = job[w] \/ job'[w] = "queued"
    BY <1>2, RowTypes DEF QueueOperation
  <2> QED
    BY <2>1, <2>2 DEF HasWork
<1>3. ASSUME NEW v \in Works, LinkOperation(v)
      PROVE  HasWork(w)'
  <2>1. operation'[w] = "running" /\ job' = job /\ verdict' = verdict
    BY <1>3, RowTypes DEF LinkOperation, HasWork
  <2> QED
    BY <2>1, WorkUnmoved
<1>4. ASSUME NEW b \in Backups, BeginBackup(b)
      PROVE  HasWork(w)'
  BY <1>4 DEF BeginBackup, HasWork
<1> QED
  BY <1>1, <1>2, <1>3, <1>4 DEF RequestStep

\* A job that ends leaves its verdict to be found, and what is found is settled.
LEMMA SettlementsKeepWork ==
  ASSUME BackupInv, NEW w \in Works, HasWork(w), SettlementStep
  PROVE  \/ HasWork(w)'
         \/ verdict[w].at = "settle" /\ operation'[w] = verdict[w].outcome
<1>0. operation[w] = "running"
  BY DEF HasWork
<1>1. PICK v \in Works : CloseJob(v) \/ ReclaimJob(v) \/ FindOperation(v) \/ SettleOperation(v)
  BY DEF SettlementStep
<1>2. CASE v # w
  <2>1. operation'[w] = operation[w] /\ job'[w] = job[w] /\ verdict'[w] = verdict[w]
    BY <1>1, <1>2, RowTypes DEF CloseJob, ReclaimJob, FindOperation, SettleOperation
  <2> QED
    BY <1>0, <2>1, WorkUnmoved
<1>3. CASE v = w /\ (CloseJob(w) \/ ReclaimJob(w))
  <2>1. verdict[w] \in Verdict /\ w \in DOMAIN verdict
    BY RowTypes
  <2>2. verdict'[w].at = "find"
    BY <1>3, <2>1 DEF CloseJob, ReclaimJob, Verdict
  <2>3. operation' = operation
    BY <1>3 DEF CloseJob, ReclaimJob
  <2> QED
    BY <1>0, <2>2, <2>3 DEF HasWork
<1>4. CASE v = w /\ FindOperation(w)
  <2>1. verdict[w] \in Verdict /\ w \in DOMAIN verdict
    BY RowTypes
  <2>2. verdict' = [verdict EXCEPT ![w].at = "settle"]
    BY <1>0, <1>4 DEF FindOperation
  <2>3. verdict'[w].at = "settle" /\ operation' = operation
    BY <1>4, <2>1, <2>2 DEF FindOperation, Verdict
  <2> QED
    BY <1>0, <2>3 DEF HasWork
<1>5. CASE v = w /\ SettleOperation(w)
  BY <1>5, RowTypes DEF SettleOperation
<1> QED
  BY <1>1, <1>2, <1>3, <1>4, <1>5

\* The handler takes the job, and hands its result to the control API.
LEMMA HandlerKeepsWork ==
  ASSUME BackupInv, NEW w \in Works, HasWork(w), HandlerStep
  PROVE  HasWork(w)'
<1>1. ASSUME NEW v \in Works, ClaimJob(v)
      PROVE  HasWork(w)'
  <2>1. /\ operation' = operation /\ verdict' = verdict
        /\ job'[w] = job[w] \/ job'[w] = "leased"
    BY <1>1, RowTypes DEF ClaimJob
  <2> QED
    BY <2>1 DEF HasWork
<1>2. CASE Report
  <2>1. operation' = operation /\ job' = job
    BY <1>2 DEF Report
  <2>2. verdict'[w] = verdict[w] \/ verdict'[w].at = "close"
    BY <1>2, RowTypes DEF Report
  <2> QED
    BY <2>1, <2>2 DEF HasWork
<1>3. CASE \/ LookUp \/ AcquireExclusive \/ ServeBackup \/ ServeRestore \/ CompleteBackup
           \/ FailBackup \/ PruneAfterBackup \/ BootRestored \/ ReleaseExclusive
  <2>1. UNCHANGED <<operation, job, verdict>>
    BY <1>3 DEF LookUp, AcquireExclusive, ServeBackup, ServeRestore, CompleteBackup,
                FailBackup, PruneAfterBackup, BootRestored, ReleaseExclusive
  <2> QED
    BY <2>1 DEF HasWork
<1> QED
  BY <1>1, <1>2, <1>3 DEF HandlerStep

LEMMA ApiDeathLosesVerdicts ==
  ASSUME BackupInv, NEW w \in Works, HasWork(w), ApiDies
  PROVE  HasWork(w)' \/ verdict'[w].at = "lost"
<1>1. operation' = operation /\ job' = job
  BY DEF ApiDies
<1>2. verdict'[w] = verdict[w] \/ verdict'[w].at = "lost"
  BY DEF ApiDies, NoVerdict
<1> QED
  BY <1>1, <1>2 DEF HasWork

\* A backup or restore operation that carries the id of an unfinished job, or
\* whose verdict is on the way, is never left without work by an agent that
\* dies, a lease that lapses, or another request: only its settlement or the
\* death of the control API with the verdict ends it. An operation linked after
\* its verdict found nothing never had work, and is not meant.
THEOREM LinkedOperationsKeepWork == BackupSpec => LinkedWorkIsKept
<1> DEFINE Kept(w) == \/ HasWork(w)'
                      \/ verdict[w].at = "settle" /\ operation'[w] = verdict[w].outcome
                      \/ verdict'[w].at = "lost"
<1>1. BackupInv /\ [BackupNext]_backupVars => [\A w \in Works : HasWork(w) => Kept(w)]_backupVars
  <2> SUFFICES ASSUME BackupInv, BackupNext, NEW w \in Works, HasWork(w)
               PROVE  Kept(w)
    OBVIOUS
  <2>1. CASE RequestStep \/ SettlementStep \/ HandlerStep \/ ApiDies
    BY <2>1, RequestsKeepWork, SettlementsKeepWork, HandlerKeepsWork, ApiDeathLosesVerdicts
  <2>2. CASE \/ \E b \in Backups : RequestBackup(b) \/ RequestRestore(b)
             \/ PruneOnTimer \/ OtherWorkLocks \/ OtherWorkEnds \/ AgentDies
             \/ \E t \in Tasks : DiskStep(t)
    <3>1. UNCHANGED <<operation, job, verdict>>
      BY <2>2 DEF RequestBackup, RequestRestore, PruneOnTimer, OtherWorkLocks, OtherWorkEnds,
                  AgentDies, DiskStep, catalogueVars
    <3> QED
      BY <3>1 DEF HasWork
  <2> QED
    BY <2>1, <2>2 DEF BackupNext
<1> QED
  BY <1>1, BackupInvariant, PTL DEF BackupSpec, LinkedWorkIsKept

=============================================================================
