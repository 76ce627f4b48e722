---------------------- MODULE ConfigurationApplyProofs ----------------------
(***************************************************************************)
(* ConfigurationInv is an inductive invariant of the configuration path,   *)
(* for any number of requests, agents, contents and faults. From it: the   *)
(* content on record is never lost, and what was applied can be undone.    *)
(***************************************************************************)
EXTENDS ConfigurationApply, TLAPS

USE ConfigurationAssumption

\* The call has a prepared revision it has not completed yet.
Working(w) ==
    worker[w].at \in {"guard", "lockFile", "preflight", "publish", "replace", "verify",
                      "recover", "cleanUp", "guardAgain", "markApplied", "markFailed"}

\* The call has replaced the file, and nothing went wrong so far.
Done(w) ==
    /\ worker[w].at \in {"cleanUp", "guardAgain", "markApplied"}
    /\ worker[w].failure = "none"

\* The call has read the file and knows what it will write, or has written.
HasRead(w) == worker[w].at \in {"publish", "replace", "verify", "recover"} \/ Done(w)

\* A call under way owns its job; before it prepares, its revision is new.
CallOwnsJob(w) ==
    /\ worker[w].at # "idle" =>
           /\ worker[w].request \in Requests
           /\ request[worker[w].request].status = "taken"
    /\ worker[w].at \in {"acquire", "prepare"} =>
           revision[worker[w].request].status = "none"

\* A working call is the pending change, made to the content on record.
CallIsPending(w) ==
    Working(w) =>
        /\ Pending(w)
        /\ Asked(w).expected = state.current
        /\ Asked(w).source # NoRequest => revision[Asked(w).source].status = "applied"

\* What the file and the revision directory hold at each stage of a call.
CallFollowsFile(w) ==
    /\ HasRead(w) =>
           /\ worker[w].seen = state.current
           /\ worker[w].intended \in Contents
           /\ Asked(w).source # NoRequest =>
                  worker[w].intended = disk.published[Asked(w).source].previous
    /\ worker[w].at \in {"publish", "replace"} => host.file = worker[w].seen
    /\ worker[w].at \in {"replace", "verify", "recover"} \/ Done(w) =>
           disk.published[worker[w].request] = [previous |-> worker[w].seen,
                                                intended |-> worker[w].intended]
    /\ worker[w].at = "verify" \/ Done(w) => host.file = worker[w].intended
    /\ worker[w].at = "markApplied" => worker[w].failure = "none"

CallInv(w) == CallOwnsJob(w) /\ CallIsPending(w) /\ CallFollowsFile(w)

CallsApart ==
    \A v, w \in Workers :
        /\ worker[v].at # "idle" /\ worker[w].at # "idle"
        /\ worker[v].request = worker[w].request
        => v = w

\* A revision begins when its job is taken; a rollback's source stays applied.
RevisionsFollowJobs ==
    \A r \in Requests :
        /\ request[r].status \in {"new", "queued"} => revision[r].status = "none"
        /\ revision[r].status = "applied" /\ request[r].source # NoRequest =>
               revision[request[r].source].status = "applied"

ConfigurationInv ==
    /\ ConfigurationTypeOK
    /\ \A w \in Workers : CallInv(w)
    /\ CallsApart
    /\ RevisionsFollowJobs
    /\ RecordedContentIsKept
    /\ AppliedCanBeUndone

-----------------------------------------------------------------------------

\* A fault only uses up one of the faults.
LEMMA FaultType ==
  ASSUME ConfigurationTypeOK, Fault \/ NoFault
  PROVE  /\ host' \in Host
         /\ host'.file = host.file
         /\ host'.running = host.running
<1>1. CASE NoFault
  BY <1>1 DEF NoFault, ConfigurationTypeOK, Host
<1>2. CASE Fault
  <2>1. host \in Host
    BY DEF ConfigurationTypeOK
  <2>2. /\ host.faults \in 0 .. MaxFaults
        /\ host.faults - 1 \in 0 .. MaxFaults
    BY <1>2, <2>1 DEF Fault, Host
  <2> QED
    BY <1>2, <2>1, <2>2 DEF Fault, Host
<1> QED
  BY <1>1, <1>2

\* At most one call works on the resource.
LEMMA OneWorking ==
  ASSUME ConfigurationInv, NEW v \in Workers, NEW w \in Workers, Working(v), Working(w)
  PROVE  v = w
<1>1. state.pending = worker[v].request /\ state.pending = worker[w].request
  BY DEF ConfigurationInv, CallInv, CallIsPending, Pending
<1>2. worker[v].at # "idle" /\ worker[w].at # "idle"
  BY DEF Working
<1> QED
  BY <1>1, <1>2 DEF ConfigurationInv, CallsApart

\* A call that is not working is undisturbed while its job and its revision
\* stay as they are.
LEMMA Undisturbed ==
  ASSUME NEW v \in Workers, CallInv(v), ~Working(v), worker'[v] = worker[v],
         worker[v].at # "idle" =>
             request'[worker[v].request].status = request[worker[v].request].status,
         worker[v].at \in {"acquire", "prepare"} =>
             revision'[worker[v].request].status = revision[worker[v].request].status
  PROVE  CallInv(v)'
<1>1. ~Working(v)' /\ ~HasRead(v)' /\ ~Done(v)'
  BY DEF Working, HasRead, Done
<1>2. CallOwnsJob(v)'
  BY DEF CallInv, CallOwnsJob
<1>3. worker'[v].at \notin {"publish", "replace", "verify", "recover", "markApplied"}
  BY DEF Working
<1> QED
  BY <1>1, <1>2, <1>3 DEF CallInv, CallIsPending, CallFollowsFile

\* What is left to show of a step of a working call that does not touch the
\* rows: what the call itself knows, and what the disk must keep.
LEMMA WorkStep ==
  ASSUME ConfigurationInv, NEW w \in Workers, Working(w),
         UNCHANGED <<state, revision, exclusive, request>>,
         worker'[w] \in Call, worker' = [worker EXCEPT ![w] = worker'[w]],
         worker'[w].at # "idle", worker'[w].request = worker[w].request,
         host' \in Host, disk' \in Disk,
         CallInv(w)', RecordedContentIsKept',
         \A r \in Requests :
             revision[r].status = "applied" => disk'.published[r] = disk.published[r]
  PROVE  ConfigurationInv'
<1> USE DEF ConfigurationInv
<1>1. ConfigurationTypeOK'
  BY DEF ConfigurationTypeOK
<1>2. ASSUME NEW v \in Workers PROVE CallInv(v)'
  <2>1. CASE v = w
    BY <2>1
  <2>2. CASE v # w
    <3>1. ~Working(v) /\ CallInv(v)
      BY <2>2, OneWorking
    <3>2. worker'[v] = worker[v]
      BY <2>2 DEF ConfigurationTypeOK
    <3> QED
      BY <3>1, <3>2, Undisturbed
  <2> QED
    BY <2>1, <2>2
<1>3. CallsApart'
  <2>1. \A v \in Workers : /\ worker'[v].request = worker[v].request
                           /\ worker'[v].at # "idle" => worker[v].at # "idle"
    BY DEF ConfigurationTypeOK, Working
  <2> QED
    BY <2>1 DEF CallsApart
<1>4. RevisionsFollowJobs'
  BY DEF RevisionsFollowJobs
<1>5. AppliedCanBeUndone'
  BY DEF AppliedCanBeUndone
<1> QED
  BY <1>1, <1>2, <1>3, <1>4, <1>5

-----------------------------------------------------------------------------
(* The stages of a working call                                               *)

\* The two looks at the server, before and after the change.
LEMMA GuardStep ==
  ASSUME ConfigurationInv, NEW w \in Workers, Guard(w) \/ GuardAgain(w)
  PROVE  ConfigurationInv'
<1> USE DEF ConfigurationInv
<1>1. Working(w)
  BY DEF Guard, GuardAgain, Working
<1>2. /\ worker' = [worker EXCEPT ![w] = worker'[w]]
      /\ worker'[w] \in Call
      /\ worker'[w].at \in {"lockFile", "markApplied", "markFailed"}
      /\ worker'[w].at = "markApplied" =>
             worker'[w].failure = "none" /\ Done(w)
      /\ \A f \in {"request", "version", "seen", "intended"} : worker'[w][f] = worker[w][f]
  <2>1. worker[w] \in Call /\ worker \in [Workers -> Call]
    BY DEF ConfigurationTypeOK
  <2> QED
    BY <2>1 DEF Guard, GuardAgain, GoTo, FailAt, Call, Stages, Failures, Done
<1>3. UNCHANGED <<host, disk, state, revision, exclusive, request>>
  BY DEF Guard, GuardAgain
<1>4. CallInv(w)'
  <2>1. CallOwnsJob(w)'
    BY <1>1, <1>2, <1>3 DEF CallInv, CallOwnsJob, Working
  <2>2. CallIsPending(w)'
    BY <1>1, <1>2, <1>3 DEF CallInv, CallIsPending, Pending, Asked
  <2>3. HasRead(w)' => Done(w) /\ worker'[w].at = "markApplied"
    BY <1>2 DEF HasRead, Done
  <2>4. CallFollowsFile(w)'
    BY <1>2, <1>3, <2>3 DEF CallInv, CallFollowsFile, HasRead, Done, Asked
  <2> QED
    BY <2>1, <2>2, <2>4 DEF CallInv
<1>5. RecordedContentIsKept' /\ host' \in Host /\ disk' \in Disk
  BY <1>3 DEF RecordedContentIsKept, ConfigurationTypeOK
<1>6. worker'[w].at # "idle" /\ worker'[w].request = worker[w].request
  BY <1>2
<1> QED
  BY <1>1, <1>2, <1>3, <1>4, <1>5, <1>6, WorkStep

LEMMA LockResourceStep ==
  ASSUME ConfigurationInv, NEW w \in Workers, LockResource(w)
  PROVE  ConfigurationInv'
<1> USE DEF ConfigurationInv
<1>1. Working(w)
  BY DEF LockResource, Working
<1>2. /\ worker' = [worker EXCEPT ![w] = worker'[w]]
      /\ worker'[w] \in Call
      /\ \/ worker'[w].at = "preflight"
         \/ worker'[w].at = "guardAgain" /\ worker'[w].failure = "refused"
      /\ \A f \in {"request", "version"} : worker'[w][f] = worker[w][f]
  <2>1. worker[w] \in Call /\ worker \in [Workers -> Call]
    BY DEF ConfigurationTypeOK
  <2> QED
    BY <2>1 DEF LockResource, GoTo, FailAt, Call, Stages, Failures
<1>3. /\ UNCHANGED <<host, state, revision, exclusive, request>>
      /\ disk' \in Disk /\ disk'.published = disk.published
  BY DEF LockResource, ConfigurationTypeOK, Disk
<1>4. CallInv(w)'
  <2>1. CallOwnsJob(w)'
    BY <1>1, <1>2, <1>3 DEF CallInv, CallOwnsJob, Working
  <2>2. CallIsPending(w)'
    BY <1>1, <1>2, <1>3 DEF CallInv, CallIsPending, Pending, Asked
  <2>3. CallFollowsFile(w)'
    BY <1>2 DEF CallFollowsFile, HasRead, Done
  <2> QED
    BY <2>1, <2>2, <2>3 DEF CallInv
<1>5. RecordedContentIsKept' /\ host' \in Host
  BY <1>3 DEF RecordedContentIsKept, ConfigurationTypeOK
<1>6. worker'[w].at # "idle" /\ worker'[w].request = worker[w].request
  BY <1>2
<1> QED
  BY <1>1, <1>2, <1>3, <1>4, <1>5, <1>6, WorkStep

LEMMA PreflightStep ==
  ASSUME ConfigurationInv, NEW w \in Workers, Preflight(w)
  PROVE  ConfigurationInv'
<1> DEFINE r == worker[w].request
<1> USE DEF ConfigurationInv
<1>1. Working(w) /\ r \in Requests
  BY DEF Preflight, Working, CallInv, CallOwnsJob
<1>2. /\ worker[w] \in Call /\ worker \in [Workers -> Call]
      /\ request[r] \in Command /\ disk \in Disk /\ host \in Host
  BY <1>1 DEF ConfigurationTypeOK
<1>3. /\ UNCHANGED <<state, revision, exclusive, request>>
      /\ host' \in Host /\ host'.file = host.file
  BY FaultType DEF Preflight
<1>4. disk' \in Disk /\ disk'.published = disk.published
  BY <1>1, <1>2 DEF Preflight, Disk
<1>5. ASSUME Accepted(w)
      PROVE  /\ host.file = state.current /\ host.file \in Contents
             /\ Material(w) \in Contents
             /\ Asked(w).source # NoRequest =>
                    Material(w) = disk.published[Asked(w).source].previous
  <2>1. Asked(w).expected = state.current /\ Asked(w) \in Command
    BY <1>1, <1>2 DEF CallInv, CallIsPending, Asked
  <2>2. \A s \in Requests : disk.published[s].previous \in Contents \cup {NoContent}
    BY <1>2 DEF Disk, RevisionDirectory, NoRevisionDirectory
  <2>3. Material(w) \in Contents \cup {NoContent}
    BY <2>1, <2>2 DEF Material, Command
  <2> QED
    BY <1>2, <1>5, <2>1, <2>3 DEF Accepted, Material, Host
<1>6. /\ worker' = [worker EXCEPT ![w] = worker'[w]]
      /\ worker'[w] \in Call
      /\ \A f \in {"request", "version"} : worker'[w][f] = worker[w][f]
      /\ \/ /\ Accepted(w) /\ worker'[w].at = "publish"
            /\ worker'[w].seen = host.file /\ worker'[w].intended = Material(w)
         \/ worker'[w].at = "cleanUp" /\ worker'[w].failure = "refused"
  BY <1>2, <1>5 DEF Preflight, FailAt, Call, Stages, Failures
<1>7. CallInv(w)'
  <2>1. CallOwnsJob(w)'
    BY <1>1, <1>3, <1>6 DEF CallInv, CallOwnsJob, Working
  <2>2. CallIsPending(w)'
    BY <1>1, <1>3, <1>6 DEF CallInv, CallIsPending, Pending, Asked
  <2>3. CallFollowsFile(w)'
    BY <1>3, <1>4, <1>5, <1>6 DEF CallFollowsFile, HasRead, Done, Asked
  <2> QED
    BY <2>1, <2>2, <2>3 DEF CallInv
<1>8. RecordedContentIsKept'
  BY <1>3, <1>4 DEF RecordedContentIsKept
<1>9. worker'[w].at # "idle" /\ worker'[w].request = worker[w].request
  BY <1>6
<1> QED
  BY <1>1, <1>3, <1>4, <1>6, <1>7, <1>8, <1>9, WorkStep

\* The revision directory of a call that works belongs to no applied revision.
LEMMA OwnDirectory ==
  ASSUME ConfigurationInv, NEW w \in Workers, Working(w)
  PROVE  /\ worker[w].request \in Requests
         /\ revision[worker[w].request].status = "prepared"
         /\ Asked(w).source # worker[w].request
BY DEF ConfigurationInv, CallInv, CallOwnsJob, CallIsPending, Pending, Working, ConfigurationTypeOK, Asked

LEMMA PublishStep ==
  ASSUME ConfigurationInv, NEW w \in Workers, Publish(w)
  PROVE  ConfigurationInv'
<1> DEFINE r == worker[w].request
<1> USE DEF ConfigurationInv
<1>1. Working(w) /\ HasRead(w)
  BY DEF Publish, Working, HasRead
<1>2. /\ r \in Requests /\ revision[r].status = "prepared"
      /\ Asked(w).source # r
  BY <1>1, OwnDirectory
<1>3. /\ worker[w] \in Call /\ worker \in [Workers -> Call]
      /\ disk \in Disk /\ host \in Host /\ state \in ApplicationState
      /\ Asked(w) \in Command
  BY <1>2 DEF ConfigurationTypeOK, Asked
<1>4. /\ worker[w].at = "publish"
      /\ worker[w].seen = state.current /\ worker[w].intended \in Contents
      /\ host.file = state.current /\ state.current \in Contents
  BY <1>1, <1>3 DEF Publish, CallInv, CallFollowsFile, ApplicationState
<1>5. /\ UNCHANGED <<state, revision, exclusive, request>>
      /\ host' \in Host /\ host'.file = host.file
  BY FaultType DEF Publish
<1>6. /\ disk' \in Disk
      /\ \A s \in Requests : s # r => disk'.published[s] = disk.published[s]
  <2> DEFINE directory == [previous |-> worker[w].seen, intended |-> worker[w].intended]
  <2>1. directory \in RevisionDirectory
    BY <1>4 DEF RevisionDirectory
  <2>2. \/ disk' = [disk EXCEPT !.staging = @ \ {r}, !.published[r] = directory]
        \/ disk' = disk
    BY DEF Publish
  <2>3. disk.published \in [Requests -> RevisionDirectory]
    BY <1>3 DEF Disk
  <2> HIDE DEF directory
  <2>4. CASE disk' = [disk EXCEPT !.staging = @ \ {r}, !.published[r] = directory]
    <3>1. disk'.published = [disk.published EXCEPT ![r] = directory]
      BY <1>3, <2>4 DEF Disk
    <3>2. disk'.published \in [Requests -> RevisionDirectory]
      BY <1>2, <2>1, <2>3, <3>1
    <3>3. /\ DOMAIN disk' = {"locked", "staging", "temporary", "published"}
          /\ disk' = [locked |-> disk.locked, staging |-> disk.staging \ {r},
                      temporary |-> disk.temporary, published |-> disk'.published]
      BY <1>3, <2>4 DEF Disk
    <3>4. disk' \in Disk
      BY <1>3, <3>2, <3>3 DEF Disk
    <3> QED
      BY <2>3, <3>1, <3>4
  <2> QED
    BY <1>3, <2>2, <2>4
<1>7. /\ worker' = [worker EXCEPT ![w] = worker'[w]]
      /\ worker'[w] \in Call
      /\ \A f \in {"request", "version", "seen", "intended"} : worker'[w][f] = worker[w][f]
      /\ \/ /\ worker'[w].at = "replace"
            /\ disk'.published[r] = [previous |-> worker[w].seen,
                                     intended |-> worker[w].intended]
         \/ worker'[w].at = "cleanUp" /\ worker'[w].failure = "refused"
  <2>1. CASE FailAt(w, "cleanUp", "refused")
    BY <1>3, <2>1 DEF FailAt, Call, Stages, Failures
  <2>2. CASE /\ disk' = [disk EXCEPT
                            !.staging = @ \ {r},
                            !.published[r] = [previous |-> worker[w].seen,
                                              intended |-> worker[w].intended]]
             /\ GoTo(w, "replace")
    <3>1. disk'.published[r] = [previous |-> worker[w].seen, intended |-> worker[w].intended]
      BY <1>2, <1>3, <2>2 DEF Disk
    <3> QED
      BY <1>3, <2>2, <3>1 DEF GoTo, Call, Stages
  <2> QED
    BY <2>1, <2>2 DEF Publish
<1>8. CallInv(w)'
  <2>1. CallOwnsJob(w)'
    BY <1>1, <1>5, <1>7 DEF CallInv, CallOwnsJob, Working
  <2>2. CallIsPending(w)'
    BY <1>1, <1>5, <1>7 DEF CallInv, CallIsPending, Pending, Asked
  <2>3. ASSUME Asked(w).source # NoRequest
        PROVE  worker[w].intended = disk'.published[Asked(w).source].previous
    <3>1. Asked(w).source \in Requests
      BY <1>3, <2>3 DEF Command
    <3> QED
      BY <1>1, <1>2, <1>6, <2>3, <3>1 DEF CallInv, CallFollowsFile
  <2>4. CallFollowsFile(w)'
    BY <1>4, <1>5, <1>7, <2>3 DEF CallFollowsFile, HasRead, Done, Asked
  <2> QED
    BY <2>1, <2>2, <2>4 DEF CallInv
<1>9. RecordedContentIsKept'
  BY <1>4, <1>5 DEF RecordedContentIsKept
<1>10. worker'[w].at # "idle" /\ worker'[w].request = worker[w].request
  BY <1>7
<1> QED
  BY <1>1, <1>2, <1>5, <1>6, <1>7, <1>8, <1>9, <1>10, WorkStep

\* Replacing the file, looking at it again, and putting it back.
LEMMA FileStep ==
  ASSUME ConfigurationInv, NEW w \in Workers, Replace(w) \/ Verify(w) \/ Recover(w)
  PROVE  ConfigurationInv'
<1> DEFINE r == worker[w].request
<1> USE DEF ConfigurationInv
<1>1. /\ Working(w) /\ HasRead(w)
      /\ worker[w].at \in {"replace", "verify", "recover"}
  BY DEF Replace, Verify, Recover, Working, HasRead
<1>2. r \in Requests
  BY <1>1, OwnDirectory
<1>3. /\ worker[w] \in Call /\ worker \in [Workers -> Call]
      /\ disk \in Disk /\ host \in Host /\ state \in ApplicationState
  BY DEF ConfigurationTypeOK
<1>4. /\ worker[w].seen = state.current /\ state.current \in Contents
      /\ worker[w].intended \in Contents
      /\ disk.published[r] = [previous |-> state.current, intended |-> worker[w].intended]
      /\ worker[w].at = "replace" => host.file = state.current
      /\ worker[w].at = "verify" => host.file = worker[w].intended
  BY <1>1, <1>3 DEF CallInv, CallFollowsFile, ApplicationState
<1>5. /\ UNCHANGED <<state, revision, exclusive, request>>
      /\ disk' \in Disk /\ disk'.published = disk.published
  BY <1>2, <1>3 DEF Replace, Verify, Recover, Disk
<1>6. /\ worker' = [worker EXCEPT ![w] = worker'[w]]
      /\ worker'[w] \in Call
      /\ \A f \in {"request", "version", "seen", "intended"} : worker'[w][f] = worker[w][f]
  BY <1>3 DEF Replace, Verify, Recover, GoTo, FailAt, Call, Stages, Failures
<1>7. /\ host' \in Host
      /\ host'.file \in {host.file, state.current, worker[w].intended}
      /\ \/ worker'[w].at = "verify" /\ host'.file = worker[w].intended
         \/ worker'[w].at = "recover"
         \/ worker'[w].at = "cleanUp" /\ worker[w].at = "verify" /\ host'.file = host.file
         \/ worker'[w].at = "cleanUp" /\ worker'[w].failure # "none"
  <2>1. CASE Replace(w)
    <3>1. CASE Fault /\ GoTo(w, "recover")
      BY <1>3, <3>1, FaultType DEF GoTo, Call
    <3>2. CASE host' = [host EXCEPT !.file = worker[w].intended] /\ GoTo(w, "verify")
      BY <1>3, <1>4, <3>2 DEF GoTo, Call, Host
    <3> QED
      BY <2>1, <3>1, <3>2 DEF Replace
  <2>2. CASE Verify(w)
    <3>1. host' \in Host /\ host'.file = host.file
      BY <2>2, FaultType DEF Verify
    <3> QED
      BY <1>3, <2>2, <3>1 DEF Verify, GoTo, Call
  <2>3. CASE Recover(w)
    <3>1. CASE Fault /\ FailAt(w, "cleanUp", "recovery")
      BY <1>3, <3>1, FaultType DEF FailAt, Call
    <3>2. CASE /\ host' = [host EXCEPT !.file = worker[w].seen]
               /\ FailAt(w, "cleanUp", "replacement")
      BY <1>3, <1>4, <3>2 DEF FailAt, Call, Host
    <3> QED
      BY <2>3, <3>1, <3>2 DEF Recover
  <2> QED
    BY <2>1, <2>2, <2>3
<1>8. CallInv(w)'
  <2>1. CallOwnsJob(w)'
    BY <1>1, <1>5, <1>6, <1>7 DEF CallInv, CallOwnsJob, Working
  <2>2. CallIsPending(w)'
    BY <1>1, <1>5, <1>6 DEF CallInv, CallIsPending, Pending, Asked
  <2>3. Asked(w).source # NoRequest =>
            worker[w].intended = disk.published[Asked(w).source].previous
    BY <1>1 DEF CallInv, CallFollowsFile
  <2>4. CallFollowsFile(w)'
    BY <1>4, <1>5, <1>6, <1>7, <2>3 DEF CallFollowsFile, HasRead, Done, Asked
  <2> QED
    BY <2>1, <2>2, <2>4 DEF CallInv
<1>9. RecordedContentIsKept'
  BY <1>2, <1>4, <1>5, <1>7 DEF RecordedContentIsKept
<1>10. worker'[w].at # "idle" /\ worker'[w].request = worker[w].request
  BY <1>6, <1>7
<1> QED
  BY <1>1, <1>5, <1>6, <1>7, <1>8, <1>9, <1>10, WorkStep

LEMMA CleanUpStep ==
  ASSUME ConfigurationInv, NEW w \in Workers, CleanUp(w)
  PROVE  ConfigurationInv'
<1> USE DEF ConfigurationInv
<1>1. Working(w)
  BY DEF CleanUp, Working
<1>2. /\ worker[w] \in Call /\ worker \in [Workers -> Call] /\ disk \in Disk
  BY DEF ConfigurationTypeOK
<1>3. /\ UNCHANGED <<state, revision, exclusive, request>>
      /\ host' \in Host /\ host'.file = host.file
  BY FaultType DEF CleanUp
<1>4. disk' \in Disk /\ disk'.published = disk.published
  <2> DEFINE r == worker[w].request
             clean == [disk EXCEPT !.staging = @ \ {r}, !.temporary = @ \ {r}, !.locked = FALSE]
  <2>1. clean \in Disk /\ clean.published = disk.published
    BY <1>2 DEF Disk
  <2>2. disk' \in {clean, [clean EXCEPT !.locked = TRUE],
                   [clean EXCEPT !.staging = disk.staging],
                   [clean EXCEPT !.temporary = disk.temporary]}
    BY DEF CleanUp
  <2> HIDE DEF clean
  <2> QED
    BY <1>2, <2>1, <2>2 DEF Disk
<1>5. /\ worker' = [worker EXCEPT ![w] = worker'[w]]
      /\ worker'[w] \in Call
      /\ \A f \in {"request", "version", "seen", "intended"} : worker'[w][f] = worker[w][f]
      /\ worker'[w].at = "guardAgain"
      /\ worker'[w].failure = "none" => Done(w)
  BY <1>2 DEF CleanUp, GoTo, FailAt, Call, Stages, Failures, Done
<1>6. CallInv(w)'
  <2>1. CallOwnsJob(w)'
    BY <1>1, <1>3, <1>5 DEF CallInv, CallOwnsJob, Working
  <2>2. CallIsPending(w)'
    BY <1>1, <1>3, <1>5 DEF CallInv, CallIsPending, Pending, Asked
  <2>3. CallFollowsFile(w)'
    BY <1>3, <1>4, <1>5 DEF CallInv, CallFollowsFile, HasRead, Done, Asked
  <2> QED
    BY <2>1, <2>2, <2>3 DEF CallInv
<1>7. RecordedContentIsKept'
  BY <1>3, <1>4 DEF RecordedContentIsKept
<1>8. worker'[w].at # "idle" /\ worker'[w].request = worker[w].request
  BY <1>5
<1> QED
  BY <1>1, <1>3, <1>4, <1>5, <1>6, <1>7, <1>8, WorkStep

-----------------------------------------------------------------------------
(* The other steps                                                            *)

\* Nothing the invariant speaks of moves with the server or the lock.
LEMMA EnvironmentStep ==
  ASSUME ConfigurationInv, UNCHANGED <<disk, state, revision, request, worker>>,
         host' \in Host, host'.file = host.file, exclusive' \in Requests \cup {NoRequest}
  PROVE  ConfigurationInv'
<1> USE DEF ConfigurationInv
<1>1. ConfigurationTypeOK'
  BY DEF ConfigurationTypeOK
<1>2. ASSUME NEW v \in Workers PROVE CallInv(v)'
  <2>1. CallInv(v)
    OBVIOUS
  <2> QED
    BY <2>1 DEF CallInv, CallOwnsJob, CallIsPending, CallFollowsFile, Working, HasRead, Done,
                Pending, Asked
<1>3. CallsApart' /\ RevisionsFollowJobs' /\ RecordedContentIsKept' /\ AppliedCanBeUndone'
  BY DEF CallsApart, RevisionsFollowJobs, RecordedContentIsKept, AppliedCanBeUndone
<1> QED
  BY <1>1, <1>2, <1>3

\* A call goes from one stage to the next outside its working part, or leaves it.
LEMMA QuietStep ==
  ASSUME ConfigurationInv, NEW w \in Workers,
         UNCHANGED <<disk, state, revision, request>>,
         host' \in Host, host'.file = host.file, exclusive' \in Requests \cup {NoRequest},
         worker[w].at # "idle",
         worker'[w] \in Call, worker' = [worker EXCEPT ![w] = worker'[w]],
         worker'[w].request = worker[w].request,
         \/ worker'[w].at = "prepare" /\ worker[w].at = "acquire"
         \/ worker'[w].at = "release"
  PROVE  ConfigurationInv'
<1> USE DEF ConfigurationInv
<1>1. ConfigurationTypeOK'
  BY DEF ConfigurationTypeOK
<1>2. ASSUME NEW v \in Workers PROVE CallInv(v)'
  <2>1. CallInv(v)
    OBVIOUS
  <2>2. CASE v = w
    <3>1. CallOwnsJob(w)'
      BY <2>1, <2>2 DEF CallInv, CallOwnsJob
    <3> QED
      BY <2>2, <3>1 DEF CallInv, CallIsPending, CallFollowsFile, Working, HasRead, Done
  <2>3. CASE v # w
    <3>1. worker'[v] = worker[v]
      BY <2>3 DEF ConfigurationTypeOK
    <3> QED
      BY <2>1, <3>1 DEF CallInv, CallOwnsJob, CallIsPending, CallFollowsFile, Working, HasRead,
                        Done, Pending, Asked
  <2> QED
    BY <2>2, <2>3
<1>3. CallsApart'
  <2>1. \A v \in Workers : /\ worker'[v].request = worker[v].request
                           /\ worker'[v].at # "idle" => worker[v].at # "idle"
    BY DEF ConfigurationTypeOK
  <2> QED
    BY <2>1 DEF CallsApart
<1>4. RevisionsFollowJobs' /\ RecordedContentIsKept' /\ AppliedCanBeUndone'
  BY DEF RevisionsFollowJobs, RecordedContentIsKept, AppliedCanBeUndone
<1> QED
  BY <1>1, <1>2, <1>3, <1>4

\* A call ends and its job has an outcome.
LEMMA EndStep ==
  ASSUME ConfigurationInv, NEW w \in Workers, NEW outcome,
         outcome \in {"applied", "failed", "unrecorded", "lost"},
         worker[w].at # "idle", End(w, outcome),
         UNCHANGED <<disk, state, revision>>,
         host' \in Host, host'.file = host.file, exclusive' \in Requests \cup {NoRequest}
  PROVE  ConfigurationInv'
<1> DEFINE r == worker[w].request
<1> USE DEF ConfigurationInv
<1>1. /\ r \in Requests
      /\ worker' = [worker EXCEPT ![w] = NoCall]
      /\ request' = [request EXCEPT ![r].status = outcome]
      /\ request \in [Requests -> Command] /\ worker \in [Workers -> Call]
  BY DEF CallInv, CallOwnsJob, End, ConfigurationTypeOK
<1>2. /\ request' \in [Requests -> Command]
      /\ \A q \in Requests : /\ request'[q].source = request[q].source
                             /\ q # r => request'[q] = request[q]
      /\ request'[r].status = outcome
  BY <1>1 DEF Command
<1>3. NoCall \in Call
  BY DEF NoCall, Call, Stages, Failures
<1>4. ConfigurationTypeOK'
  BY <1>1, <1>2, <1>3 DEF ConfigurationTypeOK
<1>5. ASSUME NEW v \in Workers, v # w
      PROVE  /\ worker'[v] = worker[v]
             /\ worker[v].at # "idle" => worker[v].request \in Requests \ {r}
  BY <1>1, <1>5 DEF CallInv, CallOwnsJob, CallsApart
<1>6. worker'[w].at = "idle"
  BY <1>1 DEF NoCall
<1>7. ASSUME NEW v \in Workers PROVE CallInv(v)'
  <2>1. CASE v = w
    BY <1>6, <2>1 DEF CallInv, CallOwnsJob, CallIsPending, CallFollowsFile, Working, HasRead, Done
  <2>2. CASE v # w /\ worker[v].at = "idle"
    BY <1>5, <2>2 DEF CallInv, CallOwnsJob, CallIsPending, CallFollowsFile, Working, HasRead, Done
  <2>3. CASE v # w /\ worker[v].at # "idle"
    <3>1. worker'[v] = worker[v] /\ request'[worker[v].request] = request[worker[v].request]
      BY <1>2, <1>5, <2>3
    <3>2. CallInv(v)
      OBVIOUS
    <3> QED
      BY <3>1, <3>2 DEF CallInv, CallOwnsJob, CallIsPending, CallFollowsFile, Working, HasRead,
                        Done, Pending, Asked
  <2> QED
    BY <2>1, <2>2, <2>3
<1>8. CallsApart'
  BY <1>5, <1>6 DEF CallsApart
<1>9. RevisionsFollowJobs'
  BY <1>2 DEF RevisionsFollowJobs
<1>10. RecordedContentIsKept' /\ AppliedCanBeUndone'
  BY <1>2 DEF RecordedContentIsKept, AppliedCanBeUndone
<1> QED
  BY <1>4, <1>7, <1>8, <1>9, <1>10

\* A request that is new or queued has no call, and its revision does not exist.
LEMMA JobStep ==
  ASSUME ConfigurationInv, NEW r \in Requests,
         request[r].status \in {"new", "queued"},
         request' = [request EXCEPT ![r] = request'[r]], request'[r] \in Command,
         \/ request'[r].status = "queued" /\ UNCHANGED worker
         \/ /\ request[r].status = "queued" /\ request'[r].status = "taken"
            /\ \E w \in Workers :
                 /\ worker[w].at = "idle"
                 /\ worker' = [worker EXCEPT ![w] = [NoCall EXCEPT !.at = "acquire",
                                                                   !.request = r]],
         UNCHANGED <<host, disk, state, revision, exclusive>>
  PROVE  ConfigurationInv'
<1> USE DEF ConfigurationInv
<1>1. revision[r].status = "none"
  BY DEF RevisionsFollowJobs
<1>2. \A q \in Requests : q # r => request'[q] = request[q]
  BY DEF ConfigurationTypeOK
<1>3. ASSUME NEW v \in Workers, worker[v].at # "idle"
      PROVE  worker[v].request \in Requests \ {r}
  BY <1>3 DEF CallInv, CallOwnsJob
<1>4. ASSUME NEW v \in Workers, worker'[v] = worker[v]
      PROVE  CallInv(v)'
  <2>1. CASE worker[v].at = "idle"
    BY <1>4, <2>1 DEF CallInv, CallOwnsJob, CallIsPending, CallFollowsFile, Working, HasRead, Done
  <2>2. CASE worker[v].at # "idle"
    <3>1. CallInv(v) /\ request'[worker[v].request] = request[worker[v].request]
      BY <1>2, <1>3, <2>2
    <3> QED
      BY <1>4, <3>1 DEF CallInv, CallOwnsJob, CallIsPending, CallFollowsFile, Working, HasRead,
                        Done, Pending, Asked
  <2> QED
    BY <2>1, <2>2
<1>5. RevisionsFollowJobs'
  BY <1>1, <1>2 DEF RevisionsFollowJobs
<1>6. RecordedContentIsKept' /\ AppliedCanBeUndone'
  BY <1>1, <1>2 DEF RecordedContentIsKept, AppliedCanBeUndone
<1>7. request' \in [Requests -> Command]
  BY DEF ConfigurationTypeOK
<1>8. CASE request'[r].status = "queued" /\ UNCHANGED worker
  <2>1. ConfigurationTypeOK' /\ CallsApart'
    BY <1>7, <1>8 DEF ConfigurationTypeOK, CallsApart
  <2> QED
    BY <1>4, <1>5, <1>6, <1>8, <2>1
<1>9. ASSUME request'[r].status = "taken",
             NEW w \in Workers, worker[w].at = "idle",
             worker' = [worker EXCEPT ![w] = [NoCall EXCEPT !.at = "acquire", !.request = r]]
      PROVE  ConfigurationInv'
  <2>1. worker \in [Workers -> Call]
    BY DEF ConfigurationTypeOK
  <2>2. /\ worker'[w] \in Call
        /\ worker'[w].at = "acquire" /\ worker'[w].request = r
        /\ \A v \in Workers : v # w => worker'[v] = worker[v]
    BY <1>9, <2>1 DEF NoCall, Call, Stages, Failures
  <2>3. ConfigurationTypeOK'
    BY <1>7, <1>9, <2>1, <2>2 DEF ConfigurationTypeOK
  <2>4. CallInv(w)'
    BY <1>1, <1>9, <2>2 DEF CallInv, CallOwnsJob, CallIsPending, CallFollowsFile, Working,
                            HasRead, Done
  <2>5. CallsApart'
    BY <1>3, <1>9, <2>2 DEF CallsApart
  <2> QED
    BY <1>4, <1>5, <1>6, <2>2, <2>3, <2>4, <2>5
<1> QED
  BY <1>8, <1>9

LEMMA RequestStep ==
  ASSUME ConfigurationInv, NEW r \in Requests, RequestUpdate(r) \/ RequestRollback(r)
  PROVE  ConfigurationInv'
<1>1. PICK source \in Requests \cup {NoRequest}, content \in Contents \cup {NoContent} :
         Enqueue(r, source, content)
  BY DEF RequestUpdate, RequestRollback
<1>2. state \in ApplicationState /\ request \in [Requests -> Command]
  BY DEF ConfigurationInv, ConfigurationTypeOK
<1>3. /\ request' = [request EXCEPT ![r] = request'[r]]
      /\ request'[r] \in Command /\ request'[r].status = "queued"
      /\ request[r].status = "new"
  BY <1>1, <1>2 DEF Enqueue, Command, ApplicationState
<1> QED
  BY <1>1, <1>3, JobStep DEF Enqueue

LEMMA TakeJobStep ==
  ASSUME ConfigurationInv, NEW w \in Workers, NEW r \in Requests, TakeJob(w, r)
  PROVE  ConfigurationInv'
<1>1. request \in [Requests -> Command]
  BY DEF ConfigurationInv, ConfigurationTypeOK
<1>2. /\ request' = [request EXCEPT ![r] = request'[r]]
      /\ request'[r] \in Command /\ request'[r].status = "taken"
      /\ request[r].status = "queued"
  BY <1>1 DEF TakeJob, Command
<1> QED
  BY <1>2, JobStep DEF TakeJob

LEMMA AcquireStep ==
  ASSUME ConfigurationInv, NEW w \in Workers, Acquire(w)
  PROVE  ConfigurationInv'
<1>1. /\ worker[w] \in Call /\ worker \in [Workers -> Call]
      /\ worker[w].at = "acquire" /\ worker[w].request \in Requests
      /\ ConfigurationTypeOK /\ exclusive \in Requests \cup {NoRequest}
  BY DEF Acquire, ConfigurationInv, ConfigurationTypeOK, CallInv, CallOwnsJob
<1>2. host' \in Host /\ host'.file = host.file
  BY <1>1, FaultType DEF Acquire
<1>3. CASE /\ exclusive' = worker[w].request
           /\ GoTo(w, "prepare") /\ UNCHANGED request
  <2>1. /\ worker' = [worker EXCEPT ![w] = worker'[w]]
        /\ worker'[w] \in Call /\ worker'[w].at = "prepare"
        /\ worker'[w].request = worker[w].request
    BY <1>1, <1>3 DEF GoTo, Call, Stages
  <2> QED
    BY <1>1, <1>2, <1>3, <2>1, QuietStep DEF Acquire
<1>4. CASE End(w, "failed") /\ UNCHANGED exclusive
  BY <1>1, <1>2, <1>4, EndStep DEF Acquire
<1> QED
  BY <1>3, <1>4 DEF Acquire

LEMMA ReleaseStep ==
  ASSUME ConfigurationInv, NEW w \in Workers, Release(w)
  PROVE  ConfigurationInv'
<1>1. /\ worker[w].at = "release"
      /\ ConfigurationTypeOK /\ exclusive \in Requests \cup {NoRequest}
      /\ UNCHANGED <<disk, state, revision>>
  BY DEF Release, ConfigurationInv, ConfigurationTypeOK
<1>2. host' \in Host /\ host'.file = host.file
  BY <1>1, FaultType DEF Release
<1>3. exclusive' \in Requests \cup {NoRequest}
  BY <1>1 DEF Release
<1>4. \E outcome \in {"applied", "failed", "unrecorded", "lost"} : End(w, outcome)
  BY DEF Release
<1> QED
  BY <1>1, <1>2, <1>3, <1>4, EndStep

LEMMA CrashStep ==
  ASSUME ConfigurationInv, NEW w \in Workers, Crash(w)
  PROVE  ConfigurationInv'
<1>1. ConfigurationTypeOK /\ exclusive' \in Requests \cup {NoRequest}
  BY DEF ConfigurationInv, ConfigurationTypeOK, Crash
<1>2. host' \in Host /\ host'.file = host.file
  BY <1>1, FaultType DEF Crash
<1> QED
  BY <1>1, <1>2, EndStep DEF Crash

LEMMA ServerStep ==
  ASSUME ConfigurationInv, LockLapses \/ ServerStarts \/ ServerStops
  PROVE  ConfigurationInv'
<1>1. /\ ConfigurationTypeOK /\ host \in Host
      /\ exclusive \in Requests \cup {NoRequest}
  BY DEF ConfigurationInv, ConfigurationTypeOK
<1>2. CASE LockLapses
  <2>1. host' \in Host /\ host'.file = host.file
    BY <1>1, <1>2, FaultType DEF LockLapses
  <2> QED
    BY <1>2, <2>1, EnvironmentStep DEF LockLapses
<1>3. CASE ServerStarts
  <2>1. host.starts + 1 \in 0 .. MaxStarts
    BY <1>1, <1>3 DEF ServerStarts, Host
  <2>2. host' \in Host /\ host'.file = host.file
    BY <1>1, <1>3, <2>1 DEF ServerStarts, Host
  <2> QED
    BY <1>1, <1>3, <2>2, EnvironmentStep DEF ServerStarts
<1>4. CASE ServerStops
  <2>1. host' \in Host /\ host'.file = host.file
    BY <1>1, <1>4 DEF ServerStops, Host
  <2> QED
    BY <1>1, <1>4, <2>1, EnvironmentStep DEF ServerStops
<1> QED
  BY <1>2, <1>3, <1>4

-----------------------------------------------------------------------------
(* The rows                                                                   *)

\* A call that is not working undisturbed by a row of another request.
LEMMA OthersUndisturbed ==
  ASSUME ConfigurationInv, NEW w \in Workers, worker[w].at # "idle",
         NEW v \in Workers, v # w, ~Working(v),
         worker' = [worker EXCEPT ![w] = worker'[w]], UNCHANGED request,
         \A q \in Requests : q # worker[w].request => revision'[q] = revision[q]
  PROVE  CallInv(v)'
<1>1. worker'[v] = worker[v]
  BY DEF ConfigurationInv, ConfigurationTypeOK
<1>2. CallInv(v)
  BY DEF ConfigurationInv
<1>3. worker[v].at # "idle" => worker[v].request \in Requests \ {worker[w].request}
  BY DEF ConfigurationInv, CallInv, CallOwnsJob, CallsApart
<1> QED
  BY <1>1, <1>2, <1>3, Undisturbed

LEMMA PrepareStep ==
  ASSUME ConfigurationInv, NEW w \in Workers, Prepare(w)
  PROVE  ConfigurationInv'
<1> DEFINE r == worker[w].request
<1> USE DEF ConfigurationInv
<1>1. /\ worker[w].at = "prepare" /\ r \in Requests
      /\ revision[r].status = "none" /\ request[r].status = "taken"
  BY DEF Prepare, CallInv, CallOwnsJob
<1>2. /\ worker[w] \in Call /\ worker \in [Workers -> Call]
      /\ state \in ApplicationState /\ revision \in [Requests -> Revision]
      /\ Asked(w) \in Command /\ exclusive \in Requests \cup {NoRequest}
  BY <1>1 DEF ConfigurationTypeOK, Asked
<1>3. /\ host' \in Host /\ host'.file = host.file
      /\ UNCHANGED <<disk, exclusive, request>>
  BY FaultType DEF Prepare
<1>4. CASE FailAt(w, "release", "refused") /\ UNCHANGED <<revision, state>>
  <2>1. /\ worker' = [worker EXCEPT ![w] = worker'[w]]
        /\ worker'[w] \in Call /\ worker'[w].at = "release"
        /\ worker'[w].request = worker[w].request
    BY <1>2, <1>4 DEF FailAt, Call, Stages, Failures
  <2> QED
    BY <1>1, <1>2, <1>3, <1>4, <2>1, QuietStep
<1>5. CASE Preparable(w) /\ ~(FailAt(w, "release", "refused") /\ UNCHANGED <<revision, state>>)
  <2>1. /\ revision' = [revision EXCEPT ![r].status = "prepared"]
        /\ state' = [state EXCEPT !.status = "prepared", !.pending = r, !.version = @ + 1]
        /\ worker' = [worker EXCEPT ![w].at = "guard", ![w].version = state.version + 1]
    BY <1>5 DEF Prepare
  <2>2. /\ state' \in ApplicationState /\ state'.status = "prepared" /\ state'.pending = r
        /\ state'.version = state.version + 1 /\ state'.current = state.current
        /\ state.version + 1 \in Nat
    <3>1. state.version \in Nat /\ state.version + 1 \in Nat
      BY <1>2 DEF ApplicationState
    <3>2. /\ state'.status = "prepared" /\ state'.pending = r
          /\ state'.version = state.version + 1 /\ state'.current = state.current
          /\ state'.lastApplied = state.lastApplied
      BY <1>2, <2>1 DEF ApplicationState
    <3>3. state' \in ApplicationState
      BY <1>1, <1>2, <2>1, <3>1 DEF ApplicationState
    <3> QED
      BY <3>1, <3>2, <3>3
  <2>3. /\ revision' \in [Requests -> Revision]
        /\ revision'[r].status = "prepared"
        /\ \A q \in Requests : q # r => revision'[q] = revision[q]
    BY <1>1, <1>2, <2>1 DEF Revision
  <2>4. /\ worker' = [worker EXCEPT ![w] = worker'[w]]
        /\ worker'[w] \in Call /\ worker'[w].at = "guard"
        /\ worker'[w].request = r /\ worker'[w].version = state'.version
    BY <1>2, <2>1, <2>2 DEF Call, Stages
  <2>5. ConfigurationTypeOK'
    BY <1>2, <1>3, <2>2, <2>3, <2>4 DEF ConfigurationTypeOK
  <2>6. \A s \in Requests : revision[s].status = "applied" =>
            s # r /\ revision'[s] = revision[s]
    BY <1>1, <2>3
  <2>7. CallInv(w)'
    <3>1. CallOwnsJob(w)'
      BY <1>1, <1>3, <2>4 DEF CallOwnsJob
    <3>2. /\ Asked(w).expected = state.current
          /\ Asked(w).source # NoRequest =>
                 Asked(w).source \in Requests /\ revision[Asked(w).source].status = "applied"
      BY <1>2, <1>5 DEF Preparable, Command
    <3>3. CallIsPending(w)'
      BY <1>3, <2>2, <2>3, <2>4, <2>6, <3>2 DEF CallIsPending, Pending, Asked
    <3>4. CallFollowsFile(w)'
      BY <2>4 DEF CallFollowsFile, HasRead, Done
    <3> QED
      BY <3>1, <3>3, <3>4 DEF CallInv
  <2>8. ASSUME NEW v \in Workers, v # w PROVE CallInv(v)'
    <3>1. ~Working(v)
      BY <1>5 DEF CallInv, CallIsPending, Pending, Preparable
    <3> QED
      BY <1>1, <1>3, <2>3, <2>4, <2>8, <3>1, OthersUndisturbed
  <2>9. CallsApart'
    BY <1>1, <1>2, <2>4 DEF CallsApart
  <2>10. RevisionsFollowJobs'
    BY <1>1, <1>3, <2>3, <2>6 DEF RevisionsFollowJobs, ConfigurationTypeOK, Command
  <2>11. RecordedContentIsKept'
    BY <1>3, <2>2 DEF RecordedContentIsKept
  <2>12. AppliedCanBeUndone'
    <3>1. \A q \in Requests : revision'[q].status = "applied" =>
              q # r /\ revision[q].status = "applied"
      BY <2>3
    <3>2. \A q \in Requests : revision[q].status = "applied" /\ request[q].source # NoRequest =>
              request[q].source \in Requests /\ request[q].source # r
      BY <1>1 DEF RevisionsFollowJobs, ConfigurationTypeOK, Command
    <3> QED
      BY <1>3, <2>3, <3>1, <3>2 DEF AppliedCanBeUndone
  <2> QED
    BY <2>5, <2>7, <2>8, <2>9, <2>10, <2>11, <2>12
<1> QED
  BY <1>4, <1>5 DEF Prepare

\* The database did not take the decision of a call.
LEMMA UndecidedStep ==
  ASSUME ConfigurationInv, NEW w \in Workers, Working(w),
         host' \in Host, host'.file = host.file,
         FailAt(w, "release", "persistence"),
         UNCHANGED <<disk, state, revision, exclusive, request>>
  PROVE  ConfigurationInv'
<1>1. /\ worker[w] \in Call /\ worker \in [Workers -> Call] /\ worker[w].at # "idle"
      /\ exclusive \in Requests \cup {NoRequest}
  BY DEF ConfigurationInv, ConfigurationTypeOK, Working
<1>2. /\ worker' = [worker EXCEPT ![w] = worker'[w]]
      /\ worker'[w] \in Call /\ worker'[w].at = "release"
      /\ worker'[w].request = worker[w].request
  BY <1>1 DEF FailAt, Call, Stages, Failures
<1> QED
  BY <1>1, <1>2, QuietStep

\* The database took it: what a decision keeps, whichever it is.
LEMMA DecidedStep ==
  ASSUME ConfigurationInv, NEW w \in Workers, Working(w),
         NEW decision \in {"applied", "failed"},
         NEW row \in Revision, row.status = decision,
         revision' = [revision EXCEPT ![worker[w].request] = row],
         state' \in ApplicationState,
         GoTo(w, "release"), UNCHANGED <<host, disk, exclusive, request>>,
         RecordedContentIsKept',
         decision = "applied" =>
             /\ disk.published[worker[w].request] =
                    [previous |-> row.previous, intended |-> row.current]
             /\ Asked(w).source # NoRequest =>
                    row.current = revision[Asked(w).source].previous
  PROVE  ConfigurationInv'
<1> DEFINE r == worker[w].request
<1> USE DEF ConfigurationInv
<1>1. /\ r \in Requests /\ revision[r].status = "prepared"
      /\ Asked(w).source # r /\ Asked(w) = request[r]
      /\ request[r].status = "taken"
      /\ request[r].source # NoRequest => revision[request[r].source].status = "applied"
  BY OwnDirectory DEF CallInv, CallOwnsJob, CallIsPending, Asked, Working
<1>2. /\ worker[w] \in Call /\ worker \in [Workers -> Call]
      /\ revision \in [Requests -> Revision] /\ request \in [Requests -> Command]
      /\ worker[w].at # "idle"
  BY DEF ConfigurationTypeOK, Working
<1>3. /\ worker' = [worker EXCEPT ![w] = worker'[w]]
      /\ worker'[w] \in Call /\ worker'[w].at = "release" /\ worker'[w].request = r
  BY <1>2 DEF GoTo, Call, Stages
<1>4. /\ revision' \in [Requests -> Revision]
      /\ revision'[r] = row
      /\ \A q \in Requests : q # r => revision'[q] = revision[q]
  BY <1>1, <1>2
<1>5. ConfigurationTypeOK'
  BY <1>2, <1>3, <1>4 DEF ConfigurationTypeOK
<1>6. CallInv(w)'
  BY <1>1, <1>3 DEF CallInv, CallOwnsJob, CallIsPending, CallFollowsFile, Working, HasRead, Done
<1>7. ASSUME NEW v \in Workers, v # w PROVE CallInv(v)'
  <2>1. ~Working(v)
    BY <1>7, OneWorking
  <2> QED
    BY <1>2, <1>3, <1>4, <1>7, <2>1, OthersUndisturbed
<1>8. CallsApart'
  BY <1>2, <1>3 DEF CallsApart
<1>9. \A q \in Requests : request[q].source # NoRequest => request[q].source \in Requests
  BY <1>2 DEF Command
<1>10. ASSUME NEW q \in Requests, revision[q].status = "applied"
       PROVE  /\ q # r /\ revision'[q] = revision[q]
              /\ request[q].source # NoRequest =>
                     /\ request[q].source # r
                     /\ revision'[request[q].source] = revision[request[q].source]
                     /\ revision[request[q].source].status = "applied"
  BY <1>1, <1>4, <1>9, <1>10 DEF RevisionsFollowJobs
<1>11. request[r].source # NoRequest =>
           revision'[request[r].source] = revision[request[r].source]
  BY <1>1, <1>4, <1>9
<1>12. RevisionsFollowJobs'
  <2>1. ASSUME NEW q \in Requests, request[q].status \in {"new", "queued"}
        PROVE  revision'[q].status = "none"
    BY <1>1, <1>4, <2>1 DEF RevisionsFollowJobs
  <2>2. ASSUME NEW q \in Requests, revision'[q].status = "applied",
               request[q].source # NoRequest
        PROVE  revision'[request[q].source].status = "applied"
    BY <1>1, <1>4, <1>10, <1>11, <2>2
  <2> QED
    BY <2>1, <2>2 DEF RevisionsFollowJobs
<1>13. AppliedCanBeUndone'
  <2>1. ASSUME NEW q \in Requests, revision'[q].status = "applied"
        PROVE  /\ disk.published[q] = [previous |-> revision'[q].previous,
                                       intended |-> revision'[q].current]
               /\ request[q].source # NoRequest =>
                      revision'[q].current = revision'[request[q].source].previous
    <3>1. CASE q = r
      BY <1>1, <1>4, <1>11, <2>1, <3>1
    <3>2. CASE q # r
      BY <1>4, <1>10, <2>1, <3>2 DEF AppliedCanBeUndone
    <3> QED
      BY <3>1, <3>2
  <2> QED
    BY <2>1 DEF AppliedCanBeUndone
<1> QED
  BY <1>5, <1>6, <1>7, <1>8, <1>12, <1>13

\* A call that marks its revision applied has written the file, upon what the
\* control plane records.
LEMMA AppliedOnRecord ==
  ASSUME ConfigurationInv, NEW w \in Workers, worker[w].at = "markApplied"
  PROVE  /\ Working(w) /\ worker[w].request \in Requests
         /\ worker[w].seen = state.current /\ state.current \in Contents
         /\ worker[w].intended \in Contents /\ host.file = worker[w].intended
         /\ disk.published[worker[w].request] = [previous |-> worker[w].seen,
                                                 intended |-> worker[w].intended]
<1>1. Working(w) /\ CallInv(w)
  BY DEF Working, ConfigurationInv
<1>2. Done(w) /\ HasRead(w)
  BY <1>1 DEF CallInv, CallFollowsFile, Done, HasRead
<1>3. state \in ApplicationState
  BY DEF ConfigurationInv, ConfigurationTypeOK
<1> QED
  BY <1>1, <1>2, <1>3, OwnDirectory DEF CallInv, CallFollowsFile, ApplicationState

LEMMA MarkAppliedStep ==
  ASSUME ConfigurationInv, NEW w \in Workers, MarkApplied(w)
  PROVE  ConfigurationInv'
<1> DEFINE r == worker[w].request
           row == [revision[r] EXCEPT !.status = "applied", !.previous = worker[w].seen,
                                      !.current = worker[w].intended]
<1>1. /\ worker[w].at = "markApplied" /\ Working(w) /\ r \in Requests
      /\ worker[w].seen = state.current /\ state.current \in Contents
      /\ worker[w].intended \in Contents /\ host.file = worker[w].intended
      /\ disk.published[r] = [previous |-> worker[w].seen, intended |-> worker[w].intended]
  BY AppliedOnRecord DEF MarkApplied
<1>2. /\ ConfigurationTypeOK /\ state \in ApplicationState /\ revision[r] \in Revision
      /\ Asked(w) \in Command
  BY <1>1 DEF ConfigurationInv, ConfigurationTypeOK, Asked
<1>3. CASE /\ FailAt(w, "release", "persistence") /\ UNCHANGED <<revision, state>>
           /\ host' \in Host /\ host'.file = host.file
  BY <1>1, <1>3, UndecidedStep DEF MarkApplied
<1>4. CASE /\ revision' = [revision EXCEPT ![r] = row]
           /\ state' = [state EXCEPT !.status = "applied", !.pending = NoRequest,
                                     !.current = worker[w].intended,
                                     !.lastApplied = r, !.version = @ + 1]
           /\ GoTo(w, "release") /\ NoFault
  <2>1. row \in Revision /\ row.status = "applied"
        /\ row.previous = worker[w].seen /\ row.current = worker[w].intended
    BY <1>1, <1>2 DEF Revision
  <2>2. state.version \in Nat /\ state.version + 1 \in Nat
    BY <1>2 DEF ApplicationState
  <2>3. state' \in ApplicationState /\ state'.current = worker[w].intended
    BY <1>1, <1>2, <1>4, <2>2 DEF ApplicationState
  <2>4. UNCHANGED <<host, disk, exclusive, request>>
    BY <1>4 DEF MarkApplied, NoFault
  <2>5. RecordedContentIsKept'
    BY <1>1, <2>3, <2>4 DEF RecordedContentIsKept
  <2>6. Asked(w).source # NoRequest => row.current = revision[Asked(w).source].previous
    <3>1. SUFFICES ASSUME Asked(w).source # NoRequest
                   PROVE  worker[w].intended = revision[Asked(w).source].previous
      BY <2>1
    <3>2. /\ Asked(w).source \in Requests
          /\ revision[Asked(w).source].status = "applied"
          /\ HasRead(w)
          /\ worker[w].intended = disk.published[Asked(w).source].previous
      BY <1>1, <1>2, <3>1 DEF ConfigurationInv, CallInv, CallIsPending, CallFollowsFile, HasRead,
                              Done, Command
    <3>3. disk.published[Asked(w).source] =
              [previous |-> revision[Asked(w).source].previous,
               intended |-> revision[Asked(w).source].current]
      BY <3>2 DEF ConfigurationInv, AppliedCanBeUndone
    <3> QED
      BY <3>2, <3>3
  <2> HIDE DEF row
  <2> QED
    BY <1>1, <1>4, <2>1, <2>3, <2>4, <2>5, <2>6, DecidedStep
<1>5. host' \in Host /\ host'.file = host.file
  BY <1>2, FaultType DEF MarkApplied
<1> QED
  BY <1>3, <1>4, <1>5 DEF MarkApplied

LEMMA MarkFailedStep ==
  ASSUME ConfigurationInv, NEW w \in Workers, MarkFailed(w)
  PROVE  ConfigurationInv'
<1> DEFINE r == worker[w].request
           row == [revision[r] EXCEPT !.status = "failed", !.failure = worker[w].failure]
<1>1. Working(w) /\ r \in Requests
  BY OwnDirectory DEF MarkFailed, Working
<1>2. /\ ConfigurationTypeOK /\ state \in ApplicationState /\ revision[r] \in Revision
      /\ worker[w] \in Call
  BY <1>1 DEF ConfigurationInv, ConfigurationTypeOK
<1>3. CASE /\ FailAt(w, "release", "persistence") /\ UNCHANGED <<revision, state>>
           /\ host' \in Host /\ host'.file = host.file
  BY <1>1, <1>3, UndecidedStep DEF MarkFailed
<1>4. CASE /\ revision' = [revision EXCEPT ![r] = row]
           /\ state' = [state EXCEPT !.status = "failed", !.pending = NoRequest,
                                     !.version = @ + 1]
           /\ GoTo(w, "release") /\ NoFault
  <2>1. row \in Revision /\ row.status = "failed"
    BY <1>2 DEF Revision, Call
  <2>2. state.version \in Nat /\ state.version + 1 \in Nat
    BY <1>2 DEF ApplicationState
  <2>3. state' \in ApplicationState /\ state'.current = state.current
    BY <1>2, <1>4, <2>2 DEF ApplicationState
  <2>4. UNCHANGED <<host, disk, exclusive, request>>
    BY <1>4 DEF MarkFailed, NoFault
  <2>5. RecordedContentIsKept'
    BY <2>3, <2>4 DEF RecordedContentIsKept, ConfigurationInv
  <2> HIDE DEF row
  <2> QED
    BY <1>1, <1>4, <2>1, <2>3, <2>4, <2>5, DecidedStep
<1>5. host' \in Host /\ host'.file = host.file
  BY <1>2, FaultType DEF MarkFailed
<1> QED
  BY <1>3, <1>4, <1>5 DEF MarkFailed

-----------------------------------------------------------------------------

LEMMA InitInv == Init => ConfigurationInv
<1> SUFFICES ASSUME Init PROVE ConfigurationInv
  OBVIOUS
<1>1. PICK c \in Contents :
        /\ host = [file |-> c, running |-> FALSE, faults |-> MaxFaults, starts |-> 0]
        /\ disk = [locked |-> FALSE, staging |-> {}, temporary |-> {},
                   published |-> [r \in Requests |-> NoRevisionDirectory]]
        /\ state = [status |-> "registered", current |-> c, pending |-> NoRequest,
                    lastApplied |-> NoRequest, version |-> 1]
        /\ revision = [r \in Requests |-> NoRevision]
        /\ exclusive = NoRequest
        /\ request = [r \in Requests |-> NoCommand]
        /\ worker = [w \in Workers |-> NoCall]
  BY DEF Init
<1>2. host \in Host
  BY <1>1 DEF Host
<1>3. disk \in Disk
  BY <1>1 DEF Disk, RevisionDirectory
<1>4. state \in ApplicationState
  BY <1>1 DEF ApplicationState
<1>5. revision \in [Requests -> Revision]
  BY <1>1 DEF NoRevision, Revision, Failures
<1>6. request \in [Requests -> Command]
  BY <1>1 DEF NoCommand, Command
<1>7. worker \in [Workers -> Call]
  BY <1>1 DEF NoCall, Call, Stages, Failures
<1>8. ConfigurationTypeOK
  BY <1>1, <1>2, <1>3, <1>4, <1>5, <1>6, <1>7 DEF ConfigurationTypeOK
<1>9. \A w \in Workers : worker[w].at = "idle"
  BY <1>1 DEF NoCall
<1>10. \A w \in Workers : CallInv(w)
  BY <1>9 DEF CallInv, CallOwnsJob, CallIsPending, CallFollowsFile, Working, HasRead, Done
<1>11. \A r \in Requests : revision[r].status = "none"
  BY <1>1 DEF NoRevision
<1>12. CallsApart /\ RevisionsFollowJobs /\ AppliedCanBeUndone
  BY <1>9, <1>11 DEF CallsApart, RevisionsFollowJobs, AppliedCanBeUndone
<1>13. RecordedContentIsKept
  BY <1>1 DEF RecordedContentIsKept
<1> QED
  BY <1>8, <1>10, <1>12, <1>13 DEF ConfigurationInv

LEMMA NextInv == ConfigurationInv /\ [Next]_vars => ConfigurationInv'
<1> SUFFICES ASSUME ConfigurationInv, [Next]_vars PROVE ConfigurationInv'
  OBVIOUS
<1>1. ASSUME NEW r \in Requests, RequestUpdate(r) \/ RequestRollback(r)
      PROVE  ConfigurationInv'
  BY <1>1, RequestStep
<1>2. ASSUME NEW w \in Workers, NEW r \in Requests, TakeJob(w, r)
      PROVE  ConfigurationInv'
  BY <1>2, TakeJobStep
<1>3. ASSUME NEW w \in Workers, CallStep(w)
      PROVE  ConfigurationInv'
  BY <1>3, AcquireStep, PrepareStep, GuardStep, LockResourceStep, PreflightStep, PublishStep,
     FileStep, CleanUpStep, MarkAppliedStep, MarkFailedStep, ReleaseStep DEF CallStep
<1>4. ASSUME NEW w \in Workers, Crash(w)
      PROVE  ConfigurationInv'
  BY <1>4, CrashStep
<1>5. CASE LockLapses \/ ServerStarts \/ ServerStops
  BY <1>5, ServerStep
<1>6. CASE UNCHANGED vars
  <2>1. ConfigurationTypeOK
    BY DEF ConfigurationInv
  <2> QED
    BY <1>6, <2>1, EnvironmentStep DEF vars, ConfigurationTypeOK
<1> QED
  BY <1>1, <1>2, <1>3, <1>4, <1>5, <1>6 DEF Next

\* The inductive invariant holds of every state the path can reach.
THEOREM ConfigurationInvariant == Spec => []ConfigurationInv
BY InitInv, NextInv, PTL DEF Spec

\* The rows, the files and the calls hold what they may hold.
THEOREM ConfigurationTypeCorrect == Spec => []ConfigurationTypeOK
<1>1. ConfigurationInv => ConfigurationTypeOK
  BY DEF ConfigurationInv
<1> QED
  BY <1>1, ConfigurationInvariant, PTL

\* Whatever fails and whoever dies, the recorded content is in the file or in
\* the revision that replaced it.
THEOREM RecordedContentNeverLost == Spec => []RecordedContentIsKept
<1>1. ConfigurationInv => RecordedContentIsKept
  BY DEF ConfigurationInv
<1> QED
  BY <1>1, ConfigurationInvariant, PTL

\* Every applied change keeps what it replaced, and a rollback put that back.
THEOREM EveryChangeCanBeUndone == Spec => []AppliedCanBeUndone
<1>1. ConfigurationInv => AppliedCanBeUndone
  BY DEF ConfigurationInv
<1> QED
  BY <1>1, ConfigurationInvariant, PTL

\* One step records a change as applied only upon the recorded content, and
\* only while the file holds the new one.
LEMMA RecordsTruth ==
  ASSUME ConfigurationInv, [Next]_vars, state'.lastApplied # state.lastApplied
  PROVE  LET done == revision'[state'.lastApplied]
         IN  /\ done.previous = state.current
             /\ state'.current = done.current /\ host'.file = done.current
<1>1. state \in ApplicationState
  BY DEF ConfigurationInv, ConfigurationTypeOK
<1>2. PICK w \in Workers : Prepare(w) \/ MarkApplied(w) \/ MarkFailed(w)
  BY DEF Next, vars, RequestUpdate, RequestRollback, Enqueue, TakeJob, CallStep, Acquire, Guard,
         LockResource, Preflight, Publish, Replace, Verify, Recover, CleanUp, GuardAgain, Release,
         Crash, LockLapses, ServerStarts, ServerStops
<1>3. ~Prepare(w) /\ ~MarkFailed(w)
  BY <1>1 DEF Prepare, MarkFailed, ApplicationState
<1> DEFINE r == worker[w].request
<1>4. /\ r \in Requests /\ worker[w].seen = state.current
      /\ host.file = worker[w].intended
  BY <1>2, <1>3, AppliedOnRecord DEF MarkApplied
<1>5. /\ revision' = [revision EXCEPT ![r] = [@ EXCEPT !.status = "applied",
                                                       !.previous = worker[w].seen,
                                                       !.current = worker[w].intended]]
      /\ state' = [state EXCEPT !.status = "applied", !.pending = NoRequest,
                                !.current = worker[w].intended,
                                !.lastApplied = r, !.version = @ + 1]
      /\ NoFault
  BY <1>2, <1>3 DEF MarkApplied
<1>6. state'.lastApplied = r /\ state'.current = worker[w].intended
  BY <1>1, <1>5 DEF ApplicationState
<1>7. revision'[r].previous = worker[w].seen /\ revision'[r].current = worker[w].intended
  BY <1>4, <1>5 DEF ConfigurationInv, ConfigurationTypeOK, Revision
<1> QED
  BY <1>4, <1>5, <1>6, <1>7 DEF NoFault

\* What is recorded as applied is what the file holds at that moment, and it
\* follows upon what was recorded before.
THEOREM AppliedRecordsAreTrue == Spec => AppliedIsTrue
<1>1. ConfigurationInv /\ [Next]_vars =>
          [state'.lastApplied # state.lastApplied =>
              LET done == revision'[state'.lastApplied]
              IN  /\ done.previous = state.current
                  /\ state'.current = done.current /\ host'.file = done.current]_vars
  BY RecordsTruth
<1> QED
  BY <1>1, ConfigurationInvariant, PTL DEF Spec, AppliedIsTrue
-----------------------------------------------------------------------------
(* The change a reader is promised                                            *)

\* The call has not put the old content aside yet.
BeforeKeeping(w) ==
    worker[w].at \in {"acquire", "prepare", "guard", "lockFile", "preflight", "publish"}

\* A row is prepared exactly while a change is pending, a revision directory is
\* written once, and what a call writes differs from what it replaces.
KeptByCalls ==
    /\ state.status = "prepared" <=> state.pending # NoRequest
    /\ \A r \in Requests :
           request[r].status \in {"new", "queued"} => disk.published[r] = NoRevisionDirectory
    /\ \A w \in Workers :
           /\ BeforeKeeping(w) => disk.published[worker[w].request] = NoRevisionDirectory
           /\ worker[w].at = "publish" => worker[w].intended # worker[w].seen

\* Steps that publish no directory: the places of the calls and the statuses
\* of the requests only move forward.
LEMMA NothingKept ==
  ASSUME KeptByCalls, disk'.published = disk.published,
         state'.status = "prepared" <=> state'.pending # NoRequest,
         \A r \in Requests :
             request'[r].status \in {"new", "queued"} => request[r].status \in {"new", "queued"},
         \A v \in Workers :
             \/ worker'[v] = worker[v]
             \/ /\ BeforeKeeping(v)' =>
                       disk.published[worker'[v].request] = NoRevisionDirectory
                /\ worker'[v].at = "publish" => worker'[v].intended # worker'[v].seen
  PROVE  KeptByCalls'
BY DEF KeptByCalls, BeforeKeeping

\* A step of a call which publishes nothing.
LEMMA CallKeepsNothing ==
  ASSUME ConfigurationInv, KeptByCalls, NEW w \in Workers, worker[w].at # "idle",
         disk'.published = disk.published,
         state'.status = "prepared" <=> state'.pending # NoRequest,
         request' = request,
         worker' = [worker EXCEPT ![w] = worker'[w]],
         BeforeKeeping(w)' => BeforeKeeping(w) /\ worker'[w].request = worker[w].request,
         worker'[w].at = "publish" => worker'[w].intended # worker'[w].seen
  PROVE  KeptByCalls'
<1>1. \A v \in Workers : v # w => worker'[v] = worker[v]
  BY DEF ConfigurationInv, ConfigurationTypeOK
<1>2. BeforeKeeping(w)' => disk.published[worker'[w].request] = NoRevisionDirectory
  BY DEF KeptByCalls
<1> QED
  BY <1>1, <1>2, NothingKept

\* The request a call ends for is not new any more.
LEMMA EndKeepsNothing ==
  ASSUME ConfigurationInv, KeptByCalls, NEW w \in Workers, worker[w].at # "idle",
         NEW status \in {"applied", "failed", "unrecorded", "lost"}, End(w, status),
         disk'.published = disk.published, state' = state
  PROVE  KeptByCalls'
<1>1. /\ worker \in [Workers -> Call] /\ request \in [Requests -> Command]
      /\ worker[w].request \in Requests
  BY DEF ConfigurationInv, ConfigurationTypeOK, CallInv, CallOwnsJob
<1>2. \A r \in Requests :
          request'[r].status \in {"new", "queued"} => request[r].status \in {"new", "queued"}
  BY <1>1 DEF End, Command
<1>3. \A v \in Workers : worker'[v] = worker[v] \/ worker'[v].at = "idle"
  BY <1>1 DEF End, NoCall
<1>4. state'.status = "prepared" <=> state'.pending # NoRequest
  BY DEF KeptByCalls
<1> QED
  BY <1>2, <1>3, <1>4, NothingKept DEF BeforeKeeping

\* The stages of a call that move its place and neither the rows nor the
\* revision directories.
LEMMA PlaceMoves ==
  ASSUME ConfigurationInv, KeptByCalls, NEW w \in Workers,
         \/ Guard(w) \/ GuardAgain(w) \/ LockResource(w) \/ Replace(w) \/ Verify(w)
         \/ Recover(w) \/ CleanUp(w)
  PROVE  /\ UNCHANGED <<disk.published, state, revision, request>>
         /\ KeptByCalls'
<1>1. /\ worker \in [Workers -> Call] /\ worker[w] \in Call /\ disk \in Disk
  BY DEF ConfigurationInv, ConfigurationTypeOK
<1>2. /\ worker[w].at \in {"guard", "guardAgain", "lockFile", "replace", "verify", "recover",
                           "cleanUp"}
      /\ state' = state /\ request' = request /\ revision' = revision
  BY DEF Guard, GuardAgain, LockResource, Replace, Verify, Recover, CleanUp
<1>3. disk'.published = disk.published
  BY <1>1 DEF Guard, GuardAgain, LockResource, Replace, Verify, Recover, CleanUp, Disk
<1>4. \E stage \in Stages :
          /\ stage \notin {"acquire", "prepare", "guard", "publish"}
          /\ stage \in {"lockFile", "preflight"} => worker[w].at \in {"guard", "lockFile"}
          /\ \/ GoTo(w, stage)
             \/ \E failure \in Failures : FailAt(w, stage, failure)
  BY DEF Guard, GuardAgain, LockResource, Replace, Verify, Recover, CleanUp, Stages, Failures
<1>5. /\ worker' = [worker EXCEPT ![w] = worker'[w]]
      /\ worker'[w].at \notin {"acquire", "prepare", "guard", "publish"}
      /\ worker'[w].at \in {"lockFile", "preflight"} => worker[w].at \in {"guard", "lockFile"}
      /\ worker'[w].request = worker[w].request
  BY <1>1, <1>4 DEF GoTo, FailAt, Call
<1>6. state'.status = "prepared" <=> state'.pending # NoRequest
  BY <1>2 DEF KeptByCalls
<1> QED
  BY <1>2, <1>3, <1>5, <1>6, CallKeepsNothing DEF BeforeKeeping

LEMMA PreflightMoves ==
  ASSUME ConfigurationInv, KeptByCalls, NEW w \in Workers, Preflight(w)
  PROVE  /\ UNCHANGED <<disk.published, state, revision, request>>
         /\ host'.file = host.file
         /\ KeptByCalls'
<1>1. /\ worker \in [Workers -> Call] /\ worker[w] \in Call /\ disk \in Disk
  BY DEF ConfigurationInv, ConfigurationTypeOK
<1>2. /\ worker[w].at = "preflight"
      /\ state' = state /\ request' = request /\ revision' = revision
      /\ disk'.published = disk.published
  BY <1>1 DEF Preflight, Disk
<1>3. host'.file = host.file
  BY FaultType DEF Preflight, ConfigurationInv
<1>4. /\ worker' = [worker EXCEPT ![w] = worker'[w]]
      /\ worker'[w].at \in {"publish", "cleanUp"}
      /\ worker'[w].request = worker[w].request
      /\ worker'[w].at = "publish" => worker'[w].intended # worker'[w].seen
  <2>1. CASE FailAt(w, "cleanUp", "refused")
    BY <1>1, <2>1 DEF FailAt, Call
  <2>2. CASE Accepted(w) /\ worker' = [worker EXCEPT ![w].at = "publish", ![w].seen = host.file,
                                                    ![w].intended = Material(w)]
    <3>1. Material(w) # host.file
      BY <2>2 DEF Accepted
    <3> QED
      BY <1>1, <2>2, <3>1 DEF Call
  <2> QED
    BY <2>1, <2>2 DEF Preflight
<1>5. state'.status = "prepared" <=> state'.pending # NoRequest
  BY <1>2 DEF KeptByCalls
<1> QED
  BY <1>2, <1>3, <1>4, <1>5, CallKeepsNothing DEF BeforeKeeping

\* What a call that works has to do with the change under way.
LEMMA WorkerIsChange ==
  ASSUME ConfigurationInv, NEW w \in Workers, Working(w)
  PROVE  /\ worker[w].request \in Requests
         /\ state.pending = worker[w].request
         /\ Verdict[worker[w].request] = "open"
         /\ state.current \in Contents
         /\ worker[w].at \in {"replace", "verify", "recover"} \/ Done(w) =>
                /\ disk.published[worker[w].request] =
                       [previous |-> state.current, intended |-> worker[w].intended]
                /\ worker[w].seen = state.current
                /\ Change!Covered(worker[w].request)
<1>1. /\ worker[w].request \in Requests
      /\ revision[worker[w].request].status = "prepared"
  BY OwnDirectory
<1>2. CallInv(w) /\ state \in ApplicationState
  BY DEF ConfigurationInv, ConfigurationTypeOK
<1>3. state.pending = worker[w].request /\ state.current \in Contents
  BY <1>2 DEF CallInv, CallIsPending, Pending, ApplicationState
<1>4. ASSUME worker[w].at \in {"replace", "verify", "recover"} \/ Done(w)
      PROVE  /\ disk.published[worker[w].request] =
                    [previous |-> state.current, intended |-> worker[w].intended]
             /\ worker[w].seen = state.current
  BY <1>2, <1>4 DEF CallInv, CallFollowsFile, HasRead
<1>5. ASSUME worker[w].at \in {"replace", "verify", "recover"} \/ Done(w)
      PROVE  Change!Covered(worker[w].request)
  <2>1. disk.published[worker[w].request] # NoRevisionDirectory
    BY <1>3, <1>4, <1>5 DEF NoRevisionDirectory
  <2> QED
    BY <1>3, <1>4, <1>5, <2>1 DEF Change!Covered
<1> QED
  BY <1>1, <1>3, <1>4, <1>5 DEF Verdict

\* Steps that no reader of the change can see.
LEMMA Unseen ==
  ASSUME host'.file = host.file, state'.current = state.current,
         state'.pending = state.pending, disk'.published = disk.published,
         revision' = revision
  PROVE  UNCHANGED Change!changeVars
BY DEF Change!changeVars, Verdict

\* Publishing puts the recorded content aside, once and before any write.
LEMMA PublishKeeps ==
  ASSUME ConfigurationInv, KeptByCalls, NEW w \in Workers, Publish(w)
  PROVE  KeptByCalls' /\ [Change!ChangeNext]_(Change!changeVars)
<1> DEFINE r == worker[w].request
           directory == [previous |-> worker[w].seen, intended |-> worker[w].intended]
<1>1. /\ worker \in [Workers -> Call] /\ worker[w] \in Call /\ disk \in Disk
      /\ worker[w].at = "publish" /\ Working(w)
      /\ state' = state /\ request' = request /\ revision' = revision
  BY DEF ConfigurationInv, ConfigurationTypeOK, Publish, Working
<1>2. /\ r \in Requests /\ state.pending = r /\ state.current \in Contents
  BY <1>1, WorkerIsChange
<1>3. host'.file = host.file
  BY FaultType DEF Publish, ConfigurationInv
<1>4. /\ worker[w].seen = state.current /\ host.file = state.current
      /\ worker[w].intended \in Contents /\ worker[w].intended # state.current
      /\ disk.published[r] = NoRevisionDirectory
  BY <1>1 DEF ConfigurationInv, CallInv, CallFollowsFile, HasRead, KeptByCalls, BeforeKeeping
<1>5. \A v \in Workers : v # w /\ BeforeKeeping(v) => worker[v].request # r
  BY <1>1 DEF ConfigurationInv, CallsApart, BeforeKeeping
<1>6. request[r].status = "taken"
  BY <1>1 DEF ConfigurationInv, CallInv, CallOwnsJob
<1>7. \A v \in Workers : v # w => worker'[v] = worker[v]
  BY <1>1 DEF Publish, GoTo, FailAt
<1>8. worker'[w].at \in {"replace", "cleanUp"}
  BY <1>1 DEF Publish, GoTo, FailAt, Call
<1>9. \/ disk'.published = [disk.published EXCEPT ![r] = directory]
      \/ disk'.published = disk.published
  BY <1>1 DEF Publish, Disk
<1>10. KeptByCalls'
  <2>1. disk.published \in [Requests -> RevisionDirectory]
    BY <1>1 DEF Disk
  <2>2. \A s \in Requests : s # r => disk'.published[s] = disk.published[s]
    BY <1>9, <2>1
  <2>3. \A s \in Requests :
            request'[s].status \in {"new", "queued"} => disk'.published[s] = NoRevisionDirectory
    BY <1>1, <1>6, <2>2 DEF KeptByCalls
  <2>4. ASSUME NEW v \in Workers
        PROVE  /\ BeforeKeeping(v)' => disk'.published[worker'[v].request] = NoRevisionDirectory
               /\ worker'[v].at = "publish" => worker'[v].intended # worker'[v].seen
    <3>1. CASE v = w
      BY <1>8, <3>1 DEF BeforeKeeping
    <3>2. CASE v # w
      <4>1. BeforeKeeping(v) => worker[v].request \in Requests
        BY DEF BeforeKeeping, ConfigurationInv, CallInv, CallOwnsJob
      <4> QED
        BY <1>5, <1>7, <2>2, <3>2, <4>1 DEF KeptByCalls, BeforeKeeping
    <3> QED
      BY <3>1, <3>2
  <2> QED
    BY <1>1, <2>3, <2>4 DEF KeptByCalls
<1>11. CASE disk'.published = disk.published
  BY <1>1, <1>3, <1>10, <1>11, Unseen
<1>12. CASE disk'.published = [disk.published EXCEPT ![r] = directory]
  <2>1. Change!Keep(r, worker[w].intended)
    BY <1>1, <1>2, <1>3, <1>4, <1>12 DEF Change!Keep, Verdict
  <2> QED
    BY <1>2, <1>4, <1>10, <2>1 DEF Change!ChangeNext
<1> QED
  BY <1>9, <1>11, <1>12

\* Writing and putting back touch the file for the change under way only.
LEMMA FileWrites ==
  ASSUME ConfigurationInv, KeptByCalls, NEW w \in Workers,
         Replace(w) \/ Recover(w)
  PROVE  KeptByCalls' /\ [Change!ChangeNext]_(Change!changeVars)
<1> DEFINE r == worker[w].request
<1>1. /\ UNCHANGED <<disk.published, state, revision, request>>
      /\ KeptByCalls'
  BY PlaceMoves
<1>2. worker[w].at \in {"replace", "recover"} /\ Working(w)
  BY DEF Replace, Recover, Working
<1>3. /\ r \in Requests /\ Change!Covered(r) /\ worker[w].seen = state.current
      /\ disk.published[r] = [previous |-> state.current, intended |-> worker[w].intended]
  BY <1>2, WorkerIsChange
<1>4. host \in Host
  BY DEF ConfigurationInv, ConfigurationTypeOK
<1>5. \/ Replace(w) /\ host'.file = worker[w].intended
      \/ Recover(w) /\ host'.file = worker[w].seen
      \/ host'.file = host.file
  <2>1. CASE Fault
    BY <2>1, FaultType DEF ConfigurationInv
  <2> QED
    BY <1>4, <2>1 DEF Replace, Recover, Host
<1>6. CASE host'.file = host.file
  BY <1>1, <1>6, Unseen
<1>7. CASE host'.file = worker[w].intended
  <2>1. Change!Write(r)
    BY <1>1, <1>3, <1>7 DEF Change!Write, Verdict
  <2> QED
    BY <1>1, <1>3, <2>1 DEF Change!ChangeNext
<1>8. CASE host'.file = worker[w].seen
  <2>1. Change!TakeBack(r)
    BY <1>1, <1>3, <1>8 DEF Change!TakeBack, Verdict
  <2> QED
    BY <1>1, <1>3, <2>1 DEF Change!ChangeNext
<1> QED
  BY <1>5, <1>6, <1>7, <1>8

\* What a failure of a call at one of its stages leaves.
LEMMA FailedPlace ==
  ASSUME ConfigurationInv, NEW w \in Workers, NEW failure \in Failures,
         FailAt(w, "release", failure)
  PROVE  worker' = [worker EXCEPT ![w] = worker'[w]] /\ worker'[w].at = "release"
BY DEF FailAt, ConfigurationInv, ConfigurationTypeOK, Call

\* A row is prepared only when no change is under way: the change begins.
LEMMA PrepareBegins ==
  ASSUME ConfigurationInv, KeptByCalls, NEW w \in Workers, Prepare(w)
  PROVE  KeptByCalls' /\ [Change!ChangeNext]_(Change!changeVars)
<1> DEFINE r == worker[w].request
<1>1. /\ worker \in [Workers -> Call] /\ worker[w] \in Call /\ state \in ApplicationState
      /\ revision \in [Requests -> Revision]
      /\ worker[w].at = "prepare" /\ request' = request /\ disk' = disk
  BY DEF ConfigurationInv, ConfigurationTypeOK, Prepare
<1>2. r \in Requests /\ revision[r].status = "none"
  BY <1>1 DEF ConfigurationInv, CallInv, CallOwnsJob
<1>3. host'.file = host.file
  BY FaultType DEF Prepare, ConfigurationInv
<1>4. CASE /\ Preparable(w)
           /\ revision' = [revision EXCEPT ![r].status = "prepared"]
           /\ state' = [state EXCEPT !.status = "prepared", !.pending = r, !.version = @ + 1]
           /\ worker' = [worker EXCEPT ![w].at = "guard", ![w].version = state.version + 1]
  <2>1. /\ state'.status = "prepared" /\ state'.pending = r /\ r # NoRequest
        /\ state'.current = state.current
    BY <1>1, <1>2, <1>4 DEF ApplicationState
  <2>2. state.pending = NoRequest
    BY <1>4 DEF Preparable, KeptByCalls
  <2>3. /\ worker' = [worker EXCEPT ![w] = worker'[w]]
        /\ worker'[w].at = "guard" /\ worker'[w].request = worker[w].request
    BY <1>1, <1>4 DEF Call
  <2>4. KeptByCalls'
    BY <1>1, <2>1, <2>3, CallKeepsNothing DEF BeforeKeeping
  <2>5. Verdict[r] = "none"
    BY <1>2 DEF Verdict
  <2>6. Verdict' = [Verdict EXCEPT ![r] = "open"]
    BY <1>1, <1>2, <1>4 DEF Verdict, Revision
  <2>7. Change!Begin(r)
    BY <1>1, <1>3, <2>1, <2>2, <2>5, <2>6 DEF Change!Begin
  <2> QED
    BY <1>2, <2>4, <2>7 DEF Change!ChangeNext
<1>5. CASE FailAt(w, "release", "refused") /\ UNCHANGED <<revision, state>>
  <2>1. worker' = [worker EXCEPT ![w] = worker'[w]] /\ worker'[w].at = "release"
    BY <1>5, FailedPlace DEF Failures
  <2>2. state'.status = "prepared" <=> state'.pending # NoRequest
    BY <1>5 DEF KeptByCalls
  <2> QED
    BY <1>1, <1>3, <1>5, <2>1, <2>2, Unseen, CallKeepsNothing DEF BeforeKeeping
<1> QED
  BY <1>4, <1>5 DEF Prepare

\* The rows are decided for the change under way, as applied only while the
\* file holds it.
LEMMA MarkDecides ==
  ASSUME ConfigurationInv, KeptByCalls, NEW w \in Workers,
         MarkApplied(w) \/ MarkFailed(w)
  PROVE  KeptByCalls' /\ [Change!ChangeNext]_(Change!changeVars)
<1> DEFINE r == worker[w].request
<1>1. /\ worker \in [Workers -> Call] /\ worker[w] \in Call /\ state \in ApplicationState
      /\ revision \in [Requests -> Revision]
      /\ worker[w].at \in {"markApplied", "markFailed"}
      /\ Working(w) /\ request' = request /\ disk' = disk
  BY DEF ConfigurationInv, ConfigurationTypeOK, MarkApplied, MarkFailed, Working
<1>2. r \in Requests /\ state.pending = r /\ Verdict[r] = "open"
  BY <1>1, WorkerIsChange
<1>3. host'.file = host.file
  BY FaultType DEF MarkApplied, MarkFailed, ConfigurationInv
<1>4. ASSUME GoTo(w, "release"), state'.status # "prepared", state'.pending = NoRequest
      PROVE  KeptByCalls'
  <2>1. worker' = [worker EXCEPT ![w] = worker'[w]] /\ worker'[w].at = "release"
    BY <1>1, <1>4 DEF GoTo, Call
  <2> QED
    BY <1>1, <1>4, <2>1, CallKeepsNothing DEF BeforeKeeping
<1>5. CASE FailAt(w, "release", "persistence") /\ UNCHANGED <<revision, state>>
  <2>1. worker' = [worker EXCEPT ![w] = worker'[w]] /\ worker'[w].at = "release"
    BY <1>5, FailedPlace DEF Failures
  <2>2. state'.status = "prepared" <=> state'.pending # NoRequest
    BY <1>5 DEF KeptByCalls
  <2> QED
    BY <1>1, <1>3, <1>5, <2>1, <2>2, Unseen, CallKeepsNothing DEF BeforeKeeping
<1>6. CASE /\ MarkApplied(w)
           /\ revision' = [revision EXCEPT ![r] =
                              [@ EXCEPT !.status = "applied",
                                        !.previous = worker[w].seen,
                                        !.current = worker[w].intended]]
           /\ state' = [state EXCEPT !.status = "applied", !.pending = NoRequest,
                                     !.current = worker[w].intended,
                                     !.lastApplied = r, !.version = @ + 1]
           /\ GoTo(w, "release")
  <2>1. /\ state'.status = "applied" /\ state'.pending = NoRequest
        /\ state'.current = worker[w].intended
    BY <1>1, <1>6 DEF ApplicationState
  <2>2. Verdict' = [Verdict EXCEPT ![r] = "applied"]
    BY <1>1, <1>2, <1>6 DEF Verdict, Revision
  <2>3. Done(w) /\ host.file = worker[w].intended
    <3>1. worker[w].at = "markApplied"
      BY <1>6 DEF MarkApplied
    <3> QED
      BY <3>1 DEF ConfigurationInv, CallInv, CallFollowsFile, Done
  <2>4. /\ Change!Covered(r)
        /\ disk.published[r] = [previous |-> state.current, intended |-> worker[w].intended]
    BY <1>1, <2>3, WorkerIsChange
  <2>5. Change!Record(r)
    BY <1>1, <1>2, <1>3, <2>1, <2>2, <2>3, <2>4 DEF Change!Record, Change!Decide
  <2> QED
    BY <1>2, <1>4, <1>6, <2>1, <2>5 DEF Change!ChangeNext
<1>7. CASE /\ MarkFailed(w)
           /\ revision' = [revision EXCEPT ![r] =
                              [@ EXCEPT !.status = "failed", !.failure = worker[w].failure]]
           /\ state' = [state EXCEPT !.status = "failed", !.pending = NoRequest,
                                     !.version = @ + 1]
           /\ GoTo(w, "release")
  <2>1. /\ state'.status = "failed" /\ state'.pending = NoRequest
        /\ state'.current = state.current
    BY <1>1, <1>7 DEF ApplicationState
  <2>2. Verdict' = [Verdict EXCEPT ![r] = "failed"]
    BY <1>1, <1>2, <1>7 DEF Verdict, Revision
  <2>3. Change!GiveUp(r)
    BY <1>1, <1>2, <1>3, <2>1, <2>2 DEF Change!GiveUp, Change!Decide
  <2> QED
    BY <1>2, <1>4, <1>7, <2>1, <2>3 DEF Change!ChangeNext
<1> QED
  BY <1>5, <1>6, <1>7 DEF MarkApplied, MarkFailed

\* The other steps of the path are none of the change's business.
LEMMA OthersUnseen ==
  ASSUME ConfigurationInv, KeptByCalls,
         \/ \E r \in Requests : RequestUpdate(r) \/ RequestRollback(r)
         \/ \E w \in Workers, r \in Requests : TakeJob(w, r)
         \/ \E w \in Workers : Acquire(w) \/ Release(w) \/ Crash(w)
         \/ LockLapses \/ ServerStarts \/ ServerStops
         \/ UNCHANGED vars
  PROVE  KeptByCalls' /\ UNCHANGED Change!changeVars
<1>1. /\ worker \in [Workers -> Call] /\ request \in [Requests -> Command]
      /\ host \in Host
  BY DEF ConfigurationInv, ConfigurationTypeOK
<1>2. disk' = disk /\ state' = state /\ revision' = revision
  BY DEF RequestUpdate, RequestRollback, Enqueue, TakeJob, Acquire, Release, Crash, LockLapses,
         ServerStarts, ServerStops, vars
<1>3. host'.file = host.file
  <2>1. CASE Fault \/ NoFault
    BY <2>1, FaultType DEF ConfigurationInv
  <2>2. CASE ServerStarts \/ ServerStops
    <3>1. \E h \in Host : host = h
      BY <1>1
    <3> QED
      BY <2>2, <3>1 DEF ServerStarts, ServerStops, Host
  <2>3. ASSUME NEW r \in Requests, RequestUpdate(r) \/ RequestRollback(r) PROVE host' = host
    BY <2>3 DEF RequestUpdate, RequestRollback, Enqueue
  <2>4. ASSUME NEW w \in Workers, NEW r \in Requests, TakeJob(w, r) PROVE host' = host
    BY <2>4 DEF TakeJob
  <2>5. ASSUME NEW w \in Workers, Acquire(w) \/ Release(w) \/ Crash(w)
        PROVE  Fault \/ NoFault
    BY <2>5 DEF Acquire, Release, Crash
  <2>6. LockLapses => Fault \/ NoFault
    BY DEF LockLapses
  <2> QED
    BY <2>1, <2>2, <2>3, <2>4, <2>5, <2>6 DEF vars
<1>4. state'.status = "prepared" <=> state'.pending # NoRequest
  BY <1>2 DEF KeptByCalls
<1>5. disk'.published = disk.published
  BY <1>2
<1>6. ASSUME UNCHANGED <<request, worker>> PROVE KeptByCalls'
  <2>1. \A s \in Requests :
            request'[s].status \in {"new", "queued"} => request[s].status \in {"new", "queued"}
    BY <1>6
  <2>2. worker' = worker
    BY <1>6
  <2> QED
    BY <1>4, <1>5, <2>1, <2>2, NothingKept
<1>7. ASSUME NEW r \in Requests, RequestUpdate(r) \/ RequestRollback(r) PROVE KeptByCalls'
  <2>1. \A s \in Requests :
            request'[s].status \in {"new", "queued"} => request[s].status \in {"new", "queued"}
    BY <1>1, <1>7 DEF RequestUpdate, RequestRollback, Enqueue
  <2>2. worker' = worker
    BY <1>7 DEF RequestUpdate, RequestRollback, Enqueue
  <2> QED
    BY <1>4, <1>5, <2>1, <2>2, NothingKept
<1>8. ASSUME NEW w \in Workers, NEW r \in Requests, TakeJob(w, r) PROVE KeptByCalls'
  <2>1. \A s \in Requests :
            request'[s].status \in {"new", "queued"} => request[s].status \in {"new", "queued"}
    BY <1>1, <1>8 DEF TakeJob, Command
  <2>2. disk.published[r] = NoRevisionDirectory
    BY <1>8 DEF TakeJob, KeptByCalls
  <2>3. \A v \in Workers :
            \/ worker'[v] = worker[v]
            \/ worker'[v].request = r /\ worker'[v].at = "acquire"
    BY <1>1, <1>8 DEF TakeJob, NoCall
  <2> QED
    BY <1>4, <1>5, <2>1, <2>2, <2>3, NothingKept DEF BeforeKeeping
<1>9. ASSUME NEW w \in Workers, Acquire(w) \/ Release(w) \/ Crash(w) PROVE KeptByCalls'
  <2>1. CASE \E status \in {"applied", "failed", "unrecorded", "lost"} : End(w, status)
    <3>1. worker[w].at # "idle"
      BY <1>9 DEF Acquire, Release, Crash
    <3> QED
      BY <1>2, <2>1, <3>1, EndKeepsNothing
  <2>2. CASE GoTo(w, "prepare") /\ Acquire(w) /\ request' = request
    <3>1. /\ worker' = [worker EXCEPT ![w] = worker'[w]] /\ worker[w].at = "acquire"
          /\ worker'[w].at = "prepare" /\ worker'[w].request = worker[w].request
      BY <1>1, <2>2 DEF GoTo, Acquire, Call
    <3> QED
      BY <1>4, <1>5, <2>2, <3>1, CallKeepsNothing DEF BeforeKeeping
  <2> QED
    BY <1>9, <2>1, <2>2 DEF Acquire, Release, Crash
<1>10. KeptByCalls'
  BY <1>6, <1>7, <1>8, <1>9 DEF LockLapses, ServerStarts, ServerStops, vars
<1> QED
  BY <1>2, <1>3, <1>10, Unseen

\* Every step is a step of the change under way, or one it does not see.
LEMMA ChangeStep ==
  ASSUME ConfigurationInv, KeptByCalls, [Next]_vars
  PROVE  KeptByCalls' /\ [Change!ChangeNext]_(Change!changeVars)
<1>1. ASSUME NEW w \in Workers, CallStep(w), ~Acquire(w), ~Release(w)
      PROVE  KeptByCalls' /\ [Change!ChangeNext]_(Change!changeVars)
  <2>1. CASE Guard(w) \/ GuardAgain(w) \/ LockResource(w) \/ Verify(w) \/ CleanUp(w)
    <3>1. host'.file = host.file
      BY <2>1, FaultType DEF Guard, GuardAgain, LockResource, Verify, CleanUp, ConfigurationInv
    <3> QED
      BY <2>1, <3>1, PlaceMoves, Unseen
  <2>2. CASE Preflight(w)
    BY <2>2, PreflightMoves, Unseen
  <2> QED
    BY <1>1, <2>1, <2>2, PublishKeeps, FileWrites, PrepareBegins, MarkDecides DEF CallStep
<1> QED
  BY <1>1, OthersUnseen DEF Next, CallStep

\* The whole path, whatever fails in it, is one reversible change at a time.
THEOREM ConfigurationImplementsReversibleChange == Spec => ImplementsReversibleChange
<1>1. Init => KeptByCalls /\ Change!ChangeInit
  <2> SUFFICES ASSUME Init PROVE KeptByCalls /\ Change!ChangeInit
    OBVIOUS
  <2>1. /\ host.file \in Contents /\ state.current = host.file
        /\ state.status = "registered" /\ state.pending = NoRequest
        /\ disk.published = [r \in Requests |-> NoRevisionDirectory]
        /\ revision = [r \in Requests |-> NoRevision]
        /\ \A w \in Workers : worker[w].at = "idle"
    BY DEF Init, NoCall
  <2>2. Verdict = [r \in Requests |-> "none"]
    BY <2>1 DEF Verdict, NoRevision
  <2> QED
    BY <2>1, <2>2 DEF KeptByCalls, BeforeKeeping, Change!ChangeInit
<1>2. /\ ConfigurationInv /\ KeptByCalls /\ [Next]_vars
      => KeptByCalls' /\ [Change!ChangeNext]_(Change!changeVars)
  BY ChangeStep
<1> QED
  BY <1>1, <1>2, ConfigurationInvariant, PTL DEF Spec, ImplementsReversibleChange, Change!ChangeSpec

-----------------------------------------------------------------------------
(* What PreparedIsDecided rests on: a prepared change is in the hands of a    *)
(* call, and a call only goes forward.                                        *)

\* The call still has the change to decide, or could not record the decision.
InHand(w) ==
    \/ Working(w)
    \/ worker[w].at = "release" /\ worker[w].failure = "persistence"

\* A prepared row is never forgotten: a call will decide it, or its agent died,
\* or the decision was refused and the job says so.
PreparedInHand ==
    \A r \in Requests : revision[r].status = "prepared" =>
        \/ \E w \in Workers : worker[w].request = r /\ InHand(w)
        \/ request[r].status \in {"lost", "unrecorded"}

\* The stages a call still has ahead of it, at most.
Ahead(stage) ==
    CASE stage = "acquire" -> 14    [] stage = "prepare" -> 13
      [] stage = "guard" -> 12      [] stage = "lockFile" -> 11
      [] stage = "preflight" -> 10  [] stage = "publish" -> 9
      [] stage = "replace" -> 8     [] stage = "verify" -> 7
      [] stage = "recover" -> 6     [] stage = "cleanUp" -> 5
      [] stage = "guardAgain" -> 4  [] stage = "markApplied" -> 3
      [] stage = "markFailed" -> 2  [] stage = "release" -> 1
      [] stage = "idle" -> 0

LEMMA StageOrder ==
  /\ Ahead("acquire") = 14 /\ Ahead("prepare") = 13 /\ Ahead("guard") = 12
  /\ Ahead("lockFile") = 11 /\ Ahead("preflight") = 10 /\ Ahead("publish") = 9
  /\ Ahead("replace") = 8 /\ Ahead("verify") = 7 /\ Ahead("recover") = 6
  /\ Ahead("cleanUp") = 5 /\ Ahead("guardAgain") = 4 /\ Ahead("markApplied") = 3
  /\ Ahead("markFailed") = 2 /\ Ahead("release") = 1 /\ Ahead("idle") = 0
BY DEF Ahead

\* A call moves to a stage of its own.
Moves(w, from, to) ==
    /\ worker[w].at = from /\ worker'[w].at \in to
    /\ worker' = [worker EXCEPT ![w] = worker'[w]]
    /\ worker'[w].request = worker[w].request
    /\ UNCHANGED request

LEMMA StageMoves ==
  ASSUME ConfigurationInv, NEW w \in Workers
  PROVE  /\ Guard(w) => Moves(w, "guard", {"lockFile", "markFailed"})
         /\ GuardAgain(w) => Moves(w, "guardAgain", {"markApplied", "markFailed"})
         /\ LockResource(w) => Moves(w, "lockFile", {"preflight", "guardAgain"})
         /\ Preflight(w) => Moves(w, "preflight", {"publish", "cleanUp"})
         /\ Publish(w) => Moves(w, "publish", {"replace", "cleanUp"})
         /\ Replace(w) => Moves(w, "replace", {"verify", "recover"})
         /\ Verify(w) => Moves(w, "verify", {"cleanUp", "recover"})
         /\ Recover(w) => Moves(w, "recover", {"cleanUp"})
         /\ CleanUp(w) => Moves(w, "cleanUp", {"guardAgain"})
         /\ Prepare(w) => Moves(w, "prepare", {"guard", "release"})
         /\ MarkApplied(w) => Moves(w, "markApplied", {"release"})
         /\ MarkFailed(w) => Moves(w, "markFailed", {"release"})
<1>1. worker \in [Workers -> Call] /\ worker[w] \in Call
  BY DEF ConfigurationInv, ConfigurationTypeOK
<1>2. /\ Guard(w) => Moves(w, "guard", {"lockFile", "markFailed"})
      /\ GuardAgain(w) => Moves(w, "guardAgain", {"markApplied", "markFailed"})
      /\ LockResource(w) => Moves(w, "lockFile", {"preflight", "guardAgain"})
  BY <1>1 DEF Guard, GuardAgain, LockResource, GoTo, FailAt, Moves, Call
<1>3. /\ Preflight(w) => Moves(w, "preflight", {"publish", "cleanUp"})
      /\ Publish(w) => Moves(w, "publish", {"replace", "cleanUp"})
      /\ Replace(w) => Moves(w, "replace", {"verify", "recover"})
  BY <1>1 DEF Preflight, Publish, Replace, GoTo, FailAt, Moves, Call
<1>4. /\ Verify(w) => Moves(w, "verify", {"cleanUp", "recover"})
      /\ Recover(w) => Moves(w, "recover", {"cleanUp"})
      /\ CleanUp(w) => Moves(w, "cleanUp", {"guardAgain"})
  BY <1>1 DEF Verify, Recover, CleanUp, GoTo, FailAt, Moves, Call
<1>5. /\ Prepare(w) => Moves(w, "prepare", {"guard", "release"})
      /\ MarkApplied(w) => Moves(w, "markApplied", {"release"})
      /\ MarkFailed(w) => Moves(w, "markFailed", {"release"})
  BY <1>1 DEF Prepare, MarkApplied, MarkFailed, GoTo, FailAt, Moves, Call
<1> QED
  BY <1>2, <1>3, <1>4, <1>5

\* Every step of a call leaves fewer stages ahead of it.
LEMMA CallAdvances ==
  ASSUME ConfigurationInv, NEW w \in Workers, CallStep(w)
  PROVE  /\ \A v \in Workers \ {w} : worker'[v] = worker[v]
         /\ Ahead(worker'[w].at) < Ahead(worker[w].at)
<1>1. worker \in [Workers -> Call]
  BY DEF ConfigurationInv, ConfigurationTypeOK
<1>2. ASSUME Acquire(w)
      PROVE  /\ \A v \in Workers \ {w} : worker'[v] = worker[v]
             /\ worker[w].at = "acquire" /\ worker'[w].at \in {"prepare", "idle"}
  BY <1>1, <1>2 DEF Acquire, GoTo, End, NoCall, Call
<1>3. ASSUME Release(w)
      PROVE  /\ \A v \in Workers \ {w} : worker'[v] = worker[v]
             /\ worker[w].at = "release" /\ worker'[w].at = "idle"
  BY <1>1, <1>3 DEF Release, End, NoCall
<1>4. CASE Acquire(w) \/ Release(w)
  BY <1>2, <1>3, <1>4 DEF Ahead
<1>5. CASE Guard(w) \/ GuardAgain(w) \/ LockResource(w) \/ Preflight(w) \/ Publish(w) \/ Replace(w)
  <2>1. \/ Moves(w, "guard", {"lockFile", "markFailed"})
        \/ Moves(w, "guardAgain", {"markApplied", "markFailed"})
        \/ Moves(w, "lockFile", {"preflight", "guardAgain"})
        \/ Moves(w, "preflight", {"publish", "cleanUp"})
        \/ Moves(w, "publish", {"replace", "cleanUp"})
        \/ Moves(w, "replace", {"verify", "recover"})
    BY <1>5, StageMoves
  <2> QED
    BY <1>1, <2>1, StageOrder DEF Moves
<1>6. CASE \/ Verify(w) \/ Recover(w) \/ CleanUp(w) \/ Prepare(w) \/ MarkApplied(w)
           \/ MarkFailed(w)
  <2>1. \/ Moves(w, "verify", {"cleanUp", "recover"})
        \/ Moves(w, "recover", {"cleanUp"})
        \/ Moves(w, "cleanUp", {"guardAgain"})
        \/ Moves(w, "prepare", {"guard", "release"})
        \/ Moves(w, "markApplied", {"release"})
        \/ Moves(w, "markFailed", {"release"})
    BY <1>6, StageMoves
  <2> QED
    BY <1>1, <2>1, StageOrder DEF Moves
<1> QED
  BY <1>4, <1>5, <1>6 DEF CallStep

\* A step inside a call that works, or has just prepared its change, or is
\* not allowed to decide it, keeps the change in hand.
LEMMA HandStep ==
  ASSUME ConfigurationInv, NEW w \in Workers,
         \/ Guard(w) \/ GuardAgain(w) \/ LockResource(w) \/ Preflight(w) \/ Publish(w)
         \/ Replace(w) \/ Verify(w) \/ Recover(w) \/ CleanUp(w) \/ Prepare(w)
         \/ MarkApplied(w) \/ MarkFailed(w),
         revision'[worker[w].request].status = "prepared"
  PROVE  InHand(w)'
<1>1. worker \in [Workers -> Call] /\ revision \in [Requests -> Revision]
  BY DEF ConfigurationInv, ConfigurationTypeOK
<1>2. CASE \/ Guard(w) \/ GuardAgain(w) \/ LockResource(w) \/ Preflight(w) \/ Publish(w)
           \/ Replace(w) \/ Verify(w) \/ Recover(w) \/ CleanUp(w)
  BY <1>2, StageMoves DEF Moves, InHand, Working
<1>3. CASE Prepare(w)
  <2>1. worker[w].request \in Requests /\ revision[worker[w].request].status = "none"
    BY <1>3 DEF Prepare, ConfigurationInv, CallInv, CallOwnsJob
  <2>2. revision' # revision
    BY <2>1
  <2> QED
    BY <1>1, <1>3, <2>2 DEF Prepare, InHand, Working, Call
<1>4. ASSUME FailAt(w, "release", "persistence") PROVE InHand(w)'
  <2>1. worker'[w].at = "release" /\ worker'[w].failure = "persistence"
    BY <1>1, <1>4 DEF FailAt, Call
  <2> QED
    BY <2>1 DEF InHand
<1>5. CASE MarkApplied(w) \/ MarkFailed(w)
  <2>1. worker[w].request \in Requests
    BY <1>5, OwnDirectory DEF MarkApplied, MarkFailed, Working
  <2>2. revision[worker[w].request] \in Revision
    BY <1>1, <2>1
  <2> DEFINE applied == [revision[worker[w].request] EXCEPT !.status = "applied",
                                                        !.previous = worker[w].seen,
                                                        !.current = worker[w].intended]
             failed == [revision[worker[w].request] EXCEPT !.status = "failed",
                                                       !.failure = worker[w].failure]
  <2>3. applied.status = "applied" /\ failed.status = "failed"
    BY <2>2 DEF Revision
  <2>4. \/ FailAt(w, "release", "persistence")
        \/ revision' = [revision EXCEPT ![worker[w].request] = applied]
        \/ revision' = [revision EXCEPT ![worker[w].request] = failed]
    BY <1>5 DEF MarkApplied, MarkFailed
  <2> HIDE DEF applied, failed
  <2>5. \/ FailAt(w, "release", "persistence")
        \/ revision'[worker[w].request] \in {applied, failed}
    BY <1>1, <2>1, <2>4
  <2> QED
    BY <1>4, <2>3, <2>5
<1> QED
  BY <1>2, <1>3, <1>5

\* A step of the call w leaves the other changes in the hands they are in.
LEMMA OtherHands ==
  ASSUME ConfigurationInv, PreparedInHand, NEW w \in Workers, worker[w].at # "idle",
         \A v \in Workers \ {w} : worker'[v] = worker[v],
         \A r \in Requests \ {worker[w].request} :
             revision'[r] = revision[r] /\ request'[r] = request[r],
         revision'[worker[w].request].status = "prepared" =>
             \/ worker'[w].request = worker[w].request /\ InHand(w)'
             \/ request'[worker[w].request].status \in {"lost", "unrecorded"}
  PROVE  PreparedInHand'
<1> SUFFICES ASSUME NEW r \in Requests, revision'[r].status = "prepared", r # worker[w].request
             PROVE  \/ \E v \in Workers : worker'[v].request = r /\ InHand(v)'
                    \/ request'[r].status \in {"lost", "unrecorded"}
  BY DEF PreparedInHand
<1>1. CASE \E v \in Workers : worker[v].request = r /\ InHand(v)
  <2>1. PICK v \in Workers : worker[v].request = r /\ InHand(v)
    BY <1>1
  <2>2. worker'[v] = worker[v]
    BY <2>1
  <2> QED
    BY <2>1, <2>2 DEF InHand, Working
<1> QED
  BY <1>1 DEF PreparedInHand

\* A call that ends has decided its change, or its job says that it has not.
LEMMA EndKeepsHands ==
  ASSUME ConfigurationInv, PreparedInHand, NEW w \in Workers,
         Acquire(w) \/ Release(w) \/ Crash(w)
  PROVE  PreparedInHand'
<1> DEFINE r == worker[w].request
<1>1. /\ worker \in [Workers -> Call] /\ request \in [Requests -> Command]
      /\ worker[w].at # "idle" /\ revision' = revision
      /\ r \in Requests /\ request[r].status = "taken"
  BY DEF ConfigurationInv, ConfigurationTypeOK, CallInv, CallOwnsJob, Acquire, Release, Crash
<1>2. \A v \in Workers \ {w} : worker'[v] = worker[v]
  BY <1>1 DEF Acquire, Release, Crash, GoTo, End
<1>3. \A q \in Requests \ {r} : request'[q] = request[q]
  BY <1>1 DEF Acquire, Release, Crash, End
<1>4. ASSUME Acquire(w) PROVE revision[r].status = "none"
  BY <1>4 DEF Acquire, ConfigurationInv, CallInv, CallOwnsJob
<1>5. ASSUME Crash(w) PROVE request'[r].status = "lost"
  BY <1>1, <1>5 DEF Crash, End, Command
<1>6. ASSUME Release(w), revision[r].status = "prepared"
      PROVE  request'[r].status = "unrecorded"
  <2>1. PICK v \in Workers : worker[v].request = r /\ InHand(v)
    BY <1>1, <1>6 DEF PreparedInHand
  <2>2. v = w
    BY <1>1, <2>1 DEF InHand, Working, ConfigurationInv, CallsApart
  <2>3. worker[w].failure = "persistence"
    BY <1>6, <2>1, <2>2 DEF InHand, Working, Release
  <2>4. End(w, "unrecorded")
    BY <1>6, <2>3 DEF Release
  <2> QED
    BY <1>1, <2>4 DEF End, Command
<1> QED
  BY <1>1, <1>2, <1>3, <1>4, <1>5, <1>6, OtherHands

LEMMA NextKeepsHands == ConfigurationInv /\ PreparedInHand /\ [Next]_vars => PreparedInHand'
<1> SUFFICES ASSUME ConfigurationInv, PreparedInHand, [Next]_vars PROVE PreparedInHand'
  OBVIOUS
<1>1. /\ worker \in [Workers -> Call] /\ request \in [Requests -> Command]
      /\ revision \in [Requests -> Revision]
  BY DEF ConfigurationInv, ConfigurationTypeOK
<1>2. ASSUME NEW w \in Workers, CallStep(w), ~Acquire(w), ~Release(w) PROVE PreparedInHand'
  <2>1. \/ Guard(w) \/ GuardAgain(w) \/ LockResource(w) \/ Preflight(w) \/ Publish(w)
        \/ Replace(w) \/ Verify(w) \/ Recover(w) \/ CleanUp(w) \/ Prepare(w)
        \/ MarkApplied(w) \/ MarkFailed(w)
    BY <1>2 DEF CallStep
  <2>2. /\ worker[w].at # "idle" /\ worker'[w].request = worker[w].request /\ request' = request
        /\ \A v \in Workers \ {w} : worker'[v] = worker[v]
    BY <1>1, <2>1, StageMoves DEF Moves
  <2>3. \A r \in Requests \ {worker[w].request} : revision'[r] = revision[r]
    BY <1>1, <2>1 DEF Guard, GuardAgain, LockResource, Preflight, Publish, Replace, Verify,
                      Recover, CleanUp, Prepare, MarkApplied, MarkFailed
  <2> QED
    BY <2>1, <2>2, <2>3, HandStep, OtherHands
<1>3. ASSUME NEW w \in Workers, NEW r \in Requests, TakeJob(w, r) PROVE PreparedInHand'
  <2>1. /\ worker[w].at = "idle" /\ revision' = revision /\ revision[r].status = "none"
        /\ \A v \in Workers \ {w} : worker'[v] = worker[v]
        /\ \A q \in Requests \ {r} : request'[q] = request[q]
    BY <1>1, <1>3 DEF TakeJob, ConfigurationInv, RevisionsFollowJobs
  <2> QED
    BY <2>1 DEF PreparedInHand, InHand, Working
<1>4. ASSUME NEW r \in Requests, RequestUpdate(r) \/ RequestRollback(r) PROVE PreparedInHand'
  <2>1. /\ worker' = worker /\ revision' = revision /\ revision[r].status = "none"
        /\ \A q \in Requests \ {r} : request'[q] = request[q]
    BY <1>1, <1>4 DEF RequestUpdate, RequestRollback, Enqueue, ConfigurationInv, RevisionsFollowJobs
  <2> QED
    BY <2>1 DEF PreparedInHand, InHand, Working
<1>5. CASE LockLapses \/ ServerStarts \/ ServerStops \/ UNCHANGED vars
  <2>1. UNCHANGED <<worker, request, revision>>
    BY <1>5 DEF LockLapses, ServerStarts, ServerStops, vars
  <2> QED
    BY <2>1 DEF PreparedInHand, InHand, Working
<1> QED
  BY <1>2, <1>3, <1>4, <1>5, EndKeepsHands DEF Next, CallStep

\* No prepared revision is left to nobody: a call is going to decide it, or its
\* agent died, or the decision could not be recorded.
THEOREM PreparedNeverForgotten == Spec => []PreparedInHand
<1>1. Init => PreparedInHand
  BY DEF Init, NoRevision, PreparedInHand
<1>2. ConfigurationInv /\ PreparedInHand /\ [Next]_vars => PreparedInHand'
  BY NextKeepsHands
<1> QED
  BY <1>1, <1>2, ConfigurationInvariant, PTL DEF Spec

\* A call under way never goes back: whatever fails, each of its steps leaves
\* fewer stages ahead of it, and nobody else moves it.
CallsOnlyAdvance ==
    [][\A w \in Workers :
          worker[w].at # "idle" /\ worker'[w] # worker[w] =>
              Ahead(worker'[w].at) < Ahead(worker[w].at)]_vars

\* Every call ends after at most fourteen steps of its own.
THEOREM CallsAlwaysAdvance == Spec => CallsOnlyAdvance
<1>1. ASSUME ConfigurationInv, [Next]_vars, NEW w \in Workers,
             worker[w].at # "idle", worker'[w] # worker[w]
      PROVE  Ahead(worker'[w].at) < Ahead(worker[w].at)
  <2>1. worker \in [Workers -> Call] /\ worker[w].at \in Stages
    BY <1>1 DEF ConfigurationInv, ConfigurationTypeOK, Call
  <2>2. CASE \E v \in Workers : CallStep(v)
    BY <1>1, <2>2, CallAdvances
  <2>3. CASE \E v \in Workers : Crash(v)
    <3>1. worker'[w] = NoCall
      BY <1>1, <2>1, <2>3 DEF Crash, End
    <3> QED
      BY <1>1, <2>1, <3>1 DEF NoCall, Ahead, Stages
  <2>4. CASE \E v \in Workers, r \in Requests : TakeJob(v, r)
    BY <1>1, <2>1, <2>4 DEF TakeJob
  <2>5. CASE \/ \E r \in Requests : RequestUpdate(r) \/ RequestRollback(r)
             \/ LockLapses \/ ServerStarts \/ ServerStops \/ UNCHANGED vars
    BY <1>1, <2>5 DEF RequestUpdate, RequestRollback, Enqueue, LockLapses, ServerStarts,
                      ServerStops, vars
  <2> QED
    BY <1>1, <2>2, <2>3, <2>4, <2>5 DEF Next
<1>2. ConfigurationInv /\ [Next]_vars
      => [\A w \in Workers :
             worker[w].at # "idle" /\ worker'[w] # worker[w] =>
                 Ahead(worker'[w].at) < Ahead(worker[w].at)]_vars
  BY <1>1
<1> QED
  BY <1>2, ConfigurationInvariant, PTL DEF Spec, CallsOnlyAdvance

=============================================================================
