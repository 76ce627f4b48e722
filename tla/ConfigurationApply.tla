------------------------ MODULE ConfigurationApply ------------------------
(* Changing one configuration resource of a server: the rows of the control   *)
(* plane (application state, revisions, the minecraft-exclusive lock), the    *)
(* file, the revision repository beside it, and the calls of                  *)
(* PersistentConfigurationService that take a change through all of them.     *)
(*                                                                            *)
(* A content stands for its SHA-256. A request is one accepted change: it     *)
(* names its job, its revision and the owner id its call takes the lock       *)
(* under. A worker is an agent that serves the server; one that starts again  *)
(* after a crash goes on as the same worker.                                  *)
EXTENDS Naturals

CONSTANTS
    Contents,     \* what the file may hold
    Requests,     \* changes asked for
    Workers,      \* agents that serve the server
    NoRequest,    \* the absence of a request
    NoContent,    \* the absence of a content
    MaxFaults,    \* bound: the faults of a behaviour
    MaxStarts     \* bound: starts of the Minecraft server

ASSUME ConfigurationAssumption ==
    /\ NoRequest \notin Requests /\ NoContent \notin Contents
    /\ MaxFaults \in Nat /\ MaxStarts \in Nat

VARIABLES
    host,      \* the file, the server process, and the faults still to happen
    disk,      \* the revision repository, and what calls left beside the file
    state,     \* the row of configuration_application_states
    revision,  \* the rows of configuration_revisions
    exclusive, \* the owner of the minecraft-exclusive lock
    request,   \* the commands accepted, and what became of their jobs
    worker     \* the call each worker has in progress

vars == <<host, disk, state, revision, exclusive, request, worker>>

Failures == {"none", "refused", "replacement", "recovery", "cleanup", "guard", "persistence"}
Stages == {"idle", "acquire", "prepare", "guard", "lockFile", "preflight", "publish",
           "replace", "verify", "recover", "cleanUp", "guardAgain",
           "markApplied", "markFailed", "release"}

Host == [file : Contents, running : BOOLEAN, faults : 0 .. MaxFaults, starts : 0 .. MaxStarts]
NoRevisionDirectory == [previous |-> NoContent, intended |-> NoContent]
RevisionDirectory ==
    {NoRevisionDirectory} \cup [previous : Contents, intended : Contents]
Disk == [locked : BOOLEAN,
         staging : SUBSET Requests,     \* staging/<revision>.partial
         temporary : SUBSET Requests,   \* the .partial siblings of the file
         published : [Requests -> RevisionDirectory]]
ApplicationState ==
    [status : {"registered", "prepared", "applied", "failed"},
     current : Contents,
     pending : Requests \cup {NoRequest},
     lastApplied : Requests \cup {NoRequest},
     version : Nat]
Revision == [status : {"none", "prepared", "applied", "failed"},
             previous : Contents \cup {NoContent},
             current : Contents \cup {NoContent},
             failure : Failures]
NoRevision == [status |-> "none", previous |-> NoContent, current |-> NoContent,
               failure |-> "none"]
Command == [status : {"new", "queued", "taken", "applied", "failed", "unrecorded", "lost"},
            source : Requests \cup {NoRequest},     \* of a rollback
            content : Contents \cup {NoContent},    \* of an update
            expected : Contents \cup {NoContent},
            version : Nat]
NoCommand == [status |-> "new", source |-> NoRequest, content |-> NoContent,
              expected |-> NoContent, version |-> 0]
Call == [at : Stages,
         request : Requests \cup {NoRequest},
         version : Nat,                          \* of the prepared state
         seen : Contents \cup {NoContent},       \* the bytes read in preflight
         intended : Contents \cup {NoContent},
         failure : Failures]
NoCall == [at |-> "idle", request |-> NoRequest, version |-> 0,
           seen |-> NoContent, intended |-> NoContent, failure |-> "none"]

\* A fault: a call to the file system or the database that fails, the death of
\* a worker, a lease that runs out under a call, a server started by hand.
Fault == host.faults > 0 /\ host' = [host EXCEPT !.faults = @ - 1]
NoFault == UNCHANGED host

Asked(w) == request[worker[w].request]
GoTo(w, stage) == worker' = [worker EXCEPT ![w].at = stage]

FailAt(w, stage, failure) ==
    worker' = [worker EXCEPT ![w].at = stage, ![w].failure = failure]

-----------------------------------------------------------------------------
(* The routes of the control plane                                            *)

\* Both routes compare what the requester read with the state; the job has one
\* attempt.
Enqueue(r, source, content) ==
    /\ request[r].status = "new"
    /\ request' = [request EXCEPT ![r] =
                      [status |-> "queued", source |-> source, content |-> content,
                       expected |-> state.current, version |-> state.version]]
    /\ UNCHANGED <<host, disk, state, revision, exclusive, worker>>

RequestUpdate(r) == \E c \in Contents : Enqueue(r, NoRequest, c)

RequestRollback(r) ==
    \E s \in Requests : revision[s].status = "applied" /\ Enqueue(r, s, NoContent)

-----------------------------------------------------------------------------
(* PersistentConfigurationService                                             *)

TakeJob(w, r) ==
    /\ worker[w].at = "idle"
    /\ request[r].status = "queued"
    /\ request' = [request EXCEPT ![r].status = "taken"]
    /\ worker' = [worker EXCEPT ![w] = [NoCall EXCEPT !.at = "acquire", !.request = r]]
    /\ UNCHANGED <<host, disk, state, revision, exclusive>>

End(w, status) ==
    /\ worker' = [worker EXCEPT ![w] = NoCall]
    /\ request' = [request EXCEPT ![worker[w].request].status = status]

Acquire(w) ==
    /\ worker[w].at = "acquire"
    /\ \/ /\ exclusive = NoRequest /\ NoFault
          /\ exclusive' = worker[w].request
          /\ GoTo(w, "prepare") /\ UNCHANGED request
       \/ /\ \/ exclusive # NoRequest /\ NoFault
             \/ Fault
          /\ End(w, "failed") /\ UNCHANGED exclusive
    /\ UNCHANGED <<disk, state, revision>>

\* Mutant: another change may still be pending.
PreparableWhilePending(w) ==
    /\ state.version = Asked(w).version
    /\ state.current = Asked(w).expected
    /\ Asked(w).source # NoRequest => revision[Asked(w).source].status = "applied"

\* Nothing moved since the requester read the state, and no change is pending.
Preparable(w) ==
    /\ state.version = Asked(w).version
    /\ state.current = Asked(w).expected
    /\ state.status # "prepared"
    /\ Asked(w).source # NoRequest => revision[Asked(w).source].status = "applied"

Prepare(w) ==
    LET r == worker[w].request
    IN  /\ worker[w].at = "prepare"
        /\ \/ /\ Preparable(w) /\ NoFault
              /\ revision' = [revision EXCEPT ![r].status = "prepared"]
              /\ state' = [state EXCEPT !.status = "prepared", !.pending = r, !.version = @ + 1]
              /\ worker' = [worker EXCEPT ![w].at = "guard", ![w].version = state.version + 1]
           \/ /\ \/ ~Preparable(w) /\ NoFault
                 \/ Fault
              /\ FailAt(w, "release", "refused")
              /\ UNCHANGED <<revision, state>>
        /\ UNCHANGED <<disk, exclusive, request>>

\* requireOfflineAndExclusive. The window of any configuration operation is
\* taken for the caller's own.
Guard(w) ==
    /\ worker[w].at = "guard"
    /\ \/ exclusive # NoRequest /\ ~host.running /\ GoTo(w, "lockFile")
       \/ exclusive = NoRequest /\ FailAt(w, "markFailed", "guard")
       \/ host.running /\ FailAt(w, "markFailed", "guard")
    /\ UNCHANGED <<host, disk, state, revision, exclusive, request>>

\* requireStillOffline, when the change went through; a change that threw
\* does not come here.
GuardAgain(w) ==
    /\ worker[w].at = "guardAgain"
    /\ \/ worker[w].failure # "none" /\ GoTo(w, "markFailed")
       \/ worker[w].failure = "none" /\ ~host.running /\ GoTo(w, "markApplied")
       \/ worker[w].failure = "none" /\ host.running /\ FailAt(w, "markFailed", "guard")
    /\ UNCHANGED <<host, disk, state, revision, exclusive, request>>

\* What both completions require of the rows they lock.
Pending(w) ==
    /\ revision[worker[w].request].status = "prepared"
    /\ state.status = "prepared" /\ state.pending = worker[w].request
    /\ state.version = worker[w].version

MarkApplied(w) ==
    LET r == worker[w].request
    IN  /\ worker[w].at = "markApplied"
        /\ \/ /\ Pending(w) /\ NoFault
              /\ revision' = [revision EXCEPT ![r] =
                                 [@ EXCEPT !.status = "applied",
                                           !.previous = worker[w].seen,
                                           !.current = worker[w].intended]]
              /\ state' = [state EXCEPT !.status = "applied", !.pending = NoRequest,
                                        !.current = worker[w].intended,
                                        !.lastApplied = r, !.version = @ + 1]
              /\ GoTo(w, "release")
           \/ /\ IF Pending(w) THEN Fault ELSE NoFault
              /\ FailAt(w, "release", "persistence")
              /\ UNCHANGED <<revision, state>>
        /\ UNCHANGED <<disk, exclusive, request>>

MarkFailed(w) ==
    LET r == worker[w].request
    IN  /\ worker[w].at = "markFailed"
        /\ \/ /\ Pending(w) /\ NoFault
              /\ revision' = [revision EXCEPT ![r] =
                                 [@ EXCEPT !.status = "failed", !.failure = worker[w].failure]]
              /\ state' = [state EXCEPT !.status = "failed", !.pending = NoRequest,
                                        !.version = @ + 1]
              /\ GoTo(w, "release")
           \/ /\ IF Pending(w) THEN Fault ELSE NoFault
              /\ FailAt(w, "release", "persistence")
              /\ UNCHANGED <<revision, state>>
        /\ UNCHANGED <<disk, exclusive, request>>

\* A lock that is not released, or no longer owned, fails a call that
\* succeeded. Neither changes what the rows say.
Release(w) ==
    LET r == worker[w].request
        reported == CASE worker[w].failure = "none" -> "applied"
                      [] worker[w].failure = "persistence" -> "unrecorded"
                      [] OTHER -> "failed"
        lost == IF reported = "applied" THEN "failed" ELSE reported
    IN  /\ worker[w].at = "release"
        /\ \/ exclusive = r /\ exclusive' = NoRequest /\ End(w, reported) /\ NoFault
           \/ exclusive # r /\ UNCHANGED exclusive /\ End(w, lost) /\ NoFault
           \/ Fault /\ UNCHANGED exclusive /\ End(w, lost)
        /\ UNCHANGED <<disk, state, revision>>

-----------------------------------------------------------------------------
(* FilesystemConfigurationService, inside the guard                           *)

LockResource(w) ==
    /\ worker[w].at = "lockFile"
    /\ \/ ~disk.locked /\ disk' = [disk EXCEPT !.locked = TRUE] /\ GoTo(w, "preflight")
       \/ disk.locked /\ FailAt(w, "guardAgain", "refused") /\ UNCHANGED disk
    /\ UNCHANGED <<host, state, revision, exclusive, request>>

\* A rollback writes back what its source replaced.
Material(w) ==
    IF Asked(w).source = NoRequest THEN Asked(w).content
    ELSE disk.published[Asked(w).source].previous

\* Mutant: the file is not compared with what the requester read.
AcceptedUnread(w) == Material(w) \notin {host.file, NoContent}

\* The file is what the requester read, and the change would change it.
Accepted(w) ==
    /\ host.file = Asked(w).expected
    /\ Material(w) \notin {host.file, NoContent}

\* Reads and checks the file, then makes the staging directory. A revision of
\* its own is never in the way: revision ids are not used twice.
Preflight(w) ==
    /\ worker[w].at = "preflight"
    /\ \/ /\ Accepted(w) /\ NoFault
          /\ disk' = [disk EXCEPT !.staging = @ \cup {worker[w].request}]
          /\ worker' = [worker EXCEPT ![w].at = "publish", ![w].seen = host.file,
                                      ![w].intended = Material(w)]
       \/ /\ \/ ~Accepted(w) /\ NoFault
             \/ Fault
          /\ FailAt(w, "cleanUp", "refused") /\ UNCHANGED disk
    /\ UNCHANGED <<state, revision, exclusive, request>>

\* Mutant: the revision keeps the bytes that are about to be written.
PublishIntended(w) ==
    LET r == worker[w].request
    IN  /\ worker[w].at = "publish"
        /\ disk' = [disk EXCEPT
                       !.staging = @ \ {r},
                       !.published[r] = [previous |-> worker[w].intended,
                                         intended |-> worker[w].intended]]
        /\ GoTo(w, "replace")
        /\ UNCHANGED <<host, state, revision, exclusive, request>>

\* Writes the bytes read and the manifest, verifies them, and renames.
Publish(w) ==
    LET r == worker[w].request
    IN  /\ worker[w].at = "publish"
        /\ \/ /\ disk' = [disk EXCEPT
                             !.staging = @ \ {r},
                             !.published[r] = [previous |-> worker[w].seen,
                                               intended |-> worker[w].intended]]
              /\ GoTo(w, "replace") /\ NoFault
           \/ Fault /\ FailAt(w, "cleanUp", "refused") /\ UNCHANGED disk
        /\ UNCHANGED <<state, revision, exclusive, request>>

\* A sibling file and a rename: all of the new content or all of the old one.
\* The failure that matters afterwards left the old one; both are handled by
\* looking at the file again.
Replace(w) ==
    LET r == worker[w].request
    IN  /\ worker[w].at = "replace"
        /\ \/ /\ host' = [host EXCEPT !.file = worker[w].intended]
              /\ GoTo(w, "verify") /\ UNCHANGED disk
           \/ /\ Fault /\ GoTo(w, "recover")
              /\ disk' = [disk EXCEPT !.temporary = @ \cup {r}]
        /\ UNCHANGED <<state, revision, exclusive, request>>

Verify(w) ==
    /\ worker[w].at = "verify"
    /\ \/ host.file = worker[w].intended /\ GoTo(w, "cleanUp") /\ NoFault
       \/ /\ IF host.file = worker[w].intended THEN Fault ELSE NoFault
          /\ GoTo(w, "recover")
    /\ UNCHANGED <<disk, state, revision, exclusive, request>>

\* Mutant: the bytes read before are put back and nothing is reported.
RecoverQuietly(w) ==
    /\ worker[w].at = "recover"
    /\ host' = [host EXCEPT !.file = worker[w].seen]
    /\ GoTo(w, "cleanUp")
    /\ UNCHANGED <<disk, state, revision, exclusive, request>>

Recover(w) ==
    /\ worker[w].at = "recover"
    /\ \/ /\ host' = [host EXCEPT !.file = worker[w].seen]
          /\ FailAt(w, "cleanUp", "replacement")
       \/ Fault /\ FailAt(w, "cleanUp", "recovery")
    /\ UNCHANGED <<disk, state, revision, exclusive, request>>

\* Mutant: the error of a clean-up is not one that markFailed is called for.
CleanUpEscapes(w) ==
    LET r == worker[w].request
        clean == [disk EXCEPT !.staging = @ \ {r}, !.temporary = @ \ {r}, !.locked = FALSE]
    IN  /\ worker[w].at = "cleanUp"
        /\ \/ disk' = clean /\ GoTo(w, "guardAgain") /\ NoFault
           \/ /\ Fault /\ FailAt(w, "release", "cleanup")
              /\ disk' = [clean EXCEPT !.locked = TRUE]
        /\ UNCHANGED <<state, revision, exclusive, request>>

\* What is left of the staging directory and the sibling files, then the lock
\* file. A clean-up that fails takes the place of whatever happened before, and
\* what follows it is still cleaned up.
CleanUp(w) ==
    LET r == worker[w].request
        clean == [disk EXCEPT !.staging = @ \ {r}, !.temporary = @ \ {r}, !.locked = FALSE]
    IN  /\ worker[w].at = "cleanUp"
        /\ \/ disk' = clean /\ GoTo(w, "guardAgain") /\ NoFault
           \/ /\ Fault /\ FailAt(w, "guardAgain", "cleanup")
              /\ disk' \in {[clean EXCEPT !.locked = TRUE],
                            [clean EXCEPT !.staging = disk.staging],
                            [clean EXCEPT !.temporary = disk.temporary]}
        /\ UNCHANGED <<state, revision, exclusive, request>>

-----------------------------------------------------------------------------
(* The environment                                                            *)

\* The agent dies: what it wrote stays, and its job is failed, not tried again.
Crash(w) ==
    /\ Fault
    /\ worker[w].at # "idle"
    /\ End(w, "lost")
    /\ UNCHANGED <<disk, state, revision, exclusive>>

\* The lease of the lock runs out: after its owner is gone, or under it.
LockLapses ==
    /\ exclusive # NoRequest
    /\ \/ request[exclusive].status # "taken" /\ NoFault
       \/ request[exclusive].status = "taken" /\ Fault
    /\ exclusive' = NoRequest
    /\ UNCHANGED <<disk, state, revision, request, worker>>

\* By an operation of its own, which needs the lock.
ServerStarts ==
    /\ ~host.running /\ host.starts < MaxStarts
    /\ exclusive = NoRequest
    /\ host' = [host EXCEPT !.running = TRUE, !.starts = @ + 1]
    /\ UNCHANGED <<disk, state, revision, exclusive, request, worker>>

ServerStops ==
    /\ host.running
    /\ host' = [host EXCEPT !.running = FALSE]
    /\ UNCHANGED <<disk, state, revision, exclusive, request, worker>>

-----------------------------------------------------------------------------

\* A resource registered with what the file held.
Init ==
    \E c \in Contents :
        /\ host = [file |-> c, running |-> FALSE, faults |-> MaxFaults, starts |-> 0]
        /\ disk = [locked |-> FALSE, staging |-> {}, temporary |-> {},
                   published |-> [r \in Requests |-> NoRevisionDirectory]]
        /\ state = [status |-> "registered", current |-> c, pending |-> NoRequest,
                    lastApplied |-> NoRequest, version |-> 1]
        /\ revision = [r \in Requests |-> NoRevision]
        /\ exclusive = NoRequest
        /\ request = [r \in Requests |-> NoCommand]
        /\ worker = [w \in Workers |-> NoCall]

CallStep(w) ==
    \/ Acquire(w) \/ Prepare(w) \/ Guard(w) \/ LockResource(w) \/ Preflight(w)
    \/ Publish(w) \/ Replace(w) \/ Verify(w) \/ Recover(w) \/ CleanUp(w)
    \/ GuardAgain(w) \/ MarkApplied(w) \/ MarkFailed(w) \/ Release(w)

Next ==
    \/ \E r \in Requests : RequestUpdate(r) \/ RequestRollback(r)
    \/ \E w \in Workers, r \in Requests : TakeJob(w, r)
    \/ \E w \in Workers : CallStep(w) \/ Crash(w)
    \/ LockLapses \/ ServerStarts \/ ServerStops

Spec == Init /\ [][Next]_vars

\* A call goes on by itself, and the supervisor takes the jobs there are.
FairSpec ==
    /\ Spec
    /\ \A w \in Workers : WF_vars(CallStep(w))
    /\ \A r \in Requests : WF_vars(\E w \in Workers : TakeJob(w, r))

-----------------------------------------------------------------------------
(* Properties                                                                 *)

\* The variables hold what the rows, the files and the calls may hold.
ConfigurationTypeOK ==
    /\ host \in Host /\ disk \in Disk /\ state \in ApplicationState
    /\ revision \in [Requests -> Revision]
    /\ exclusive \in Requests \cup {NoRequest}
    /\ request \in [Requests -> Command]
    /\ worker \in [Workers -> Call]

\* Whatever failed and whoever died, the content the control plane records is
\* not lost: the file holds it, or the file holds what a published revision
\* says it was to become, and that revision keeps the recorded content.
RecordedContentIsKept ==
    \/ host.file = state.current
    \/ \E r \in Requests :
         disk.published[r] = [previous |-> state.current, intended |-> host.file]

\* Every applied change can be undone from the disk: its directory keeps what
\* it replaced. And an applied rollback put back exactly that.
AppliedCanBeUndone ==
    \A r \in Requests : revision[r].status = "applied" =>
        /\ disk.published[r] = [previous |-> revision[r].previous,
                                intended |-> revision[r].current]
        /\ request[r].source # NoRequest =>
               revision[r].current = revision[request[r].source].previous

\* A change is recorded as applied only on top of the content recorded before
\* it, and only while the file holds what is recorded.
AppliedIsTrue ==
    [][state'.lastApplied # state.lastApplied =>
          LET done == revision'[state'.lastApplied]
          IN  /\ done.previous = state.current
              /\ state'.current = done.current /\ host'.file = done.current]_vars

\* A prepared revision is decided, unless the worker died or the database did
\* not take the decision.
PreparedIsDecided ==
    \A r \in Requests :
        revision[r].status = "prepared" ~>
            \/ revision[r].status \in {"applied", "failed"}
            \/ request[r].status \in {"lost", "unrecorded"}

Verdict ==
    [r \in Requests |->
        IF revision[r].status = "prepared" THEN "open" ELSE revision[r].status]

Change == INSTANCE ReversibleChange WITH
              Changes <- Requests, NoChange <- NoRequest, NotKept <- NoRevisionDirectory,
              file <- host.file, recorded <- state.current, pending <- state.pending,
              kept <- disk.published, verdict <- Verdict

\* The rows, the file and the revision repository together are one reversible
\* change at a time: no order of failures, deaths and lapsed locks lets a call
\* write without the old content kept, write beside another change, or record
\* what the file does not hold.
ImplementsReversibleChange == Change!ChangeSpec

=============================================================================
