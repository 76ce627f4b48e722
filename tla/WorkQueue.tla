----------------------------- MODULE WorkQueue -----------------------------
(***************************************************************************)
(* The durable job queue and the leases under which server agents work on  *)
(* it: JobRepository (packages/database/src/repositories.ts),              *)
(* AgentTransportRepository (agent-transport-repositories.ts) and the      *)
(* order in which POST /agent/v1/work/result calls them                    *)
(* (apps/control-api/src/agent-work-routes.ts).                            *)
(*                                                                         *)
(* One action is one database transaction.  A route that runs several      *)
(* transactions is several actions, and what it still has to do between    *)
(* them lives in memory (`reports'), where a crash of the control API      *)
(* loses it.  Every transaction receives the clock value its handler read  *)
(* when it started, so that value may be older than `now'.                 *)
(***************************************************************************)
EXTENDS Naturals, FiniteSets

CONSTANTS
  Jobs,            \* job rows that may be enqueued
  Agents,          \* server agents, lease holders with a row in agent_work_leases
  Workers,         \* build workers, which lease a job without such a row
  Nobody,          \* the NULL lease_owner
  Serves,          \* <<who, job>>: granted capability, job type and resource match
  MaxAttempts,     \* jobs.max_attempts, per job
  Deadline,        \* payload.parameters.timeoutSeconds, per job (0: not stated)
  RequestedLease,  \* lease length the agent asks for
  Margin,          \* LEASE_REPORTING_MARGIN_MS
  MaxLease,        \* MAXIMUM_LEASE_MS
  WorkerLeaseTime, \* lease length of a build worker
  ClaimLimit,      \* maximumLeases of one claim
  AttemptLimit,    \* CHECK (attempt BETWEEN 1 AND 16) on agent_work_leases
  ApiMayCrash,     \* whether the control API may die between transactions
  MaxTime          \* bound of the model: the clock and every lease end by then

Attempts == 1 .. AttemptLimit

ASSUME ConstantsAssumption ==
  /\ Agents \cap Workers = {}
  /\ Nobody \notin Agents \cup Workers
  /\ Serves \subseteq (Agents \cup Workers) \X Jobs
  /\ MaxAttempts \in [Jobs -> Attempts]
  /\ Deadline \in [Jobs -> Nat]
  /\ RequestedLease \in Nat \ {0}
  /\ Margin \in Nat
  /\ MaxLease \in Nat \ {0}
  /\ WorkerLeaseTime \in Nat
  /\ ClaimLimit \in Nat \ {0}
  /\ AttemptLimit \in Nat \ {0}
  /\ ApiMayCrash \in BOOLEAN
  /\ MaxTime \in Nat

VARIABLES
  now,      \* the clock of the control plane
  jobs,     \* jobs table
  leases,   \* agent_work_leases, addressed by job and attempt
  reports   \* results whose lease is settled and whose job is not yet closed

queueVars == <<now, jobs, leases, reports>>

-----------------------------------------------------------------------------

Outcomes == {"succeeded", "failed"}
JobStatus == {"absent", "queued", "running", "succeeded", "failed"}
LeaseState == {"none", "open", "succeeded", "failed", "expired"}
Owners == Agents \cup Workers

Job == [status : JobStatus, owner : Owners \cup {Nobody}, attempt : Nat,
        expires : Nat, available : Nat]
Lease == [state : LeaseState, agent : Agents \cup {Nobody}, expires : Nat]
Report == [job : Jobs, attempt : Attempts, agent : Agents, outcome : Outcomes]

QueueTypeOK ==
  /\ now \in Nat
  /\ jobs \in [Jobs -> Job]
  /\ leases \in [Jobs -> [Attempts -> Lease]]
  /\ reports \in SUBSET Report

NoJob == [status |-> "absent", owner |-> Nobody, attempt |-> 0,
          expires |-> 0, available |-> 0]
NoLease == [state |-> "none", agent |-> Nobody, expires |-> 0]

QueueInit ==
  /\ now = 0
  /\ jobs = [j \in Jobs |-> NoJob]
  /\ leases = [j \in Jobs |-> [n \in Attempts |-> NoLease]]
  /\ reports = {}

Lesser(x, y) == IF x <= y THEN x ELSE y
Greater(x, y) == IF x <= y THEN y ELSE x

\* The agent's request is a floor; a job that states its deadline gets a lease
\* that outlives it, up to the maximum.
LeaseExpiryFor(t, j) ==
  LET deadline == IF Deadline[j] > 0 THEN Deadline[j] + Margin ELSE 0
  IN  t + Lesser(Greater(RequestedLease, deadline), MaxLease)

HasOpenLease(j) == \E n \in Attempts : leases[j][n].state = "open"

\* Mutant: the candidate query without its status condition.
ClaimableAnyStatus(who, t) ==
  {j \in Jobs : /\ <<who, j>> \in Serves
                /\ jobs[j].available <= t
                /\ jobs[j].attempt < MaxAttempts[j]}

\* The rows the claim's candidate query selects.
Claimable(who, t) ==
  {j \in Jobs : /\ <<who, j>> \in Serves
                /\ jobs[j].status = "queued"
                /\ jobs[j].available <= t
                /\ jobs[j].attempt < MaxAttempts[j]}

\* Mutant: the attempt is not counted.
LeasedUncounted(j, who, expires) ==
  [jobs[j] EXCEPT !.status = "running", !.owner = who, !.expires = expires]

Leased(j, who, expires) ==
  [jobs[j] EXCEPT !.status = "running", !.owner = who,
                  !.attempt = @ + 1, !.expires = expires]

\* A row with its lease columns cleared.
Unleased(j, status) ==
  [jobs[j] EXCEPT !.status = status, !.owner = Nobody, !.expires = 0]

-----------------------------------------------------------------------------

\* JobRepository.enqueue of a new idempotency key.
Enqueue(j, t) ==
  /\ jobs[j].status = "absent"
  /\ jobs' = [jobs EXCEPT ![j] = [NoJob EXCEPT !.status = "queued", !.available = t]]
  /\ UNCHANGED <<now, leases, reports>>

\* AgentTransportRepository.claimWork: the jobs and their lease rows in one
\* transaction.  Priority and SKIP LOCKED decide which candidates are taken;
\* here any choice within the limit.  The unique index on open leases would
\* abort the whole transaction.
ClaimWork(a, chosen, t) ==
  /\ chosen # {}
  /\ chosen \subseteq Claimable(a, t)
  /\ Cardinality(chosen) <= ClaimLimit
  /\ \A j \in chosen : LeaseExpiryFor(t, j) <= MaxTime
  /\ \A j \in chosen : ~HasOpenLease(j)
  /\ jobs' = [j \in Jobs |-> IF j \in chosen
                             THEN Leased(j, a, LeaseExpiryFor(t, j))
                             ELSE jobs[j]]
  /\ leases' = [j \in Jobs |->
                  IF j \in chosen
                  THEN [leases[j] EXCEPT ![jobs[j].attempt + 1] =
                          [state |-> "open", agent |-> a, expires |-> LeaseExpiryFor(t, j)]]
                  ELSE leases[j]]
  /\ UNCHANGED <<now, reports>>

\* AgentTransportRepository.settleLease, the first transaction of a result.
\* A lease the agent does not hold, one already settled and one expired at the
\* handler's clock are refused and change nothing.
SettleLease(a, j, n, outcome, t) ==
  /\ leases[j][n].state = "open"
  /\ leases[j][n].agent = a
  /\ t < leases[j][n].expires
  /\ leases' = [leases EXCEPT ![j][n].state = outcome]
  /\ reports' = reports \cup
       {[job |-> j, attempt |-> n, agent |-> a, outcome |-> outcome]}
  /\ UNCHANGED <<now, jobs>>

\* Mutant: only a success closes the job.
CloseJobOnSuccess(r) ==
  /\ r \in reports
  /\ reports' = reports \ {r}
  /\ jobs' = IF r.outcome = "succeeded" THEN [jobs EXCEPT ![r.job] = Unleased(r.job, "succeeded")]
                                        ELSE jobs
  /\ UNCHANGED <<now, leases>>

\* JobRepository.complete or fail, the second transaction of a result.  The
\* update finds no row when the agent no longer owns the running job.
CloseJob(r) ==
  /\ r \in reports
  /\ reports' = reports \ {r}
  /\ jobs' = IF jobs[r.job].status = "running" /\ jobs[r.job].owner = r.agent
             THEN [jobs EXCEPT ![r.job] = Unleased(r.job, r.outcome)]
             ELSE jobs
  /\ UNCHANGED <<now, leases>>

\* Mutant: settled leases are reclaimed again.
ExpiredOrSettled(j, t) ==
  {n \in Attempts : leases[j][n].state # "none" /\ leases[j][n].expires <= t}

\* The open leases of a job that reclaimExpiredLeases settles at clock t.
Expired(j, t) ==
  {n \in Attempts : leases[j][n].state = "open" /\ leases[j][n].expires <= t}

ExpiredJobs(t) == {j \in Jobs : Expired(j, t) # {}}

\* The jobs it fails because no attempt remains.
Exhausted(t) ==
  {j \in ExpiredJobs(t) : ~(jobs[j].status = "running" /\ jobs[j].attempt < MaxAttempts[j])}

LeasesExpired(t) ==
  [j \in Jobs |-> [n \in Attempts |->
     IF n \in Expired(j, t) THEN [leases[j][n] EXCEPT !.state = "expired"] ELSE leases[j][n]]]

\* Mutant: the lease is closed and a job without attempts left is forgotten.
ReclaimForgetsExhausted(t) ==
  /\ ExpiredJobs(t) # {}
  /\ leases' = LeasesExpired(t)
  /\ jobs' = [j \in Jobs |-> IF j \in ExpiredJobs(t) \ Exhausted(t)
                             THEN [Unleased(j, "queued") EXCEPT !.available = t]
                             ELSE jobs[j]]
  /\ UNCHANGED <<now, reports>>

\* AgentTransportRepository.reclaimExpiredLeases: one transaction over every
\* expired open lease.
ReclaimExpiredLeases(t) ==
  /\ ExpiredJobs(t) # {}
  /\ leases' = LeasesExpired(t)
  /\ jobs' = [j \in Jobs |->
                IF jobs[j].status = "running" /\ j \in ExpiredJobs(t)
                THEN IF j \in Exhausted(t)
                     THEN Unleased(j, "failed")
                     ELSE [Unleased(j, "queued") EXCEPT !.available = t]
                ELSE jobs[j]]
  /\ UNCHANGED <<now, reports>>

\* JobRepository.lease, how a build worker takes a job: no lease row.
WorkerLease(w, j, t) ==
  /\ j \in Claimable(w, t)
  /\ jobs' = [jobs EXCEPT ![j] = Leased(j, w, t + WorkerLeaseTime)]
  /\ UNCHANGED <<now, leases, reports>>

\* JobRepository.complete or fail, called by the worker that holds the job.
WorkerClose(w, j, outcome) ==
  /\ jobs[j].status = "running"
  /\ jobs[j].owner = w
  /\ jobs' = [jobs EXCEPT ![j] = Unleased(j, outcome)]
  /\ UNCHANGED <<now, leases, reports>>

Tick ==
  /\ now < MaxTime
  /\ now' = now + 1
  /\ UNCHANGED <<jobs, leases, reports>>

\* The control API process dies: results between their transactions are gone.
CrashApi ==
  /\ ApiMayCrash
  /\ reports # {}
  /\ reports' = {}
  /\ UNCHANGED <<now, jobs, leases>>

QueueNext ==
  \/ \E j \in Jobs, t \in 0 .. now : Enqueue(j, t)
  \/ \E a \in Agents, chosen \in SUBSET Jobs, t \in 0 .. now : ClaimWork(a, chosen, t)
  \/ \E a \in Agents, j \in Jobs, n \in Attempts, outcome \in Outcomes, t \in 0 .. now :
       SettleLease(a, j, n, outcome, t)
  \/ \E r \in reports : CloseJob(r)
  \/ \E t \in 0 .. now : ReclaimExpiredLeases(t)
  \/ \E w \in Workers, j \in Jobs, t \in 0 .. now : WorkerLease(w, j, t)
  \/ \E w \in Workers, j \in Jobs, outcome \in Outcomes : WorkerClose(w, j, outcome)
  \/ Tick
  \/ CrashApi

QueueSpec == QueueInit /\ [][QueueNext]_queueVars

-----------------------------------------------------------------------------

\* An open lease is the authority over its job: the job is running, owned by
\* the lease's agent, in the attempt the lease was taken for and until the same
\* instant.  The code writes the two rows separately, and three transactions
\* (claimWork, settleLease, reclaimExpiredLeases) must keep them in step.
LeaseBacksJob ==
  \A j \in Jobs, n \in Attempts :
    leases[j][n].state = "open" =>
      /\ jobs[j].status = "running"
      /\ jobs[j].owner = leases[j][n].agent
      /\ jobs[j].attempt = n
      /\ jobs[j].expires = leases[j][n].expires

\* Between settleLease and complete or fail nobody can take the job away: it is
\* still the running attempt of the agent that reported, so the result is
\* written to the attempt it is about and the update never finds zero rows.
ReportStillOwnsJob ==
  \A r \in reports :
    /\ jobs[r.job].status = "running"
    /\ jobs[r.job].owner = r.agent
    /\ jobs[r.job].attempt = r.attempt
    /\ leases[r.job][r.attempt].state = r.outcome

\* A queued job has no open lease and its next attempt has no lease row yet, so
\* the insert of claimWork cannot trip the unique index on open leases, which
\* would abort the claim of every other job of the batch with it.
ClaimNeverBlocked ==
  \A j \in Jobs, n \in Attempts :
    jobs[j].status = "queued" =>
      /\ leases[j][n].state # "open"
      /\ n > jobs[j].attempt => leases[j][n] = NoLease

\* The verdict of a finished job is that of its last lease, never that of an
\* earlier attempt whose result came late.
VerdictFromLastLease ==
  \A j \in Jobs, n \in Attempts :
    (jobs[j].status \in Outcomes /\ n = jobs[j].attempt /\ leases[j][n].state # "none")
      => (jobs[j].status = "succeeded" <=> leases[j][n].state = "succeeded")

\* A running job has a holder and no other job has one; attempts are counted up
\* to the job's own limit, and only counted attempts have a lease row.
JobRowsConsistent ==
  \A j \in Jobs :
    /\ jobs[j].status = "running" <=> jobs[j].owner # Nobody
    /\ jobs[j].attempt <= MaxAttempts[j]
    /\ jobs[j].status = "absent" => jobs[j].attempt = 0
    /\ \A n \in Attempts : leases[j][n] # NoLease
                             => leases[j][n].state # "none" /\ n <= jobs[j].attempt

\* The attempt a build worker runs has no lease row.
WorkerHoldsNoLease ==
  \A j \in Jobs, n \in Attempts :
    (jobs[j].owner \in Workers /\ n = jobs[j].attempt) => leases[j][n] = NoLease

\* What every transaction preserves of the rows of jobs and agent_work_leases
\* and of the results in progress.
QueueInv ==
  /\ QueueTypeOK
  /\ LeaseBacksJob
  /\ ReportStillOwnsJob
  /\ ClaimNeverBlocked
  /\ VerdictFromLastLease
  /\ JobRowsConsistent
  /\ WorkerHoldsNoLease

\* A job an agent leased is never left running with nobody to end it: its lease
\* is open and will expire, or the API is about to close it.
NeverStranded ==
  \A j \in Jobs :
    (jobs[j].status = "running" /\ jobs[j].owner \in Agents)
      => HasOpenLease(j) \/ \E r \in reports : r.job = j

\* A finished job stays as it is.
FinishedIsFinal ==
  [][\A j \in Jobs : jobs[j].status \in Outcomes => jobs'[j] = jobs[j]]_queueVars

\* Work an agent took is ended or returned to the queue even when the agent is
\* never heard of again.
LeasedWorkComesBack ==
  \A j \in Jobs :
    (jobs[j].status = "running" /\ jobs[j].owner \in Agents) ~> (jobs[j].status # "running")

=============================================================================
