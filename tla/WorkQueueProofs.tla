-------------------------- MODULE WorkQueueProofs --------------------------
(***************************************************************************)
(* QueueInv is an inductive invariant of the work queue, for any number of *)
(* jobs, agents, workers and attempts and any lease arithmetic.            *)
(***************************************************************************)
EXTENDS WorkQueue, TLAPS

USE ConstantsAssumption

-----------------------------------------------------------------------------

\* The lease arithmetic of claimWork yields a point in time.
LEMMA LeaseExpiryType ==
  ASSUME NEW t \in Nat, NEW j \in Jobs
  PROVE  LeaseExpiryFor(t, j) \in Nat
BY DEF LeaseExpiryFor, Lesser, Greater

\* claimWork and lease count an attempt that the lease table can address.
LEMMA LeasedType ==
  ASSUME QueueTypeOK, NEW j \in Jobs, NEW who \in Owners, NEW e \in Nat,
         jobs[j].attempt < MaxAttempts[j]
  PROVE  /\ Leased(j, who, e) \in Job
         /\ jobs[j].attempt + 1 \in Attempts
         /\ Leased(j, who, e).status = "running"
         /\ Leased(j, who, e).owner = who
         /\ Leased(j, who, e).attempt = jobs[j].attempt + 1
         /\ Leased(j, who, e).expires = e
<1>1. jobs[j] \in Job
  BY DEF QueueTypeOK
<1>2. /\ jobs[j].attempt \in Nat
      /\ jobs[j].attempt + 1 \in Nat
  BY <1>1 DEF Job
<1>3. MaxAttempts[j] \in 1 .. AttemptLimit
  BY DEF Attempts
<1>4. jobs[j].attempt + 1 \in Attempts
  BY <1>2, <1>3 DEF Attempts
<1>5. Leased(j, who, e) \in Job
  BY <1>1, <1>2 DEF Leased, Job, JobStatus
<1> QED
  BY <1>1, <1>4, <1>5 DEF Leased, Job

\* Clearing the lease columns keeps the attempt counter.
LEMMA UnleasedType ==
  ASSUME QueueTypeOK, NEW j \in Jobs, NEW status \in JobStatus
  PROVE  /\ Unleased(j, status) \in Job
         /\ Unleased(j, status).status = status
         /\ Unleased(j, status).owner = Nobody
         /\ Unleased(j, status).attempt = jobs[j].attempt
<1>1. jobs[j] \in Job
  BY DEF QueueTypeOK
<1> QED
  BY <1>1 DEF Unleased, Job

\* The initial rows satisfy the invariant.
LEMMA QueueInitInv == QueueInit => QueueInv
<1> SUFFICES ASSUME QueueInit PROVE QueueInv
  OBVIOUS
<1>1. QueueTypeOK
  <2>1. NoJob \in Job
    BY DEF NoJob, Job, JobStatus
  <2>2. NoLease \in Lease
    BY DEF NoLease, Lease, LeaseState
  <2> QED
    BY <2>1, <2>2 DEF QueueInit, QueueTypeOK
<1>2. /\ \A j \in Jobs : jobs[j] = NoJob
      /\ \A j \in Jobs, n \in Attempts : leases[j][n] = NoLease
      /\ reports = {}
  BY DEF QueueInit
<1>3. \A j \in Jobs : 0 <= MaxAttempts[j]
  BY DEF Attempts
<1>4. LeaseBacksJob /\ ReportStillOwnsJob /\ ClaimNeverBlocked /\ VerdictFromLastLease
  BY <1>2 DEF LeaseBacksJob, ReportStillOwnsJob, ClaimNeverBlocked, VerdictFromLastLease,
              NoJob, NoLease, Outcomes
<1>5. JobRowsConsistent /\ WorkerHoldsNoLease
  BY <1>2, <1>3 DEF JobRowsConsistent, WorkerHoldsNoLease, NoJob, NoLease
<1> QED
  BY <1>1, <1>4, <1>5 DEF QueueInv

-----------------------------------------------------------------------------
(* One lemma per transaction. *)

\* claimWork keeps the job rows and the lease rows in step.
LEMMA ClaimWorkInv ==
  ASSUME QueueInv, NEW a \in Agents, NEW chosen \in SUBSET Jobs, NEW t \in Nat,
         ClaimWork(a, chosen, t)
  PROVE  QueueInv'
<1> USE DEF QueueInv
<1>1. \A j \in chosen : /\ j \in Jobs
                        /\ jobs[j].status = "queued"
                        /\ jobs[j].attempt < MaxAttempts[j]
  BY DEF ClaimWork, Claimable
<1>2. a \in Owners /\ a # Nobody /\ a \notin Workers
  BY DEF Owners
<1>3. \A j \in Jobs : /\ j \in chosen => jobs'[j] = Leased(j, a, LeaseExpiryFor(t, j))
                      /\ j \notin chosen => jobs'[j] = jobs[j]
  BY DEF ClaimWork
<1>4. \A j \in Jobs :
        /\ j \notin chosen => leases'[j] = leases[j]
        /\ j \in chosen => leases'[j] =
             [leases[j] EXCEPT ![jobs[j].attempt + 1] =
                [state |-> "open", agent |-> a, expires |-> LeaseExpiryFor(t, j)]]
  BY DEF ClaimWork
<1>5. \A j \in chosen : /\ jobs'[j] \in Job
                        /\ jobs[j].attempt + 1 \in Attempts
                        /\ jobs'[j].status = "running"
                        /\ jobs'[j].owner = a
                        /\ jobs'[j].attempt = jobs[j].attempt + 1
                        /\ jobs'[j].expires = LeaseExpiryFor(t, j)
  BY <1>1, <1>2, <1>3, LeasedType, LeaseExpiryType
<1>6. reports' = reports /\ now' = now
  BY DEF ClaimWork
<1>7. \A j \in Jobs : jobs[j].attempt \in Nat
  BY DEF QueueTypeOK, Job
<1>8. \A j \in chosen, n \in Attempts :
        /\ n # jobs[j].attempt + 1 => leases'[j][n] = leases[j][n]
        /\ n = jobs[j].attempt + 1 => /\ leases'[j][n].state = "open"
                                      /\ leases'[j][n].agent = a
                                      /\ leases'[j][n].expires = LeaseExpiryFor(t, j)
                                      /\ leases'[j][n] \in Lease
  <2> TAKE j \in chosen, n \in Attempts
  <2>1. leases[j] \in [Attempts -> Lease]
    BY DEF QueueTypeOK
  <2>2. LeaseExpiryFor(t, j) \in Nat
    BY LeaseExpiryType
  <2>3. leases'[j] = [leases[j] EXCEPT ![jobs[j].attempt + 1] =
                        [state |-> "open", agent |-> a, expires |-> LeaseExpiryFor(t, j)]]
    BY <1>1, <1>4
  <2>4. [state |-> "open", agent |-> a, expires |-> LeaseExpiryFor(t, j)] \in Lease
    BY <2>2 DEF Lease, LeaseState
  <2> QED
    BY <2>1, <2>3, <2>4
<1>9. \A j \in Jobs : j \notin chosen => jobs'[j] = jobs[j] /\ leases'[j] = leases[j]
  BY <1>3, <1>4
<1>t. QueueTypeOK'
  <2>1. jobs' \in [Jobs -> Job]
    <3>1. \A j \in Jobs : jobs'[j] \in Job
      BY <1>3, <1>5 DEF QueueTypeOK
    <3> QED
      BY <3>1 DEF ClaimWork
  <2>2. leases' \in [Jobs -> [Attempts -> Lease]]
    <3>1. \A j \in Jobs : leases[j] \in [Attempts -> Lease]
      BY DEF QueueTypeOK
    <3>2. \A j \in Jobs : leases'[j] \in [Attempts -> Lease]
      <4> SUFFICES ASSUME NEW j \in Jobs PROVE leases'[j] \in [Attempts -> Lease]
        OBVIOUS
      <4>1. CASE j \in chosen
        <5>1. leases'[j] = [leases[j] EXCEPT ![jobs[j].attempt + 1] = leases'[j][jobs[j].attempt + 1]]
          BY <1>4, <1>5, <3>1, <4>1
        <5> QED
          BY <1>5, <1>8, <3>1, <4>1, <5>1
      <4> QED
        BY <1>9, <3>1, <4>1
    <3> QED
      BY <3>2 DEF ClaimWork
  <2> QED
    BY <2>1, <2>2, <1>6 DEF QueueTypeOK
<1>b. LeaseBacksJob'
  <2> SUFFICES ASSUME NEW j \in Jobs, NEW n \in Attempts, leases'[j][n].state = "open"
               PROVE  /\ jobs'[j].status = "running"
                      /\ jobs'[j].owner = leases'[j][n].agent
                      /\ jobs'[j].attempt = n
                      /\ jobs'[j].expires = leases'[j][n].expires
    BY DEF LeaseBacksJob
  <2>1. CASE j \in chosen
    <3>1. leases[j][n].state # "open"
      BY <1>1, <1>7, <2>1 DEF ClaimNeverBlocked, Attempts
    <3>2. n = jobs[j].attempt + 1
      BY <1>8, <2>1, <3>1
    <3> QED
      BY <1>5, <1>8, <2>1, <3>2
  <2>2. CASE j \notin chosen
    BY <1>9, <2>2 DEF LeaseBacksJob
  <2> QED
    BY <2>1, <2>2
<1>r. ReportStillOwnsJob'
  <2>1. \A r \in reports : r.job \in Jobs /\ r.attempt \in Attempts /\ r.job \notin chosen
    BY <1>1 DEF QueueTypeOK, Report, ReportStillOwnsJob
  <2> QED
    BY <1>3, <1>4, <1>6, <2>1 DEF ReportStillOwnsJob
<1>c. ClaimNeverBlocked'
  <2>1. \A j \in Jobs : jobs'[j].status = "queued" => j \notin chosen /\ jobs'[j] = jobs[j]
    BY <1>3, <1>5
  <2> QED
    BY <1>9, <2>1 DEF ClaimNeverBlocked
<1>v. VerdictFromLastLease'
  <2>1. \A j \in Jobs : jobs'[j].status \in Outcomes => j \notin chosen /\ jobs'[j] = jobs[j]
    BY <1>3, <1>5 DEF Outcomes
  <2> QED
    BY <1>9, <2>1 DEF VerdictFromLastLease
<1>j. JobRowsConsistent'
  <2>1. \A j \in chosen : jobs'[j].attempt <= MaxAttempts[j]
    BY <1>1, <1>5, <1>7 DEF Attempts
  <2>2. ASSUME NEW j \in chosen, NEW n \in Attempts, leases'[j][n] # NoLease
        PROVE  leases'[j][n].state # "none" /\ n <= jobs'[j].attempt
    <3>1. CASE n = jobs[j].attempt + 1
      BY <1>1, <1>8, <1>5, <1>7, <3>1
    <3>2. CASE n # jobs[j].attempt + 1
      <4>1. leases'[j][n] = leases[j][n]
        BY <1>8, <3>2
      <4>2. leases[j][n].state # "none" /\ n <= jobs[j].attempt
        BY <1>1, <2>2, <4>1 DEF JobRowsConsistent
      <4> QED
        BY <1>1, <1>5, <1>7, <4>1, <4>2 DEF Attempts
    <3> QED
      BY <3>1, <3>2
  <2>3. \A j \in Jobs : j \notin chosen => jobs'[j] = jobs[j]
                          /\ \A n \in Attempts : leases'[j][n] = leases[j][n]
    BY <1>3, <1>4
  <2> QED
    BY <1>1, <1>2, <1>5, <2>1, <2>2, <2>3 DEF JobRowsConsistent
<1>w. WorkerHoldsNoLease'
  <2>1. \A j \in Jobs : jobs'[j].owner \in Workers => j \notin chosen /\ jobs'[j] = jobs[j]
    BY <1>2, <1>3, <1>5
  <2> QED
    BY <1>9, <2>1 DEF WorkerHoldsNoLease
<1> QED
  BY <1>t, <1>b, <1>r, <1>c, <1>v, <1>j, <1>w

\* enqueue adds a row no lease and no result can refer to.
LEMMA EnqueueInv ==
  ASSUME QueueInv, NEW j \in Jobs, NEW t \in Nat, Enqueue(j, t)
  PROVE  QueueInv'
<1> USE DEF QueueInv
<1>1. /\ jobs[j].status = "absent"
      /\ leases' = leases /\ reports' = reports /\ now' = now
  BY DEF Enqueue
<1>2. jobs[j].attempt = 0 /\ jobs[j].owner = Nobody
  BY <1>1 DEF JobRowsConsistent, QueueTypeOK, Job
<1>3. /\ jobs'[j] \in Job
      /\ jobs'[j].status = "queued"
      /\ jobs'[j].owner = Nobody
      /\ jobs'[j].attempt = 0
  <2>1. jobs'[j] = [NoJob EXCEPT !.status = "queued", !.available = t]
    BY DEF Enqueue, QueueTypeOK
  <2>2. jobs'[j] = [status |-> "queued", owner |-> Nobody, attempt |-> 0,
                    expires |-> 0, available |-> t]
    BY <2>1 DEF NoJob
  <2> QED
    BY <2>2 DEF Job, JobStatus
<1>4. \A k \in Jobs : k # j => jobs'[k] = jobs[k]
  BY DEF Enqueue, QueueTypeOK
<1>5. \A n \in Attempts : leases[j][n] = NoLease
  <2> SUFFICES ASSUME NEW n \in Attempts, leases[j][n] # NoLease PROVE FALSE
    OBVIOUS
  <2>1. n <= 0
    BY <1>2 DEF JobRowsConsistent
  <2> QED
    BY <2>1 DEF Attempts
<1>t. QueueTypeOK'
  <2>1. jobs' \in [Jobs -> Job]
    BY <1>3 DEF Enqueue, QueueTypeOK
  <2> QED
    BY <1>1, <2>1 DEF QueueTypeOK
<1>b. LeaseBacksJob'
  BY <1>1, <1>4, <1>5 DEF LeaseBacksJob, NoLease
<1>r. ReportStillOwnsJob'
  <2>1. \A r \in reports : r.job \in Jobs /\ r.job # j
    BY <1>1 DEF ReportStillOwnsJob, QueueTypeOK, Report
  <2> QED
    BY <1>1, <1>4, <2>1 DEF ReportStillOwnsJob
<1>c. ClaimNeverBlocked'
  BY <1>1, <1>4, <1>5 DEF ClaimNeverBlocked, NoLease
<1>v. VerdictFromLastLease'
  BY <1>1, <1>3, <1>4 DEF VerdictFromLastLease, Outcomes
<1>j. JobRowsConsistent'
  <2>1. 0 <= MaxAttempts[j]
    BY DEF Attempts
  <2> QED
    BY <1>1, <1>3, <1>4, <1>5, <2>1 DEF JobRowsConsistent
<1>w. WorkerHoldsNoLease'
  BY <1>1, <1>4, <1>5 DEF WorkerHoldsNoLease
<1> QED
  BY <1>t, <1>b, <1>r, <1>c, <1>v, <1>j, <1>w

\* settleLease leaves the job to the agent that reported.
LEMMA SettleLeaseInv ==
  ASSUME QueueInv, NEW a \in Agents, NEW j \in Jobs, NEW n \in Attempts,
         NEW outcome \in Outcomes, NEW t \in Nat, SettleLease(a, j, n, outcome, t)
  PROVE  QueueInv'
<1> USE DEF QueueInv
<1> DEFINE r0 == [job |-> j, attempt |-> n, agent |-> a, outcome |-> outcome]
<1>1. /\ leases[j][n].state = "open" /\ leases[j][n].agent = a
      /\ jobs' = jobs /\ now' = now
      /\ reports' = reports \cup {r0}
  BY DEF SettleLease
<1>2. jobs[j].status = "running" /\ jobs[j].owner = a /\ jobs[j].attempt = n
  BY <1>1 DEF LeaseBacksJob
<1>3. \A k \in Jobs : k # j => leases'[k] = leases[k]
  BY DEF SettleLease, QueueTypeOK
<1>4. \A m \in Attempts :
        /\ m # n => leases'[j][m] = leases[j][m]
        /\ m = n => leases'[j][m] \in Lease /\ leases'[j][m].state = outcome
  <2> TAKE m \in Attempts
  <2>1. leases[j] \in [Attempts -> Lease]
    BY DEF QueueTypeOK
  <2>2. leases'[j] = [leases[j] EXCEPT ![n].state = outcome]
    BY DEF SettleLease, QueueTypeOK
  <2>3. leases[j][n] \in Lease
    BY <2>1
  <2>4. leases'[j][n] = [leases[j][n] EXCEPT !.state = outcome]
    BY <2>1, <2>2
  <2>5. leases'[j][n] \in Lease /\ leases'[j][n].state = outcome
    BY <2>3, <2>4 DEF Lease, LeaseState, Outcomes
  <2> QED
    BY <2>1, <2>2, <2>5
<1>5. outcome # "open" /\ outcome # "none"
  BY DEF Outcomes
<1>t. QueueTypeOK'
  <2>1. r0 \in Report
    BY DEF Report
  <2>2. leases' \in [Jobs -> [Attempts -> Lease]]
    <3>1. leases[j] \in [Attempts -> Lease]
      BY DEF QueueTypeOK
    <3>2. leases'[j] = [leases[j] EXCEPT ![n] = leases'[j][n]]
      BY <3>1 DEF SettleLease, QueueTypeOK
    <3>3. leases'[j] \in [Attempts -> Lease]
      BY <1>4, <3>1, <3>2
    <3> QED
      BY <3>3 DEF SettleLease, QueueTypeOK
  <2> QED
    BY <1>1, <2>1, <2>2 DEF QueueTypeOK
<1>b. LeaseBacksJob'
  <2>1. \A k \in Jobs, m \in Attempts :
          leases'[k][m].state = "open" => leases'[k][m] = leases[k][m]
    BY <1>3, <1>4, <1>5
  <2> QED
    BY <1>1, <2>1 DEF LeaseBacksJob
<1>r. ReportStillOwnsJob'
  <2>1. \A r \in reports : r.job \in Jobs /\ r.attempt \in Attempts
    BY DEF QueueTypeOK, Report
  <2>2. \A r \in reports : leases'[r.job][r.attempt] = leases[r.job][r.attempt]
    <3> SUFFICES ASSUME NEW r \in reports, r.job = j
                 PROVE  leases'[r.job][r.attempt] = leases[r.job][r.attempt]
      BY <1>3, <2>1
    <3>1. r.attempt = n /\ leases[j][n].state = r.outcome
      BY <1>2 DEF ReportStillOwnsJob
    <3>2. r.outcome \in Outcomes
      BY DEF QueueTypeOK, Report
    <3> QED
      BY <1>1, <3>1, <3>2 DEF Outcomes
  <2>3. ASSUME NEW r \in reports'
        PROVE  /\ jobs'[r.job].status = "running"
               /\ jobs'[r.job].owner = r.agent
               /\ jobs'[r.job].attempt = r.attempt
               /\ leases'[r.job][r.attempt].state = r.outcome
    <3>1. CASE r \in reports
      BY <1>1, <2>2, <3>1 DEF ReportStillOwnsJob
    <3>2. CASE r = r0
      BY <1>1, <1>2, <1>4, <3>2
    <3> QED
      BY <1>1, <3>1, <3>2
  <2> QED
    BY <2>3 DEF ReportStillOwnsJob
<1>c. ClaimNeverBlocked'
  BY <1>1, <1>2, <1>3 DEF ClaimNeverBlocked
<1>v. VerdictFromLastLease'
  BY <1>1, <1>2, <1>3 DEF VerdictFromLastLease, Outcomes
<1>j. JobRowsConsistent'
  <2>1. leases[j][n] # NoLease
    BY <1>1 DEF NoLease
  <2> QED
    BY <1>1, <1>3, <1>4, <1>5, <2>1 DEF JobRowsConsistent
<1>w. WorkerHoldsNoLease'
  BY <1>1, <1>2, <1>3 DEF WorkerHoldsNoLease
<1> QED
  BY <1>t, <1>b, <1>r, <1>c, <1>v, <1>j, <1>w

\* complete or fail ends the job with the verdict of the lease just settled.
LEMMA CloseJobInv ==
  ASSUME QueueInv, NEW r \in reports, CloseJob(r)
  PROVE  QueueInv'
<1> USE DEF QueueInv
<1>0. r \in Report
  BY DEF QueueTypeOK
<1>1. r.job \in Jobs /\ r.attempt \in Attempts /\ r.agent \in Agents /\ r.outcome \in Outcomes
  BY <1>0 DEF Report
<1>2. /\ jobs[r.job].status = "running"
      /\ jobs[r.job].owner = r.agent
      /\ jobs[r.job].attempt = r.attempt
      /\ leases[r.job][r.attempt].state = r.outcome
  BY DEF ReportStillOwnsJob
<1>3. /\ leases' = leases /\ now' = now
      /\ reports' = reports \ {r}
  BY DEF CloseJob
<1>4. \A k \in Jobs : k # r.job => jobs'[k] = jobs[k]
  BY <1>1, <1>2 DEF CloseJob, QueueTypeOK
<1>5. /\ jobs'[r.job] \in Job
      /\ jobs'[r.job].status = r.outcome
      /\ jobs'[r.job].owner = Nobody
      /\ jobs'[r.job].attempt = r.attempt
  <2>1. jobs'[r.job] = Unleased(r.job, r.outcome)
    BY <1>1, <1>2 DEF CloseJob, QueueTypeOK
  <2>2. r.outcome \in JobStatus
    BY <1>1 DEF Outcomes, JobStatus
  <2> QED
    BY <1>1, <1>2, <2>1, <2>2, UnleasedType
<1>6. r.outcome \notin {"running", "queued", "absent", "open"}
  BY <1>1 DEF Outcomes
<1>7. \A n \in Attempts : leases[r.job][n].state # "open"
  BY <1>1, <1>2, <1>6 DEF LeaseBacksJob
<1>8. \A k \in Jobs : jobs[k].attempt \in Nat
  BY DEF QueueTypeOK, Job
<1>t. QueueTypeOK'
  <2>1. jobs' \in [Jobs -> Job]
    <3>1. \A k \in Jobs : jobs'[k] \in Job
      BY <1>4, <1>5 DEF QueueTypeOK
    <3>2. jobs' = [jobs EXCEPT ![r.job] = Unleased(r.job, r.outcome)]
      BY <1>2 DEF CloseJob
    <3> QED
      BY <3>1, <3>2 DEF QueueTypeOK
  <2> QED
    BY <1>3, <2>1 DEF QueueTypeOK
<1>b. LeaseBacksJob'
  BY <1>3, <1>4, <1>7 DEF LeaseBacksJob
<1>r. ReportStillOwnsJob'
  <2>1. ASSUME NEW q \in reports, q.job = r.job PROVE q = r
    <3>1. q \in Report
      BY DEF QueueTypeOK
    <3>2. q.attempt = r.attempt /\ q.agent = r.agent /\ q.outcome = r.outcome
      BY <1>2, <2>1 DEF ReportStillOwnsJob
    <3> QED
      BY <1>0, <2>1, <3>1, <3>2 DEF Report
  <2>2. \A q \in reports' : q \in reports /\ q.job \in Jobs /\ q.job # r.job
    BY <1>3, <2>1 DEF QueueTypeOK, Report
  <2> QED
    BY <1>3, <1>4, <2>2 DEF ReportStillOwnsJob
<1>c. ClaimNeverBlocked'
  BY <1>3, <1>4, <1>5, <1>6 DEF ClaimNeverBlocked
<1>v. VerdictFromLastLease'
  BY <1>1, <1>2, <1>3, <1>4, <1>5 DEF VerdictFromLastLease, Outcomes
<1>j. JobRowsConsistent'
  BY <1>1, <1>2, <1>3, <1>4, <1>5, <1>6 DEF JobRowsConsistent
<1>w. WorkerHoldsNoLease'
  BY <1>3, <1>4, <1>5 DEF WorkerHoldsNoLease
<1> QED
  BY <1>t, <1>b, <1>r, <1>c, <1>v, <1>j, <1>w

\* reclaimExpiredLeases takes a job from its holder only together with the
\* lease, and never a job whose result is already being written.
LEMMA ReclaimInv ==
  ASSUME QueueInv, NEW t \in Nat, ReclaimExpiredLeases(t)
  PROVE  QueueInv'
<1> USE DEF QueueInv
<1>1. /\ reports' = reports /\ now' = now
      /\ leases' = LeasesExpired(t)
  BY DEF ReclaimExpiredLeases
<1>2. \A j \in Jobs, n \in Attempts :
        /\ n \in Expired(j, t) <=> leases[j][n].state = "open" /\ leases[j][n].expires <= t
        /\ n \notin Expired(j, t) => leases'[j][n] = leases[j][n]
        /\ n \in Expired(j, t) => leases'[j][n] \in Lease /\ leases'[j][n].state = "expired"
  <2> TAKE j \in Jobs, n \in Attempts
  <2>1. n \in Expired(j, t) <=> leases[j][n].state = "open" /\ leases[j][n].expires <= t
    BY DEF Expired
  <2>2. leases'[j][n] = IF n \in Expired(j, t) THEN [leases[j][n] EXCEPT !.state = "expired"]
                                               ELSE leases[j][n]
    BY <1>1 DEF LeasesExpired
  <2>3. leases[j][n] \in Lease
    BY DEF QueueTypeOK
  <2>4. [leases[j][n] EXCEPT !.state = "expired"] \in Lease
    BY <2>3 DEF Lease, LeaseState
  <2>5. [leases[j][n] EXCEPT !.state = "expired"].state = "expired"
    BY <2>3 DEF Lease
  <2> QED
    BY <2>1, <2>2, <2>4, <2>5
<1>3. \A j \in Jobs : j \in ExpiredJobs(t) <=> \E n \in Attempts : n \in Expired(j, t)
  BY DEF ExpiredJobs, Expired
<1>4. \A j \in ExpiredJobs(t) :
        /\ j \in Jobs /\ jobs[j].status = "running" /\ jobs[j].owner \in Agents
        /\ jobs[j].attempt \in Expired(j, t)
  <2> SUFFICES ASSUME NEW j \in ExpiredJobs(t)
               PROVE  /\ j \in Jobs /\ jobs[j].status = "running" /\ jobs[j].owner \in Agents
                      /\ jobs[j].attempt \in Expired(j, t)
    OBVIOUS
  <2>1. j \in Jobs
    BY DEF ExpiredJobs
  <2>2. PICK n \in Attempts : n \in Expired(j, t)
    BY <1>3, <2>1
  <2>3. leases[j][n].state = "open"
    BY <1>2, <2>1, <2>2
  <2>4. jobs[j].status = "running" /\ jobs[j].owner = leases[j][n].agent /\ jobs[j].attempt = n
    BY <2>1, <2>3 DEF LeaseBacksJob
  <2>5. leases[j][n].agent \in Agents \cup {Nobody}
    BY <2>1 DEF QueueTypeOK, Lease
  <2>6. jobs[j].owner # Nobody
    BY <2>1, <2>4 DEF JobRowsConsistent
  <2> QED
    BY <2>1, <2>2, <2>4, <2>5, <2>6
<1>5. \A j \in Jobs : j \notin ExpiredJobs(t) => jobs'[j] = jobs[j]
  BY DEF ReclaimExpiredLeases
<1>6. \A j \in ExpiredJobs(t) :
        /\ jobs'[j] \in Job
        /\ jobs'[j].owner = Nobody
        /\ jobs'[j].attempt = jobs[j].attempt
        /\ jobs'[j].status \in {"queued", "failed"}
  <2> TAKE j \in ExpiredJobs(t)
  <2>1. jobs'[j] = IF j \in Exhausted(t) THEN Unleased(j, "failed")
                   ELSE [Unleased(j, "queued") EXCEPT !.available = t]
    BY <1>4 DEF ReclaimExpiredLeases
  <2>2. \A s \in {"queued", "failed"} :
          /\ Unleased(j, s) \in Job
          /\ Unleased(j, s).status = s
          /\ Unleased(j, s).owner = Nobody
          /\ Unleased(j, s).attempt = jobs[j].attempt
    BY <1>4, UnleasedType DEF JobStatus
  <2>3. /\ [Unleased(j, "queued") EXCEPT !.available = t] \in Job
        /\ [Unleased(j, "queued") EXCEPT !.available = t].status = "queued"
        /\ [Unleased(j, "queued") EXCEPT !.available = t].owner = Nobody
        /\ [Unleased(j, "queued") EXCEPT !.available = t].attempt = jobs[j].attempt
    BY <2>2 DEF Job
  <2> QED
    BY <2>1, <2>2, <2>3
<1>7. \A j \in Jobs : jobs[j].attempt \in Nat
  BY DEF QueueTypeOK, Job
<1>8. \A j \in Jobs, n \in Attempts :
        j \notin ExpiredJobs(t) => leases'[j][n] = leases[j][n]
  BY <1>2, <1>3
<1>t. QueueTypeOK'
  <2>1. jobs' \in [Jobs -> Job]
    <3>1. \A j \in Jobs : jobs'[j] \in Job
      BY <1>5, <1>6 DEF QueueTypeOK
    <3> QED
      BY <3>1 DEF ReclaimExpiredLeases
  <2>2. leases' \in [Jobs -> [Attempts -> Lease]]
    <3>1. \A j \in Jobs, n \in Attempts : leases'[j][n] \in Lease
      BY <1>2 DEF QueueTypeOK
    <3>2. \A j \in Jobs : leases'[j] \in [Attempts -> Lease]
      BY <1>1, <3>1 DEF LeasesExpired
    <3> QED
      BY <1>1, <3>2 DEF LeasesExpired
  <2> QED
    BY <1>1, <2>1, <2>2 DEF QueueTypeOK
<1>b. LeaseBacksJob'
  <2> SUFFICES ASSUME NEW j \in Jobs, NEW n \in Attempts, leases'[j][n].state = "open"
               PROVE  /\ jobs'[j].status = "running"
                      /\ jobs'[j].owner = leases'[j][n].agent
                      /\ jobs'[j].attempt = n
                      /\ jobs'[j].expires = leases'[j][n].expires
    BY DEF LeaseBacksJob
  <2>1. n \notin Expired(j, t) /\ leases'[j][n] = leases[j][n]
    BY <1>2
  <2>2. jobs[j].attempt = n
    BY <2>1 DEF LeaseBacksJob
  <2>3. j \notin ExpiredJobs(t)
    BY <1>4, <2>1, <2>2
  <2> QED
    BY <1>5, <2>1, <2>3 DEF LeaseBacksJob
<1>r. ReportStillOwnsJob'
  <2> SUFFICES ASSUME NEW r \in reports
               PROVE  r.job \in Jobs /\ r.attempt \in Attempts /\ r.job \notin ExpiredJobs(t)
    BY <1>1, <1>5, <1>8 DEF ReportStillOwnsJob
  <2>1. r.job \in Jobs /\ r.attempt \in Attempts /\ r.outcome # "open"
    BY DEF QueueTypeOK, Report, Outcomes
  <2>2. r.attempt \notin Expired(r.job, t)
    BY <1>2, <2>1 DEF ReportStillOwnsJob
  <2> QED
    BY <1>4, <2>1, <2>2 DEF ReportStillOwnsJob
<1>c. ClaimNeverBlocked'
  <2> SUFFICES ASSUME NEW j \in Jobs, NEW n \in Attempts, jobs'[j].status = "queued"
               PROVE  /\ leases'[j][n].state # "open"
                      /\ n > jobs'[j].attempt => leases'[j][n] = NoLease
    BY DEF ClaimNeverBlocked
  <2>1. CASE j \notin ExpiredJobs(t)
    BY <1>5, <1>8, <2>1 DEF ClaimNeverBlocked
  <2>2. CASE j \in ExpiredJobs(t)
    <3>1. leases[j][n].state = "open" => n = jobs[j].attempt
      BY DEF LeaseBacksJob
    <3>2. leases'[j][n].state # "open"
      BY <1>2, <1>4, <2>2, <3>1
    <3>3. n > jobs[j].attempt => leases[j][n] = NoLease
      BY <1>7 DEF JobRowsConsistent, Attempts
    <3>4. n > jobs[j].attempt => n \notin Expired(j, t)
      BY <1>2, <3>3 DEF NoLease
    <3> QED
      BY <1>2, <1>6, <2>2, <3>2, <3>3, <3>4
  <2> QED
    BY <2>1, <2>2
<1>v. VerdictFromLastLease'
  <2> SUFFICES ASSUME NEW j \in Jobs, NEW n \in Attempts, jobs'[j].status \in Outcomes,
                      n = jobs'[j].attempt, leases'[j][n].state # "none"
               PROVE  jobs'[j].status = "succeeded" <=> leases'[j][n].state = "succeeded"
    BY DEF VerdictFromLastLease
  <2>1. CASE j \notin ExpiredJobs(t)
    BY <1>5, <1>8, <2>1 DEF VerdictFromLastLease
  <2>2. CASE j \in ExpiredJobs(t)
    BY <1>2, <1>4, <1>6, <2>2 DEF Outcomes
  <2> QED
    BY <2>1, <2>2
<1>j. JobRowsConsistent'
  <2>1. \A j \in ExpiredJobs(t), n \in Attempts :
          leases'[j][n] # NoLease => leases'[j][n].state # "none" /\ n <= jobs[j].attempt
    <3> SUFFICES ASSUME NEW j \in ExpiredJobs(t), NEW n \in Attempts, leases'[j][n] # NoLease
                 PROVE  leases'[j][n].state # "none" /\ n <= jobs[j].attempt
      OBVIOUS
    <3>1. leases[j][n] # NoLease
      BY <1>2, <1>4 DEF NoLease
    <3> QED
      BY <1>2, <1>4, <3>1 DEF JobRowsConsistent
  <2> QED
    BY <1>4, <1>5, <1>6, <1>8, <2>1 DEF JobRowsConsistent
<1>w. WorkerHoldsNoLease'
  <2>1. \A j \in Jobs : jobs'[j].owner \in Workers => j \notin ExpiredJobs(t)
    BY <1>6
  <2> QED
    BY <1>5, <1>8, <2>1 DEF WorkerHoldsNoLease
<1> QED
  BY <1>t, <1>b, <1>r, <1>c, <1>v, <1>j, <1>w

\* A build worker takes a queued job, whose next attempt has no lease row.
LEMMA WorkerLeaseInv ==
  ASSUME QueueInv, NEW w \in Workers, NEW j \in Jobs, NEW t \in Nat, WorkerLease(w, j, t)
  PROVE  QueueInv'
<1> USE DEF QueueInv
<1>1. /\ jobs[j].status = "queued" /\ jobs[j].attempt < MaxAttempts[j]
      /\ leases' = leases /\ reports' = reports /\ now' = now
  BY DEF WorkerLease, Claimable
<1>2. w \in Owners /\ w # Nobody /\ w \notin Agents
  BY DEF Owners
<1>3. \A k \in Jobs : k # j => jobs'[k] = jobs[k]
  BY DEF WorkerLease, QueueTypeOK
<1>4. /\ jobs'[j] \in Job
      /\ jobs[j].attempt + 1 \in Attempts
      /\ jobs'[j].status = "running"
      /\ jobs'[j].owner = w
      /\ jobs'[j].attempt = jobs[j].attempt + 1
  <2>1. jobs'[j] = Leased(j, w, t + WorkerLeaseTime)
    BY DEF WorkerLease, QueueTypeOK
  <2>2. t + WorkerLeaseTime \in Nat
    OBVIOUS
  <2> QED
    BY <1>1, <1>2, <2>1, <2>2, LeasedType
<1>5. \A k \in Jobs : jobs[k].attempt \in Nat
  BY DEF QueueTypeOK, Job
<1>6. \A n \in Attempts : /\ leases[j][n].state # "open"
                          /\ n > jobs[j].attempt => leases[j][n] = NoLease
  BY <1>1 DEF ClaimNeverBlocked
<1>t. QueueTypeOK'
  <2>1. jobs' \in [Jobs -> Job]
    <3>1. \A k \in Jobs : jobs'[k] \in Job
      BY <1>3, <1>4 DEF QueueTypeOK
    <3> QED
      BY <3>1 DEF WorkerLease, QueueTypeOK
  <2> QED
    BY <1>1, <2>1 DEF QueueTypeOK
<1>b. LeaseBacksJob'
  BY <1>1, <1>3, <1>6 DEF LeaseBacksJob
<1>r. ReportStillOwnsJob'
  <2>1. \A r \in reports : r.job \in Jobs /\ r.job # j
    BY <1>1 DEF ReportStillOwnsJob, QueueTypeOK, Report
  <2> QED
    BY <1>1, <1>3, <2>1 DEF ReportStillOwnsJob
<1>c. ClaimNeverBlocked'
  BY <1>1, <1>3, <1>4 DEF ClaimNeverBlocked
<1>v. VerdictFromLastLease'
  BY <1>1, <1>3, <1>4 DEF VerdictFromLastLease, Outcomes
<1>j. JobRowsConsistent'
  <2>1. jobs'[j].attempt <= MaxAttempts[j]
    BY <1>1, <1>4, <1>5 DEF Attempts
  <2>2. \A n \in Attempts : leases[j][n] # NoLease
                              => leases[j][n].state # "none" /\ n <= jobs'[j].attempt
    BY <1>4, <1>5 DEF JobRowsConsistent, Attempts
  <2> QED
    BY <1>1, <1>2, <1>3, <1>4, <2>1, <2>2 DEF JobRowsConsistent
<1>w. WorkerHoldsNoLease'
  <2>1. \A n \in Attempts : n = jobs'[j].attempt => leases[j][n] = NoLease
    BY <1>4, <1>5, <1>6
  <2> QED
    BY <1>1, <1>3, <2>1 DEF WorkerHoldsNoLease
<1> QED
  BY <1>t, <1>b, <1>r, <1>c, <1>v, <1>j, <1>w

\* A build worker ends the job it holds, which no lease and no result is about.
LEMMA WorkerCloseInv ==
  ASSUME QueueInv, NEW w \in Workers, NEW j \in Jobs, NEW outcome \in Outcomes,
         WorkerClose(w, j, outcome)
  PROVE  QueueInv'
<1> USE DEF QueueInv
<1>1. /\ jobs[j].status = "running" /\ jobs[j].owner = w
      /\ leases' = leases /\ reports' = reports /\ now' = now
  BY DEF WorkerClose
<1>2. w # Nobody /\ w \notin Agents
  OBVIOUS
<1>3. \A k \in Jobs : k # j => jobs'[k] = jobs[k]
  BY DEF WorkerClose, QueueTypeOK
<1>4. /\ jobs'[j] \in Job
      /\ jobs'[j].status = outcome
      /\ jobs'[j].owner = Nobody
      /\ jobs'[j].attempt = jobs[j].attempt
  <2>1. jobs'[j] = Unleased(j, outcome)
    BY DEF WorkerClose, QueueTypeOK
  <2>2. outcome \in JobStatus
    BY DEF Outcomes, JobStatus
  <2> QED
    BY <2>1, <2>2, UnleasedType
<1>5. outcome \notin {"running", "queued", "absent"}
  BY DEF Outcomes
<1>6. \A n \in Attempts : leases[j][n].state # "open"
  <2> SUFFICES ASSUME NEW n \in Attempts, leases[j][n].state = "open" PROVE FALSE
    OBVIOUS
  <2>1. leases[j][n].agent = w
    BY <1>1 DEF LeaseBacksJob
  <2>2. leases[j][n].agent \in Agents \cup {Nobody}
    BY DEF QueueTypeOK, Lease
  <2> QED
    BY <1>2, <2>1, <2>2
<1>t. QueueTypeOK'
  <2>1. jobs' \in [Jobs -> Job]
    <3>1. \A k \in Jobs : jobs'[k] \in Job
      BY <1>3, <1>4 DEF QueueTypeOK
    <3> QED
      BY <3>1 DEF WorkerClose, QueueTypeOK
  <2> QED
    BY <1>1, <2>1 DEF QueueTypeOK
<1>b. LeaseBacksJob'
  BY <1>1, <1>3, <1>6 DEF LeaseBacksJob
<1>r. ReportStillOwnsJob'
  <2>1. \A r \in reports : r.job \in Jobs /\ r.job # j
    BY <1>1, <1>2 DEF ReportStillOwnsJob, QueueTypeOK, Report
  <2> QED
    BY <1>1, <1>3, <2>1 DEF ReportStillOwnsJob
<1>c. ClaimNeverBlocked'
  BY <1>1, <1>3, <1>4, <1>5 DEF ClaimNeverBlocked
<1>v. VerdictFromLastLease'
  <2>1. \A n \in Attempts : n = jobs[j].attempt => leases[j][n].state = "none"
    BY <1>1 DEF WorkerHoldsNoLease, NoLease
  <2> QED
    BY <1>1, <1>3, <1>4, <2>1 DEF VerdictFromLastLease
<1>j. JobRowsConsistent'
  BY <1>1, <1>3, <1>4, <1>5 DEF JobRowsConsistent
<1>w. WorkerHoldsNoLease'
  BY <1>1, <1>3, <1>4 DEF WorkerHoldsNoLease
<1> QED
  BY <1>t, <1>b, <1>r, <1>c, <1>v, <1>j, <1>w

\* The passing of time, the loss of the API's memory and stuttering change no row.
LEMMA RowsUnchangedInv ==
  ASSUME QueueInv, jobs' = jobs, leases' = leases, now' \in Nat, reports' \subseteq reports
  PROVE  QueueInv'
<1> USE DEF QueueInv
<1>1. QueueTypeOK'
  BY DEF QueueTypeOK
<1>2. ReportStillOwnsJob'
  BY DEF ReportStillOwnsJob
<1>3. LeaseBacksJob' /\ ClaimNeverBlocked' /\ VerdictFromLastLease'
  BY DEF LeaseBacksJob, ClaimNeverBlocked, VerdictFromLastLease
<1>4. JobRowsConsistent' /\ WorkerHoldsNoLease'
  BY DEF JobRowsConsistent, WorkerHoldsNoLease
<1> QED
  BY <1>1, <1>2, <1>3, <1>4

\* Every step of the queue preserves the invariant.
LEMMA QueueNextInv == QueueInv /\ [QueueNext]_queueVars => QueueInv'
<1> SUFFICES ASSUME QueueInv, [QueueNext]_queueVars PROVE QueueInv'
  OBVIOUS
<1>n. now \in Nat /\ \A t \in 0 .. now : t \in Nat
  BY DEF QueueInv, QueueTypeOK
<1>1. ASSUME NEW j \in Jobs, NEW t \in 0 .. now, Enqueue(j, t) PROVE QueueInv'
  BY <1>n, <1>1, EnqueueInv
<1>2. ASSUME NEW a \in Agents, NEW chosen \in SUBSET Jobs, NEW t \in 0 .. now,
             ClaimWork(a, chosen, t)
      PROVE  QueueInv'
  BY <1>n, <1>2, ClaimWorkInv
<1>3. ASSUME NEW a \in Agents, NEW j \in Jobs, NEW n \in Attempts, NEW outcome \in Outcomes,
             NEW t \in 0 .. now, SettleLease(a, j, n, outcome, t)
      PROVE  QueueInv'
  BY <1>n, <1>3, SettleLeaseInv
<1>4. ASSUME NEW r \in reports, CloseJob(r) PROVE QueueInv'
  BY <1>4, CloseJobInv
<1>5. ASSUME NEW t \in 0 .. now, ReclaimExpiredLeases(t) PROVE QueueInv'
  BY <1>n, <1>5, ReclaimInv
<1>6. ASSUME NEW w \in Workers, NEW j \in Jobs, NEW t \in 0 .. now, WorkerLease(w, j, t)
      PROVE  QueueInv'
  BY <1>n, <1>6, WorkerLeaseInv
<1>7. ASSUME NEW w \in Workers, NEW j \in Jobs, NEW outcome \in Outcomes,
             WorkerClose(w, j, outcome)
      PROVE  QueueInv'
  BY <1>7, WorkerCloseInv
<1>8. ASSUME Tick PROVE QueueInv'
  BY <1>n, <1>8, RowsUnchangedInv DEF Tick
<1>9. ASSUME CrashApi PROVE QueueInv'
  BY <1>n, <1>9, RowsUnchangedInv DEF CrashApi
<1>10. ASSUME UNCHANGED queueVars PROVE QueueInv'
  BY <1>n, <1>10, RowsUnchangedInv DEF queueVars
<1> QED
  BY <1>1, <1>2, <1>3, <1>4, <1>5, <1>6, <1>7, <1>8, <1>9, <1>10 DEF QueueNext

-----------------------------------------------------------------------------

\* Every reachable state of the queue satisfies the invariant.
THEOREM QueueInvariant == QueueSpec => []QueueInv
<1>1. QueueInit => QueueInv
  BY QueueInitInv
<1>2. QueueInv /\ [QueueNext]_queueVars => QueueInv'
  BY QueueNextInv
<1> QED
  BY <1>1, <1>2, PTL DEF QueueSpec

\* Rows and results in progress keep their types.
THEOREM QueueTypeCorrect == QueueSpec => []QueueTypeOK
<1>1. QueueInv => QueueTypeOK
  BY DEF QueueInv
<1> QED
  BY <1>1, QueueInvariant, PTL

\* An open lease is always the authority over its job.
THEOREM LeaseAuthority == QueueSpec => []LeaseBacksJob
<1>1. QueueInv => LeaseBacksJob
  BY DEF QueueInv
<1> QED
  BY <1>1, QueueInvariant, PTL

\* Nothing takes a job away between settleLease and complete or fail.
THEOREM ReportAuthority == QueueSpec => []ReportStillOwnsJob
<1>1. QueueInv => ReportStillOwnsJob
  BY DEF QueueInv
<1> QED
  BY <1>1, QueueInvariant, PTL

\* No claim trips the unique index on open leases.
THEOREM ClaimsNeverBlocked == QueueSpec => []ClaimNeverBlocked
<1>1. QueueInv => ClaimNeverBlocked
  BY DEF QueueInv
<1> QED
  BY <1>1, QueueInvariant, PTL

\* A finished job carries the verdict of its last lease.
THEOREM VerdictsFromLastLease == QueueSpec => []VerdictFromLastLease
<1>1. QueueInv => VerdictFromLastLease
  BY DEF QueueInv
<1> QED
  BY <1>1, QueueInvariant, PTL

\* No transaction of the queue touches a finished job again.
THEOREM FinishedJobsAreFinal == QueueSpec => FinishedIsFinal
<1>1. QueueInv /\ [QueueNext]_queueVars =>
        [\A j \in Jobs : jobs[j].status \in Outcomes => jobs'[j] = jobs[j]]_queueVars
  <2> SUFFICES ASSUME QueueInv, QueueNext, NEW k \in Jobs, jobs[k].status \in Outcomes
               PROVE  jobs'[k] = jobs[k]
    BY DEF queueVars
  <2>0. jobs[k].status \notin {"absent", "queued", "running"}
    BY DEF Outcomes
  <2>1. ASSUME NEW j \in Jobs, NEW t \in 0 .. now, Enqueue(j, t) PROVE jobs'[k] = jobs[k]
    BY <2>0, <2>1 DEF Enqueue
  <2>2. ASSUME NEW a \in Agents, NEW chosen \in SUBSET Jobs, NEW t \in 0 .. now,
               ClaimWork(a, chosen, t)
        PROVE  jobs'[k] = jobs[k]
    BY <2>0, <2>2 DEF ClaimWork, Claimable
  <2>3. ASSUME NEW a \in Agents, NEW j \in Jobs, NEW n \in Attempts, NEW outcome \in Outcomes,
               NEW t \in 0 .. now, SettleLease(a, j, n, outcome, t)
        PROVE  jobs'[k] = jobs[k]
    BY <2>3 DEF SettleLease
  <2>4. ASSUME NEW r \in reports, CloseJob(r) PROVE jobs'[k] = jobs[k]
    BY <2>0, <2>4 DEF CloseJob
  <2>5. ASSUME NEW t \in 0 .. now, ReclaimExpiredLeases(t) PROVE jobs'[k] = jobs[k]
    BY <2>0, <2>5 DEF ReclaimExpiredLeases
  <2>6. ASSUME NEW w \in Workers, NEW j \in Jobs, NEW t \in 0 .. now, WorkerLease(w, j, t)
        PROVE  jobs'[k] = jobs[k]
    BY <2>0, <2>6 DEF WorkerLease, Claimable
  <2>7. ASSUME NEW w \in Workers, NEW j \in Jobs, NEW outcome \in Outcomes,
               WorkerClose(w, j, outcome)
        PROVE  jobs'[k] = jobs[k]
    BY <2>0, <2>7 DEF WorkerClose
  <2>8. ASSUME Tick \/ CrashApi PROVE jobs'[k] = jobs[k]
    BY <2>8 DEF Tick, CrashApi
  <2> QED
    BY <2>1, <2>2, <2>3, <2>4, <2>5, <2>6, <2>7, <2>8 DEF QueueNext
<1> QED
  BY <1>1, QueueInvariant, PTL DEF QueueSpec, FinishedIsFinal

-----------------------------------------------------------------------------
(* Without a crash between settleLease and complete or fail, no job an agent  *)
(* leased is left behind.                                                     *)

\* Every step of a live API keeps an owner of each leased job: the open lease,
\* or the result that is about to be written.
LEMMA NeverStrandedStep ==
  ASSUME ~ApiMayCrash, QueueInv, QueueInv', NeverStranded, [QueueNext]_queueVars
  PROVE  NeverStranded'
<1> SUFFICES ASSUME NEW k \in Jobs, jobs'[k].status = "running", jobs'[k].owner \in Agents
             PROVE  HasOpenLease(k)' \/ \E r \in reports' : r.job = k
  BY DEF NeverStranded
<1> DEFINE Held == HasOpenLease(k)' \/ \E r \in reports' : r.job = k
<1>t. QueueTypeOK /\ QueueTypeOK'
  BY DEF QueueInv
<1>h. jobs'[k] = jobs[k] => HasOpenLease(k) \/ \E r \in reports : r.job = k
  BY DEF NeverStranded
<1>k. ASSUME jobs'[k] = jobs[k], leases'[k] = leases[k], reports \subseteq reports' PROVE Held
  BY <1>h, <1>k DEF HasOpenLease
<1>1. ASSUME NEW j \in Jobs, NEW t \in 0 .. now, Enqueue(j, t) PROVE Held
  <2>1. j # k
    BY <1>1, <1>t DEF Enqueue, QueueTypeOK, NoJob
  <2> QED
    BY <1>1, <1>t, <2>1, <1>k DEF Enqueue, QueueTypeOK
<1>2. ASSUME NEW a \in Agents, NEW chosen \in SUBSET Jobs, NEW t \in 0 .. now,
             ClaimWork(a, chosen, t)
      PROVE  Held
  <2>1. CASE k \in chosen
    <3>a. jobs[k].attempt < MaxAttempts[k]
      BY <1>2, <2>1 DEF ClaimWork, Claimable
    <3>b. a \in Owners /\ 0 \in Nat
      BY DEF Owners
    <3>1. jobs[k].attempt + 1 \in Attempts
      BY <1>t, <3>a, <3>b, LeasedType
    <3>2. leases'[k][jobs[k].attempt + 1].state = "open"
      BY <1>2, <1>t, <2>1, <3>1 DEF ClaimWork, QueueTypeOK
    <3> QED
      BY <3>1, <3>2 DEF HasOpenLease
  <2>2. CASE k \notin chosen
    BY <1>2, <2>2, <1>k DEF ClaimWork
  <2> QED
    BY <2>1, <2>2
<1>3. ASSUME NEW a \in Agents, NEW j \in Jobs, NEW n \in Attempts, NEW outcome \in Outcomes,
             NEW t \in 0 .. now, SettleLease(a, j, n, outcome, t)
      PROVE  Held
  <2>1. CASE j = k
    <3> DEFINE mine == [job |-> j, attempt |-> n, agent |-> a, outcome |-> outcome]
    <3>1. mine \in reports'
      BY <1>3 DEF SettleLease
    <3>2. mine.job = k
      BY <2>1
    <3> QED
      BY <3>1, <3>2
  <2>2. CASE j # k
    BY <1>3, <1>t, <2>2, <1>k DEF SettleLease, QueueTypeOK
  <2> QED
    BY <2>1, <2>2
<1>4. ASSUME NEW r \in reports, CloseJob(r) PROVE Held
  <2>0. r.job \in Jobs
    BY <1>t DEF QueueTypeOK, Report
  <2>1. jobs[r.job].status = "running" /\ jobs[r.job].owner = r.agent
    BY DEF QueueInv, ReportStillOwnsJob
  <2>2. jobs' = [jobs EXCEPT ![r.job] = Unleased(r.job, r.outcome)]
    BY <1>4, <2>1 DEF CloseJob
  <2>3. r.job # k
    <3> SUFFICES ASSUME r.job = k PROVE FALSE
      OBVIOUS
    <3>1. r.outcome \in Outcomes
      BY <1>t DEF QueueTypeOK, Report
    <3>2. jobs'[k].status = r.outcome
      BY <1>t, <2>0, <2>2, <3>1 DEF QueueTypeOK, Job, Unleased
    <3> QED
      BY <3>1, <3>2 DEF Outcomes
  <2>4. jobs'[k] = jobs[k] /\ leases' = leases /\ reports' = reports \ {r}
    BY <1>4, <1>t, <2>2, <2>3 DEF CloseJob, QueueTypeOK
  <2> QED
    BY <1>h, <2>3, <2>4 DEF HasOpenLease
<1>5. ASSUME NEW t \in 0 .. now, ReclaimExpiredLeases(t) PROVE Held
  <2>1. CASE k \in ExpiredJobs(t)
    <3>1. \E n \in Attempts : leases[k][n].state = "open"
      BY <2>1 DEF ExpiredJobs, Expired
    <3>2. jobs[k].status = "running"
      BY <3>1 DEF QueueInv, LeaseBacksJob
    <3>3. /\ Unleased(k, "failed").status = "failed"
          /\ [Unleased(k, "queued") EXCEPT !.available = t].status = "queued"
      BY <1>t DEF QueueTypeOK, Job, Unleased
    <3> QED
      BY <1>5, <2>1, <3>2, <3>3 DEF ReclaimExpiredLeases
  <2>2. CASE k \notin ExpiredJobs(t)
    <3>1. Expired(k, t) = {}
      BY <2>2 DEF ExpiredJobs
    <3>2. leases'[k] = leases[k]
      BY <1>5, <1>t, <3>1 DEF ReclaimExpiredLeases, LeasesExpired, QueueTypeOK
    <3>3. jobs'[k] = jobs[k] /\ reports' = reports
      BY <1>5, <2>2 DEF ReclaimExpiredLeases
    <3> QED
      BY <1>k, <3>2, <3>3
  <2> QED
    BY <2>1, <2>2
<1>6. ASSUME NEW w \in Workers, NEW j \in Jobs, NEW t \in 0 .. now, WorkerLease(w, j, t)
      PROVE  Held
  <2>1. j # k
    <3> SUFFICES ASSUME j = k PROVE FALSE
      OBVIOUS
    <3>1. jobs'[k].owner = w
      BY <1>6, <1>t DEF WorkerLease, QueueTypeOK, Job, Leased
    <3> QED
      BY <3>1
  <2> QED
    BY <1>6, <1>t, <2>1, <1>k DEF WorkerLease, QueueTypeOK
<1>7. ASSUME NEW w \in Workers, NEW j \in Jobs, NEW outcome \in Outcomes,
             WorkerClose(w, j, outcome)
      PROVE  Held
  <2>1. j # k
    <3> SUFFICES ASSUME j = k PROVE FALSE
      OBVIOUS
    <3>1. jobs'[k].status = outcome
      BY <1>7, <1>t DEF WorkerClose, QueueTypeOK, Job, Unleased
    <3> QED
      BY <3>1 DEF Outcomes
  <2> QED
    BY <1>7, <1>t, <2>1, <1>k DEF WorkerClose, QueueTypeOK
<1>8. ASSUME Tick PROVE Held
  BY <1>8, <1>k DEF Tick
<1>9. ~CrashApi
  BY DEF CrashApi
<1>10. ASSUME UNCHANGED queueVars PROVE Held
  BY <1>10, <1>k DEF queueVars
<1> QED
  BY <1>1, <1>2, <1>3, <1>4, <1>5, <1>6, <1>7, <1>8, <1>9, <1>10 DEF QueueNext

\* While the control API does not die between the two transactions of a result,
\* a job that an agent leased always has an open lease or a result under way.
THEOREM JobsNeverStranded ==
  ASSUME ~ApiMayCrash
  PROVE  QueueSpec => []NeverStranded
<1>1. QueueInit => NeverStranded
  BY DEF QueueInit, NeverStranded, NoJob
<1>2. QueueInv /\ QueueInv' /\ NeverStranded /\ [QueueNext]_queueVars => NeverStranded'
  BY NeverStrandedStep
<1> QED
  BY <1>1, <1>2, QueueInvariant, PTL DEF QueueSpec

=============================================================================
