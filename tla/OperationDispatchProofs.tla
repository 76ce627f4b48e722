----------------------- MODULE OperationDispatchProofs -----------------------
(***************************************************************************)
(* The handlers of the control API over the work queue: the queue they run *)
(* on is the queue WorkQueue specifies, every verdict has one handler, and *)
(* the whole implements the operation ledger; for any jobs, operations,    *)
(* agents and attempts, and with a control API that may die at any step.   *)
(***************************************************************************)
EXTENDS OperationDispatch, WorkQueueProofs

USE OperationsAssumption

-----------------------------------------------------------------------------
(* The inductive invariant. *)

\* A lease an agent settled is the last one of a job that is not queued again.
SettledIsLast ==
  \A j \in Jobs, n \in Attempts :
    leases[j][n].state \in Outcomes =>
      n = jobs[j].attempt /\ jobs[j].status \notin {"absent", "queued"}

\* A job exists only under an accepted operation; a linked operation runs or
\* is decided, and a decided one has the verdict of its finished job.
OperationHolds(o) ==
  /\ jobs[o].status # "absent" => ops[o].status # "none"
  /\ requests[o] # "idle" => ops[o].status # "none"
  /\ ops[o].linked => ops[o].status \notin {"none", "accepted"}
  /\ ops[o].status \in Outcomes => ops[o].linked /\ jobs[o].status = ops[o].status

\* A handler that is about to settle operation o with the version it read.
MaySettle(o, version) == o \in Operations /\ ops[o].linked /\ Settleable(o, version)

\* A result handler whose job is closed speaks for the last lease of that job.
ReceiptHolds(c) ==
  /\ jobs[c.job].status = c.outcome
  /\ jobs[c.job].attempt = c.attempt
  /\ leases[c.job][c.attempt].state = c.outcome
  /\ c.pc = "settle" => MaySettle(c.job, c.version)

\* A claim handler speaks for jobs it failed because their last lease expired.
PollHolds(a) ==
  /\ polls[a].clock <= now
  /\ polls[a].pc # "settling" => polls[a].todo = {}
  /\ \A j \in polls[a].todo : /\ jobs[j].status = "failed"
                              /\ jobs[j].attempt \in Attempts
                              /\ leases[j][jobs[j].attempt].state = "expired"
  /\ polls[a].found # NoOperation =>
       polls[a].found \in polls[a].todo /\ MaySettle(polls[a].found, polls[a].version)

DispatchInv ==
  /\ QueueInv
  /\ DispatchTypeOK
  /\ SettledIsLast
  /\ \A o \in Operations : OperationHolds(o)
  /\ \A c \in receipts : ReceiptHolds(c)
  /\ \A a \in Agents : PollHolds(a)
  /\ OneHandlerPerVerdict

-----------------------------------------------------------------------------
(* What the transactions of the queue leave alone. *)

\* A finished job and its leases are never written again.
FinishedStays ==
  \A j \in Jobs : jobs[j].status \in Outcomes => jobs'[j] = jobs[j] /\ leases'[j] = leases[j]

\* No job comes into being.
NoneArises == \A j \in Jobs : jobs[j].status = "absent" => jobs'[j].status = "absent"

\* No lease becomes a success, and none ceases to be one.
SuccessKept ==
  \A j \in Jobs, n \in Attempts :
    leases'[j][n].state = "succeeded" <=> leases[j][n].state = "succeeded"

\* What a transaction of the queue preserves of its own rows.
RowsKept == SettledIsLast' /\ FinishedStays

\* The unfinished states of a job.
LEMMA Unfinished ==
  "absent" \notin Outcomes /\ "queued" \notin Outcomes /\ "running" \notin Outcomes
    /\ "open" \notin Outcomes /\ "expired" \notin Outcomes /\ "none" \notin Outcomes
BY DEF Outcomes

\* Enqueueing writes a row that had no lease.
LEMMA EnqueueRows ==
  ASSUME QueueInv, SettledIsLast, NEW j \in Jobs, NEW t \in Nat, Enqueue(j, t)
  PROVE  RowsKept
<1>1. /\ jobs[j].status = "absent"
      /\ \A k \in Jobs : k # j => jobs'[k] = jobs[k]
      /\ leases' = leases
  BY DEF Enqueue, QueueInv, QueueTypeOK
<1>2. FinishedStays
  BY <1>1, Unfinished DEF FinishedStays
<1>3. \A n \in Attempts : leases[j][n].state \notin Outcomes
  BY <1>1 DEF SettledIsLast
<1> QED
  BY <1>1, <1>2, <1>3 DEF RowsKept, SettledIsLast

\* A claim takes queued jobs, which have no settled lease, and opens one.
LEMMA ClaimRows ==
  ASSUME QueueInv, SettledIsLast, NEW a \in Agents, NEW chosen \in SUBSET Jobs, NEW t \in Nat,
         ClaimWork(a, chosen, t)
  PROVE  RowsKept /\ NoneArises /\ SuccessKept
<1>1. \A j \in Jobs :
        /\ j \in chosen => /\ jobs[j].status = "queued"
                           /\ jobs'[j] = Leased(j, a, LeaseExpiryFor(t, j))
                           /\ leases'[j] = [leases[j] EXCEPT ![jobs[j].attempt + 1] =
                                [state |-> "open", agent |-> a, expires |-> LeaseExpiryFor(t, j)]]
        /\ j \notin chosen => jobs'[j] = jobs[j] /\ leases'[j] = leases[j]
  BY DEF ClaimWork, Claimable
<1>2. FinishedStays /\ NoneArises
  BY <1>1, Unfinished DEF FinishedStays, NoneArises
<1>3. ASSUME NEW j \in chosen, NEW n \in Attempts
      PROVE  leases'[j][n].state \notin Outcomes /\ leases[j][n].state \notin Outcomes
  <2>1. leases[j][n].state \notin Outcomes
    BY <1>1 DEF SettledIsLast
  <2>2. leases[j] \in [Attempts -> Lease]
    BY DEF QueueInv, QueueTypeOK
  <2>3. leases'[j] = [leases[j] EXCEPT ![jobs[j].attempt + 1] =
                        [state |-> "open", agent |-> a, expires |-> LeaseExpiryFor(t, j)]]
    BY <1>1
  <2>4. leases'[j][n] = leases[j][n] \/
        leases'[j][n] = [state |-> "open", agent |-> a, expires |-> LeaseExpiryFor(t, j)]
    BY <2>2, <2>3
  <2> QED
    BY <2>1, <2>4, Unfinished
<1>4. \A j \in Jobs : j \notin chosen => jobs'[j] = jobs[j] /\ leases'[j] = leases[j]
  BY <1>1
<1>5. SettledIsLast'
  <2> SUFFICES ASSUME NEW j \in Jobs, NEW n \in Attempts, leases'[j][n].state \in Outcomes
               PROVE  n = jobs'[j].attempt /\ jobs'[j].status \notin {"absent", "queued"}
    BY DEF SettledIsLast
  <2>1. j \notin chosen
    BY <1>3
  <2> QED
    BY <1>4, <2>1 DEF SettledIsLast
<1>6. SuccessKept
  <2> SUFFICES ASSUME NEW j \in Jobs, NEW n \in Attempts
               PROVE  leases'[j][n].state = "succeeded" <=> leases[j][n].state = "succeeded"
    BY DEF SuccessKept
  <2>1. "succeeded" \in Outcomes
    BY DEF Outcomes
  <2> QED
    BY <1>3, <1>4, <2>1
<1> QED
  BY <1>2, <1>5, <1>6 DEF RowsKept

\* A result settles an open lease, which is the last one of a running job.
LEMMA SettleRows ==
  ASSUME QueueInv, SettledIsLast, NEW a \in Agents, NEW j \in Jobs, NEW n \in Attempts,
         NEW outcome \in Outcomes, NEW t \in Nat, SettleLease(a, j, n, outcome, t)
  PROVE  /\ RowsKept /\ NoneArises
         /\ jobs[j].status = "running" /\ jobs[j].attempt = n
         /\ \A k \in Jobs, m \in Attempts :
              leases'[k][m].state = IF k = j /\ m = n THEN outcome ELSE leases[k][m].state
<1>1. /\ leases[j][n].state = "open"
      /\ jobs' = jobs
      /\ leases' = [leases EXCEPT ![j][n].state = outcome]
  BY DEF SettleLease
<1>2. jobs[j].status = "running" /\ jobs[j].attempt = n
  BY <1>1 DEF QueueInv, LeaseBacksJob
<1>3. leases \in [Jobs -> [Attempts -> Lease]]
  BY DEF QueueInv, QueueTypeOK
<1>4. \A k \in Jobs, m \in Attempts :
        leases'[k][m].state = IF k = j /\ m = n THEN outcome ELSE leases[k][m].state
  BY <1>1, <1>3 DEF Lease
<1>5. \A k \in Jobs : k # j => leases'[k] = leases[k]
  BY <1>1, <1>3
<1>6. FinishedStays /\ NoneArises
  BY <1>1, <1>2, <1>5, Unfinished DEF FinishedStays, NoneArises
<1>7. SettledIsLast'
  BY <1>1, <1>2, <1>4 DEF SettledIsLast
<1> QED
  BY <1>2, <1>4, <1>6, <1>7 DEF RowsKept

\* A result closes the running job whose lease it settled.
LEMMA CloseRows ==
  ASSUME QueueInv, SettledIsLast, NEW r \in reports, CloseJob(r)
  PROVE  /\ RowsKept /\ NoneArises
         /\ jobs'[r.job].status = r.outcome /\ jobs'[r.job].attempt = r.attempt
         /\ leases'[r.job][r.attempt].state = r.outcome
         /\ jobs[r.job].status = "running"
         /\ \A k \in Jobs : k # r.job => jobs'[k] = jobs[k]
         /\ leases' = leases /\ reports' = reports \ {r}
<1>0. r \in Report
  BY DEF QueueInv, QueueTypeOK
<1>1. r.job \in Jobs /\ r.attempt \in Attempts /\ r.outcome \in Outcomes
  BY <1>0 DEF Report
<1>2. /\ jobs[r.job].status = "running"
      /\ jobs[r.job].owner = r.agent
      /\ jobs[r.job].attempt = r.attempt
      /\ leases[r.job][r.attempt].state = r.outcome
  BY DEF QueueInv, ReportStillOwnsJob
<1>3. /\ jobs' = [jobs EXCEPT ![r.job] = Unleased(r.job, r.outcome)]
      /\ leases' = leases /\ reports' = reports \ {r}
  BY <1>2 DEF CloseJob
<1>4. r.outcome \in JobStatus
  BY <1>1 DEF Outcomes, JobStatus
<1>5. /\ Unleased(r.job, r.outcome).status = r.outcome
      /\ Unleased(r.job, r.outcome).attempt = r.attempt
  BY <1>1, <1>2, <1>4, UnleasedType DEF QueueInv
<1>6. /\ jobs'[r.job] = Unleased(r.job, r.outcome)
      /\ \A k \in Jobs : k # r.job => jobs'[k] = jobs[k]
  BY <1>1, <1>3 DEF QueueInv, QueueTypeOK
<1>7. FinishedStays /\ NoneArises
  BY <1>2, <1>3, <1>6, Unfinished DEF FinishedStays, NoneArises
<1>8. SettledIsLast'
  <2> SUFFICES ASSUME NEW j \in Jobs, NEW n \in Attempts, leases[j][n].state \in Outcomes
               PROVE  n = jobs'[j].attempt /\ jobs'[j].status \notin {"absent", "queued"}
    BY <1>3 DEF SettledIsLast
  <2>1. n = jobs[j].attempt /\ jobs[j].status \notin {"absent", "queued"}
    BY DEF SettledIsLast
  <2> QED
    BY <1>1, <1>2, <1>5, <1>6, <2>1, Unfinished
<1> QED
  BY <1>2, <1>3, <1>5, <1>6, <1>7, <1>8 DEF RowsKept

\* The reclaim touches jobs with an open lease only; those without an attempt
\* left are failed, with that lease expired.
LEMMA ReclaimRows ==
  ASSUME QueueInv, SettledIsLast, NEW t \in Nat, ReclaimExpiredLeases(t)
  PROVE  /\ RowsKept /\ NoneArises /\ SuccessKept /\ reports' = reports
         /\ \A j \in Exhausted(t) : /\ jobs'[j].status = "failed"
                                    /\ jobs'[j].attempt \in Attempts
                                    /\ leases'[j][jobs'[j].attempt].state = "expired"
<1>1. /\ reports' = reports
      /\ leases' = LeasesExpired(t)
      /\ \A j \in Jobs :
           jobs'[j] = IF jobs[j].status = "running" /\ j \in ExpiredJobs(t)
                      THEN IF j \in Exhausted(t)
                           THEN Unleased(j, "failed")
                           ELSE [Unleased(j, "queued") EXCEPT !.available = t]
                      ELSE jobs[j]
  BY DEF ReclaimExpiredLeases
<1>2. \A j \in Jobs, n \in Attempts :
        n \in Expired(j, t) => leases[j][n].state = "open" /\ jobs[j].status = "running"
                                 /\ jobs[j].attempt = n
  BY DEF Expired, QueueInv, LeaseBacksJob
<1>3. \A j \in Jobs : j \in ExpiredJobs(t) =>
         jobs[j].status = "running" /\ jobs[j].attempt \in Expired(j, t)
  BY <1>2 DEF ExpiredJobs, Expired
<1>4. \A j \in Jobs : j \notin ExpiredJobs(t) => jobs'[j] = jobs[j]
  BY <1>1
<1>5. \A j \in Jobs, n \in Attempts :
        leases'[j][n] = IF n \in Expired(j, t) THEN [leases[j][n] EXCEPT !.state = "expired"]
                                               ELSE leases[j][n]
  BY <1>1 DEF LeasesExpired
<1>6. leases \in [Jobs -> [Attempts -> Lease]]
  BY DEF QueueInv, QueueTypeOK
<1>7. \A j \in Jobs, n \in Attempts :
        leases'[j][n].state = IF n \in Expired(j, t) THEN "expired" ELSE leases[j][n].state
  <2> TAKE j \in Jobs, n \in Attempts
  <2>1. leases[j][n] \in Lease
    BY <1>6
  <2>2. [leases[j][n] EXCEPT !.state = "expired"].state = "expired"
    BY <2>1 DEF Lease
  <2> QED
    BY <1>5, <2>2
<1>8. \A j \in Jobs : j \notin ExpiredJobs(t) => leases'[j] = leases[j]
  <2> SUFFICES ASSUME NEW j \in Jobs, j \notin ExpiredJobs(t) PROVE leases'[j] = leases[j]
    OBVIOUS
  <2>1. \A n \in Attempts : n \notin Expired(j, t)
    BY DEF ExpiredJobs
  <2>2. leases'[j] = [n \in Attempts |-> leases[j][n]]
    BY <1>1, <2>1 DEF LeasesExpired
  <2> QED
    BY <1>6, <2>2
<1>9. FinishedStays /\ NoneArises
  BY <1>3, <1>4, <1>8, Unfinished DEF FinishedStays, NoneArises
<1>10. SettledIsLast'
  <2> SUFFICES ASSUME NEW j \in Jobs, NEW n \in Attempts, leases'[j][n].state \in Outcomes
               PROVE  n = jobs'[j].attempt /\ jobs'[j].status \notin {"absent", "queued"}
    BY DEF SettledIsLast
  <2>1. n \notin Expired(j, t) /\ leases[j][n].state \in Outcomes
    BY <1>7, Unfinished
  <2>2. n = jobs[j].attempt /\ jobs[j].status \notin {"absent", "queued"}
    BY <2>1 DEF SettledIsLast
  <2>3. j \notin ExpiredJobs(t)
    BY <1>3, <2>1, <2>2
  <2> QED
    BY <1>4, <2>2, <2>3
<1>11. ASSUME NEW j \in Exhausted(t)
       PROVE  /\ jobs'[j].status = "failed" /\ jobs'[j].attempt \in Attempts
              /\ leases'[j][jobs'[j].attempt].state = "expired"
  <2>1. j \in Jobs /\ j \in ExpiredJobs(t)
    BY DEF Exhausted, ExpiredJobs
  <2>2. jobs'[j] = Unleased(j, "failed")
    BY <1>1, <1>3, <2>1
  <2>3. "failed" \in JobStatus
    BY DEF JobStatus
  <2>4. jobs'[j].status = "failed" /\ jobs'[j].attempt = jobs[j].attempt
    BY <2>1, <2>2, <2>3, UnleasedType DEF QueueInv
  <2>5. jobs[j].attempt \in Attempts /\ jobs[j].attempt \in Expired(j, t)
    BY <1>3, <2>1 DEF Expired
  <2> QED
    BY <1>7, <2>1, <2>4, <2>5
<1>12. SuccessKept
  BY <1>2, <1>7 DEF SuccessKept
<1> QED
  BY <1>1, <1>9, <1>10, <1>11, <1>12 DEF RowsKept

-----------------------------------------------------------------------------
(* The queue underneath. *)

\* A handler's clock is in the past of the queue.
LEMMA ClocksPast ==
  ASSUME DispatchInv, NEW a \in Agents
  PROVE  polls[a] \in Poll /\ polls[a].clock \in 0 .. now
<1>1. polls[a] \in Poll /\ now \in Nat
  BY DEF DispatchInv, DispatchTypeOK, QueueTypeOK
<1>2. polls[a].clock \in Nat /\ polls[a].clock <= now
  BY <1>1 DEF Poll, DispatchInv, PollHolds
<1> QED
  BY <1>1, <1>2

\* Every step of the handlers is a transaction of the queue or leaves it alone.
LEMMA QueueStep ==
  ASSUME DispatchInv, [DispatchNext]_vars
  PROVE  [QueueNext]_queueVars
<1>n. now \in Nat /\ now \in 0 .. now
  BY DEF DispatchInv, DispatchTypeOK, QueueTypeOK
<1>1. ASSUME NEW o \in Operations, Request(o) PROVE [QueueNext]_queueVars
  <2>1. o \in Jobs
    BY OperationsAssumption
  <2> QED
    BY <1>1, <1>n, <2>1 DEF Request, AcceptOperation, EnqueueOperation, MarkRunning, QueueNext
<1>2. ASSUME NEW j \in Jobs, EnqueuePlain(j) PROVE [QueueNext]_queueVars
  BY <1>2, <1>n DEF EnqueuePlain, QueueNext
<1>3. ASSUME NEW a \in Agents, PollStep(a) PROVE [QueueNext]_queueVars
  <2>1. CASE PollReclaim(a)
    BY <1>n, <2>1 DEF PollReclaim, QueueNext
  <2>2. CASE \E j \in Jobs : PollFind(a, j)
    BY <2>2 DEF PollFind
  <2>3. CASE PollSettle(a) \/ PollReady(a)
    BY <2>3 DEF PollSettle, PollReady
  <2>4. CASE \E chosen \in SUBSET Jobs : PollLease(a, chosen)
    BY <2>4, ClocksPast DEF PollLease, QueueNext
  <2> QED
    BY <1>3, <2>1, <2>2, <2>3, <2>4 DEF PollStep
<1>4. ASSUME NEW a \in Agents, NEW j \in Jobs, NEW n \in Attempts, NEW outcome \in Outcomes,
             NEW t \in 0 .. now, ReportSettleLease(a, j, n, outcome, t)
      PROVE  [QueueNext]_queueVars
  BY <1>4 DEF ReportSettleLease, QueueNext
<1>5. CASE ReportStep
  BY <1>5 DEF ReportStep, ReportCloseJob, ReportFind, ReportSettle, ReportObserve, QueueNext
<1>6. CASE PassTime
  BY <1>6 DEF PassTime, QueueNext
<1>7. CASE Crash
  <2>1. CASE reports = {}
    BY <1>7, <2>1 DEF Crash, queueVars
  <2>2. CASE reports # {}
    BY <1>7, <2>2 DEF Crash, CrashApi, QueueNext
  <2> QED
    BY <2>1, <2>2
<1>8. CASE UNCHANGED vars
  BY <1>8 DEF vars, queueVars
<1> QED
  BY <1>1, <1>2, <1>3, <1>4, <1>5, <1>6, <1>7, <1>8 DEF DispatchNext

-----------------------------------------------------------------------------
(* What a step carries over. *)

\* A receipt keeps speaking for its job while its operation is left alone.
LEMMA ReceiptCarried ==
  ASSUME QueueTypeOK, FinishedStays, NEW c \in Receipt, ReceiptHolds(c),
         c.pc = "settle" => ops'[c.job] = ops[c.job]
  PROVE  ReceiptHolds(c)'
<1>1. c.job \in Jobs /\ c.outcome \in Outcomes
  BY DEF Receipt
<1>2. jobs'[c.job] = jobs[c.job] /\ leases'[c.job] = leases[c.job]
  BY <1>1 DEF FinishedStays, ReceiptHolds
<1> QED
  BY <1>2 DEF ReceiptHolds, MaySettle, Settleable

\* So does a claim handler that did not move.
LEMMA PollCarried ==
  ASSUME DispatchTypeOK, now' \in Nat, now <= now', FinishedStays,
         NEW a \in Agents, PollHolds(a), polls'[a] = polls[a],
         polls[a].found # NoOperation => ops'[polls[a].found] = ops[polls[a].found]
  PROVE  PollHolds(a)'
<1>1. polls[a].todo \in SUBSET Jobs /\ polls[a].clock \in Nat /\ now \in Nat
  BY DEF DispatchTypeOK, QueueTypeOK, Poll
<1>2. \A j \in polls[a].todo : jobs'[j] = jobs[j] /\ leases'[j] = leases[j]
  BY <1>1 DEF FinishedStays, PollHolds, Outcomes
<1>3. polls'[a].clock <= now'
  BY <1>1 DEF PollHolds
<1> QED
  BY <1>2, <1>3 DEF PollHolds, MaySettle, Settleable

\* So does an operation whose row is left alone.
LEMMA OperationCarried ==
  ASSUME FinishedStays, NEW o \in Operations, OperationHolds(o), ops'[o] = ops[o],
         jobs'[o].status = "absent" \/ jobs[o].status # "absent" \/ ops[o].status # "none",
         requests'[o] = "idle" \/ requests[o] # "idle"
  PROVE  OperationHolds(o)'
<1>1. o \in Jobs
  BY OperationsAssumption
<1> QED
  BY <1>1 DEF FinishedStays, OperationHolds

\* No verdict gets a second handler while handlers only move on or end.
LEMMA HandlersCarried ==
  ASSUME OneHandlerPerVerdict,
         \A a \in Agents : polls'[a].todo \subseteq polls[a].todo,
         reports' \subseteq reports,
         \A c \in receipts' : \E d \in receipts : c.job = d.job,
         \A c, d \in receipts' : c.job = d.job => c = d
  PROVE  OneHandlerPerVerdict'
BY DEF OneHandlerPerVerdict

\* A step that leaves the rows of the queue alone leaves finished jobs alone.
LEMMA RowsUntouched ==
  ASSUME SettledIsLast, jobs' = jobs, leases' = leases
  PROVE  RowsKept /\ NoneArises
BY DEF RowsKept, SettledIsLast, FinishedStays, NoneArises

\* What every lemma below starts from.
LEMMA InvFacts ==
  ASSUME DispatchInv
  PROVE  /\ QueueInv /\ QueueTypeOK /\ DispatchTypeOK /\ SettledIsLast /\ now \in Nat
         /\ OneHandlerPerVerdict
         /\ \A o \in Operations : OperationHolds(o) /\ o \in Jobs /\ ops[o] \in Operation
         /\ \A c \in receipts : ReceiptHolds(c) /\ c \in Receipt /\ c.job \in Jobs
         /\ \A a \in Agents : /\ PollHolds(a) /\ polls[a] \in Poll
                              /\ polls[a].todo \subseteq Jobs
                              /\ polls[a].found \in Operations \cup {NoOperation}
BY OperationsAssumption DEF DispatchInv, DispatchTypeOK, QueueTypeOK, Receipt, Poll

-----------------------------------------------------------------------------
(* The panel request: one lemma per call. *)

\* An accepted operation is new, so no handler holds it.
LEMMA AcceptPreserves ==
  ASSUME DispatchInv, QueueInv', NEW o \in Operations, AcceptOperation(o)
  PROVE  DispatchInv'
<1> USE InvFacts
<1>1. /\ ops[o].status = "none"
      /\ ops' = [ops EXCEPT ![o].status = "accepted", ![o].version = 1]
      /\ requests' = [requests EXCEPT ![o] = "accepted"]
      /\ now' = now /\ jobs' = jobs /\ leases' = leases /\ reports' = reports
      /\ polls' = polls /\ receipts' = receipts /\ observed' = Withdrawn(o)
  BY DEF AcceptOperation, queueVars
<1>2. RowsKept
  BY <1>1, RowsUntouched
<1>3. /\ ops \in [Operations -> Operation]
      /\ requests \in [Operations -> Requests]
      /\ observed \in [Agents -> Jobs \cup {NoOperation}]
  BY DEF DispatchTypeOK
<1>4. /\ ops'[o].status = "accepted" /\ ops'[o].linked = ops[o].linked
      /\ \A k \in Operations : k # o => ops'[k] = ops[k] /\ requests'[k] = requests[k]
  BY <1>1, <1>3 DEF Operation
<1>5. ~ops[o].linked
  BY <1>1 DEF OperationHolds
<1>t. DispatchTypeOK'
  <2>1. ops' \in [Operations -> Operation]
    BY <1>1, <1>3 DEF Operation, OpStatus
  <2>2. requests' \in [Operations -> Requests]
    BY <1>1, <1>3 DEF Requests
  <2>3. observed' \in [Agents -> Jobs \cup {NoOperation}]
    BY <1>1, <1>3 DEF Withdrawn
  <2> QED
    BY <1>1, <2>1, <2>2, <2>3 DEF DispatchTypeOK, QueueInv
<1>o. ASSUME NEW k \in Operations PROVE OperationHolds(k)'
  <2>1. CASE k = o
    BY <1>4, <1>5, <2>1 DEF OperationHolds, Outcomes
  <2>2. CASE k # o
    BY <1>1, <1>2, <1>4, <2>2, OperationCarried DEF RowsKept
  <2> QED
    BY <2>1, <2>2
<1>r. ASSUME NEW c \in receipts PROVE ReceiptHolds(c)'
  <2>1. c.pc = "settle" => c.job \in Operations /\ c.job # o
    BY <1>5 DEF ReceiptHolds, MaySettle
  <2> QED
    BY <1>2, <1>4, <2>1, ReceiptCarried DEF RowsKept
<1>p. ASSUME NEW a \in Agents PROVE PollHolds(a)'
  <2>1. polls[a].found # NoOperation => polls[a].found \in Operations /\ polls[a].found # o
    BY <1>5 DEF PollHolds, MaySettle
  <2>2. polls[a].found # NoOperation => ops'[polls[a].found] = ops[polls[a].found]
    BY <1>4, <2>1
  <2>3. polls'[a] = polls[a] /\ now' = now
    BY <1>1
  <2> QED
    BY <1>2, <2>2, <2>3, PollCarried DEF RowsKept
<1>h. OneHandlerPerVerdict'
  BY <1>1 DEF OneHandlerPerVerdict
<1> QED
  BY <1>1, <1>2, <1>t, <1>o, <1>r, <1>p, <1>h DEF DispatchInv, RowsKept

\* The job of an accepted operation, or of none, is queued.
LEMMA EnqueuePreserves ==
  ASSUME DispatchInv, QueueInv', NEW j \in Jobs, Enqueue(j, now),
         ops' = ops, polls' = polls, receipts' = receipts, observed' = observed,
         requests' \in [Operations -> Requests],
         j \in Operations => ops[j].status # "none",
         \A o \in Operations : requests'[o] = "idle" \/ requests[o] # "idle"
  PROVE  DispatchInv'
<1> USE InvFacts
<1>1. /\ now' = now /\ leases' = leases /\ reports' = reports
      /\ \A k \in Jobs : k # j => jobs'[k] = jobs[k]
  BY DEF Enqueue, QueueTypeOK
<1>2. RowsKept
  BY EnqueueRows
<1>t. DispatchTypeOK'
  BY DEF DispatchTypeOK, QueueInv
<1>o. ASSUME NEW o \in Operations PROVE OperationHolds(o)'
  BY <1>1, <1>2, OperationCarried DEF RowsKept
<1>r. ASSUME NEW c \in receipts PROVE ReceiptHolds(c)'
  BY <1>2, ReceiptCarried DEF RowsKept
<1>p. ASSUME NEW a \in Agents PROVE PollHolds(a)'
  BY <1>1, <1>2, PollCarried DEF RowsKept
<1>h. OneHandlerPerVerdict'
  BY <1>1 DEF OneHandlerPerVerdict
<1> QED
  BY <1>2, <1>t, <1>o, <1>r, <1>p, <1>h DEF DispatchInv, RowsKept

\* The operation is linked to its job: nobody found it before.
LEMMA MarkRunningPreserves ==
  ASSUME DispatchInv, QueueInv', NEW o \in Operations, MarkRunning(o)
  PROVE  DispatchInv'
<1> USE InvFacts
<1>1. /\ requests[o] = "enqueued"
      /\ requests' = [requests EXCEPT ![o] = "idle"]
      /\ now' = now /\ jobs' = jobs /\ leases' = leases /\ reports' = reports
      /\ polls' = polls /\ receipts' = receipts /\ observed' = observed
  BY DEF MarkRunning, queueVars
<1>2. RowsKept /\ NoneArises
  BY <1>1, RowsUntouched
<1>3. /\ ops \in [Operations -> Operation]
      /\ requests \in [Operations -> Requests]
  BY DEF DispatchTypeOK
<1>4. \/ ops' = ops
      \/ /\ ops[o].status = "accepted"
         /\ ops' = [ops EXCEPT ![o].status = "running", ![o].linked = TRUE, ![o].version = 2]
  BY DEF MarkRunning
<1>5. \A k \in Operations :
        \/ ops'[k] = ops[k]
        \/ /\ k = o /\ ops[k].status = "accepted" /\ ops'[k].status = "running"
  BY <1>3, <1>4 DEF Operation
<1>6. \A k \in Operations : ops[k].linked => ops'[k] = ops[k]
  BY <1>5 DEF OperationHolds
<1>7. \A k \in Operations : requests'[k] = "idle" \/ requests'[k] = requests[k]
  BY <1>1, <1>3
<1>t. DispatchTypeOK'
  <2>1. ops' \in [Operations -> Operation]
    BY <1>3, <1>4 DEF Operation, OpStatus
  <2>2. requests' \in [Operations -> Requests]
    BY <1>1, <1>3 DEF Requests
  <2> QED
    BY <1>1, <2>1, <2>2 DEF DispatchTypeOK, QueueInv
<1>o. ASSUME NEW k \in Operations PROVE OperationHolds(k)'
  <2>1. CASE ops'[k] = ops[k]
    BY <1>1, <1>2, <1>7, <2>1, OperationCarried DEF RowsKept
  <2>2. CASE k = o /\ ops'[k].status = "running"
    BY <1>1, <2>2 DEF OperationHolds, Outcomes
  <2> QED
    BY <1>5, <2>1, <2>2
<1>r. ASSUME NEW c \in receipts PROVE ReceiptHolds(c)'
  <2>1. c.pc = "settle" => ops'[c.job] = ops[c.job]
    BY <1>6 DEF ReceiptHolds, MaySettle
  <2> QED
    BY <1>2, <2>1, ReceiptCarried DEF RowsKept
<1>p. ASSUME NEW a \in Agents PROVE PollHolds(a)'
  <2>1. polls[a].found # NoOperation => ops'[polls[a].found] = ops[polls[a].found]
    BY <1>6 DEF PollHolds, MaySettle
  <2> QED
    BY <1>1, <1>2, <2>1, PollCarried DEF RowsKept
<1>h. OneHandlerPerVerdict'
  BY <1>1 DEF OneHandlerPerVerdict
<1> QED
  BY <1>2, <1>t, <1>o, <1>r, <1>p, <1>h, <1>1 DEF DispatchInv, RowsKept

-----------------------------------------------------------------------------
(* The claim handler. *)

\* The jobs a reclaim gives up were running: nobody else speaks for them.
LEMMA PollReclaimPreserves ==
  ASSUME DispatchInv, QueueInv', NEW a \in Agents, PollReclaim(a)
  PROVE  DispatchInv'
<1> USE InvFacts
<1>1. /\ polls[a].pc = "idle"
      /\ polls' = [polls EXCEPT ![a] = [NoPoll EXCEPT !.pc = "settling", !.clock = now,
                                                      !.todo = Exhausted(now)]]
      /\ ops' = ops /\ requests' = requests /\ receipts' = receipts /\ observed' = observed
  BY DEF PollReclaim
<1>2. Exhausted(now) \subseteq Jobs
  BY DEF Exhausted, ExpiredJobs
<1>3. /\ RowsKept /\ NoneArises /\ reports' = reports /\ now' = now
      /\ \A j \in Exhausted(now) : /\ jobs'[j].status = "failed"
                                   /\ jobs'[j].attempt \in Attempts
                                   /\ leases'[j][jobs'[j].attempt].state = "expired"
  <2>1. CASE ExpiredJobs(now) # {}
    <3>1. ReclaimExpiredLeases(now)
      BY <2>1 DEF PollReclaim
    <3>2. now' = now
      BY <3>1 DEF ReclaimExpiredLeases
    <3> QED
      BY <3>1, <3>2, ReclaimRows
  <2>2. CASE ExpiredJobs(now) = {}
    <3>1. UNCHANGED queueVars
      BY <2>2 DEF PollReclaim
    <3>2. Exhausted(now) = {}
      BY <2>2 DEF Exhausted
    <3> QED
      BY <3>1, <3>2, RowsUntouched DEF queueVars
  <2> QED
    BY <2>1, <2>2
<1>4. \A j \in Exhausted(now) :
        /\ jobs[j].status = "running"
        /\ leases[j][jobs[j].attempt].state = "open"
  <2> TAKE j \in Exhausted(now)
  <2>1. PICK n \in Attempts : leases[j][n].state = "open" /\ j \in Jobs
    BY DEF Exhausted, ExpiredJobs, Expired
  <2> QED
    BY <2>1 DEF QueueInv, LeaseBacksJob
<1>5. polls \in [Agents -> Poll]
  BY DEF DispatchTypeOK
<1>6. /\ polls'[a] = [NoPoll EXCEPT !.pc = "settling", !.clock = now, !.todo = Exhausted(now)]
      /\ \A b \in Agents : b # a => polls'[b] = polls[b]
  BY <1>1, <1>5
<1>7. /\ polls'[a].pc = "settling" /\ polls'[a].clock = now
      /\ polls'[a].todo = Exhausted(now) /\ polls'[a].found = NoOperation
      /\ polls'[a] \in Poll
  <2>1. polls'[a] = [pc |-> "settling", clock |-> now, todo |-> Exhausted(now),
                     found |-> NoOperation, version |-> 0]
    BY <1>6 DEF NoPoll
  <2> QED
    BY <1>2, <2>1 DEF Poll
<1>t. DispatchTypeOK'
  <2>1. polls' \in [Agents -> Poll]
    BY <1>1, <1>5, <1>6, <1>7
  <2> QED
    BY <1>1, <2>1 DEF DispatchTypeOK, QueueInv
<1>o. ASSUME NEW o \in Operations PROVE OperationHolds(o)'
  BY <1>1, <1>3, OperationCarried DEF RowsKept, NoneArises
<1>r. ASSUME NEW c \in receipts PROVE ReceiptHolds(c)'
  BY <1>1, <1>3, ReceiptCarried DEF RowsKept
<1>p. ASSUME NEW b \in Agents PROVE PollHolds(b)'
  <2>1. CASE b = a
    BY <1>3, <1>7, <2>1 DEF PollHolds
  <2>2. CASE b # a
    BY <1>1, <1>3, <1>6, <2>2, PollCarried DEF RowsKept
  <2> QED
    BY <2>1, <2>2
<1>h. OneHandlerPerVerdict'
  <2>1. \A j \in Exhausted(now) :
          /\ \A c \in receipts : c.job # j
          /\ \A r \in reports : r.job # j
          /\ \A b \in Agents : j \notin polls[b].todo
    <3> TAKE j \in Exhausted(now)
    <3>1. \A c \in receipts : c.job # j
      BY <1>4, Unfinished DEF ReceiptHolds, Receipt
    <3>2. \A r \in reports : r.job # j
      BY <1>4, Unfinished DEF QueueInv, ReportStillOwnsJob, QueueTypeOK, Report
    <3>3. \A b \in Agents : j \notin polls[b].todo
      BY <1>4 DEF PollHolds
    <3> QED
      BY <3>1, <3>2, <3>3
  <2> QED
    BY <1>1, <1>3, <1>6, <1>7, <2>1 DEF OneHandlerPerVerdict
<1> QED
  BY <1>1, <1>3, <1>t, <1>o, <1>r, <1>p, <1>h DEF DispatchInv, RowsKept

\* A claim handler that only moves on within its own memory.
LEMMA PollMovePreserves ==
  ASSUME DispatchInv, NEW a \in Agents, UNCHANGED <<queueVars, ops, requests, receipts, observed>>,
         NEW p \in Poll, polls' = [polls EXCEPT ![a] = p],
         p.todo \subseteq polls[a].todo, p.clock <= now,
         p.pc # "settling" => p.todo = {},
         p.found # NoOperation => p.found \in p.todo /\ MaySettle(p.found, p.version)
  PROVE  DispatchInv'
<1> USE InvFacts
<1>1. /\ now' = now /\ jobs' = jobs /\ leases' = leases /\ reports' = reports
      /\ ops' = ops /\ requests' = requests /\ receipts' = receipts /\ observed' = observed
  BY DEF queueVars
<1>2. RowsKept /\ NoneArises
  BY <1>1, RowsUntouched
<1>3. QueueInv'
  BY <1>1, RowsUnchangedInv
<1>4. polls \in [Agents -> Poll]
  BY DEF DispatchTypeOK
<1>5. polls'[a] = p /\ \A b \in Agents : b # a => polls'[b] = polls[b]
  BY <1>4
<1>t. DispatchTypeOK'
  BY <1>1, <1>3, <1>4 DEF DispatchTypeOK, QueueInv
<1>o. ASSUME NEW o \in Operations PROVE OperationHolds(o)'
  BY <1>1, <1>2, OperationCarried DEF RowsKept
<1>r. ASSUME NEW c \in receipts PROVE ReceiptHolds(c)'
  BY <1>1, <1>2, ReceiptCarried DEF RowsKept
<1>p. ASSUME NEW b \in Agents PROVE PollHolds(b)'
  <2>1. CASE b = a
    <3>1. \A j \in p.todo : /\ jobs'[j].status = "failed"
                            /\ jobs'[j].attempt \in Attempts
                            /\ leases'[j][jobs'[j].attempt].state = "expired"
      BY <1>1 DEF PollHolds
    <3>2. p.found # NoOperation => MaySettle(p.found, p.version)'
      BY <1>1 DEF MaySettle, Settleable
    <3> QED
      BY <1>1, <1>5, <2>1, <3>1, <3>2 DEF PollHolds
  <2>2. CASE b # a
    BY <1>1, <1>2, <1>5, <2>2, PollCarried DEF RowsKept
  <2> QED
    BY <2>1, <2>2
<1>h. OneHandlerPerVerdict'
  <2>1. \A b \in Agents : polls'[b].todo \subseteq polls[b].todo
    BY <1>5
  <2>2. \A c, d \in receipts : c.job = d.job => c = d
    BY DEF OneHandlerPerVerdict
  <2> QED
    BY <1>1, <2>1, <2>2, HandlersCarried
<1> QED
  BY <1>1, <1>2, <1>3, <1>t, <1>o, <1>r, <1>p, <1>h DEF DispatchInv, RowsKept

\* A job whose operation is not found leaves the handler's list.
LEMMA PollFindPreserves ==
  ASSUME DispatchInv, NEW a \in Agents, NEW j \in Jobs, PollFind(a, j)
  PROVE  DispatchInv'
<1> USE InvFacts
<1>1. /\ polls[a].pc = "settling" /\ polls[a].found = NoOperation /\ j \in polls[a].todo
      /\ UNCHANGED <<queueVars, ops, requests, receipts, observed>>
  BY DEF PollFind
<1>2. polls \in [Agents -> Poll]
  BY DEF DispatchTypeOK
<1>3. CASE Findable(j)
  <2> DEFINE p == [polls[a] EXCEPT !.found = j, !.version = ops[j].version]
  <2>1. polls' = [polls EXCEPT ![a] = p]
    BY <1>2, <1>3 DEF PollFind, Poll
  <2>2. j \in Operations /\ ops[j].linked /\ ops[j].status \in InFlightStatus
    BY <1>3 DEF Findable
  <2>3. ops[j].version \in Nat
    BY <2>2 DEF Operation
  <2>4. /\ p \in Poll /\ p.todo = polls[a].todo /\ p.clock = polls[a].clock
        /\ p.pc = "settling" /\ p.found = j /\ p.version = ops[j].version
    BY <1>1, <2>2, <2>3 DEF Poll
  <2>5. MaySettle(p.found, p.version)
    BY <2>2, <2>4 DEF MaySettle, Settleable
  <2>6. p.clock <= now
    BY <2>4 DEF PollHolds
  <2> QED
    BY <1>1, <2>1, <2>4, <2>5, <2>6, PollMovePreserves
<1>4. CASE ~Findable(j)
  <2> DEFINE p == [polls[a] EXCEPT !.todo = @ \ {j}]
  <2>1. polls' = [polls EXCEPT ![a] = p]
    BY <1>2, <1>4 DEF PollFind, Poll
  <2>2. /\ p \in Poll /\ p.todo = polls[a].todo \ {j} /\ p.clock = polls[a].clock
        /\ p.pc = "settling" /\ p.found = NoOperation
    BY <1>1 DEF Poll
  <2>3. p.clock <= now
    BY <2>2 DEF PollHolds
  <2> QED
    BY <1>1, <2>1, <2>2, <2>3, PollMovePreserves
<1> QED
  BY <1>3, <1>4

\* The list is done.
LEMMA PollReadyPreserves ==
  ASSUME DispatchInv, NEW a \in Agents, PollReady(a)
  PROVE  DispatchInv'
<1> USE InvFacts
<1> DEFINE p == [polls[a] EXCEPT !.pc = "leasing"]
<1>1. /\ polls[a].todo = {} /\ polls \in [Agents -> Poll]
      /\ UNCHANGED <<queueVars, ops, requests, receipts, observed>>
  BY DEF PollReady, DispatchTypeOK
<1>2. polls' = [polls EXCEPT ![a] = p]
  BY <1>1 DEF PollReady, Poll
<1>3. p \in Poll /\ p.todo = {} /\ p.clock = polls[a].clock /\ p.found = polls[a].found
  BY <1>1 DEF Poll
<1>4. p.clock <= now /\ p.found = NoOperation
  BY <1>1, <1>3 DEF PollHolds
<1> QED
  BY <1>1, <1>2, <1>3, <1>4, PollMovePreserves

\* A handler that settles an operation is the only one that could.
LEMMA PollSettlePreserves ==
  ASSUME DispatchInv, NEW a \in Agents, PollSettle(a)
  PROVE  DispatchInv'
<1> USE InvFacts
<1> DEFINE o == polls[a].found
<1>1. /\ polls[a].pc = "settling" /\ o # NoOperation /\ polls \in [Agents -> Poll]
      /\ now' = now /\ jobs' = jobs /\ leases' = leases /\ reports' = reports
      /\ requests' = requests /\ receipts' = receipts /\ observed' = observed
  BY DEF PollSettle, DispatchTypeOK, queueVars
<1>2. RowsKept /\ NoneArises
  BY <1>1, RowsUntouched
<1>3. QueueInv'
  BY <1>1, RowsUnchangedInv
<1>4. /\ o \in Operations /\ o \in Jobs /\ o \in polls[a].todo
      /\ ops[o].linked /\ Settleable(o, polls[a].version) /\ jobs[o].status = "failed"
  BY <1>1 DEF PollHolds, MaySettle
<1>5. /\ ops' = Settled(o, "failed")
      /\ polls' = [polls EXCEPT ![a].todo = @ \ {o}, ![a].found = NoOperation, ![a].version = 0]
  BY <1>4 DEF PollSettle
<1>6. ops \in [Operations -> Operation]
  BY DEF DispatchTypeOK
<1>7. /\ ops'[o].status = "failed" /\ ops'[o].linked
      /\ \A k \in Operations : k # o => ops'[k] = ops[k]
      /\ ops' \in [Operations -> Operation]
  BY <1>4, <1>5, <1>6 DEF Settled, Operation, OpStatus
<1>8. /\ polls'[a] \in Poll /\ polls'[a].todo = polls[a].todo \ {o}
      /\ polls'[a].found = NoOperation /\ polls'[a].pc = "settling"
      /\ polls'[a].clock = polls[a].clock
      /\ \A b \in Agents : b # a => polls'[b] = polls[b]
      /\ polls' \in [Agents -> Poll]
  <2> DEFINE p == [polls[a] EXCEPT !.todo = @ \ {o}, !.found = NoOperation, !.version = 0]
  <2>1. polls' = [polls EXCEPT ![a] = p]
    BY <1>1, <1>5 DEF Poll
  <2>2. /\ p \in Poll /\ p.todo = polls[a].todo \ {o} /\ p.found = NoOperation
        /\ p.pc = "settling" /\ p.clock = polls[a].clock
    BY <1>1 DEF Poll
  <2> QED
    BY <1>1, <2>1, <2>2
<1>t. DispatchTypeOK'
  BY <1>1, <1>3, <1>7, <1>8 DEF DispatchTypeOK, QueueInv
<1>o. ASSUME NEW k \in Operations PROVE OperationHolds(k)'
  <2>1. CASE k = o
    BY <1>1, <1>4, <1>7, <2>1 DEF OperationHolds, Outcomes
  <2>2. CASE k # o
    BY <1>1, <1>2, <1>7, <2>2, OperationCarried DEF RowsKept
  <2> QED
    BY <2>1, <2>2
<1>r. ASSUME NEW c \in receipts PROVE ReceiptHolds(c)'
  <2>1. c.job # o
    BY <1>4 DEF OneHandlerPerVerdict
  <2>2. c.pc = "settle" => ops'[c.job] = ops[c.job]
    BY <1>7, <2>1 DEF ReceiptHolds, MaySettle
  <2> QED
    BY <1>2, <2>2, ReceiptCarried DEF RowsKept
<1>p. ASSUME NEW b \in Agents PROVE PollHolds(b)'
  <2>1. CASE b = a
    BY <1>1, <1>8, <2>1 DEF PollHolds
  <2>2. CASE b # a
    <3>1. o \notin polls[b].todo
      BY <1>4, <2>2 DEF OneHandlerPerVerdict
    <3>2. polls[b].found # NoOperation => ops'[polls[b].found] = ops[polls[b].found]
      BY <1>7, <3>1 DEF PollHolds, MaySettle
    <3> QED
      BY <1>1, <1>2, <1>8, <2>2, <3>2, PollCarried DEF RowsKept
  <2> QED
    BY <2>1, <2>2
<1>h. OneHandlerPerVerdict'
  <2>1. \A b \in Agents : polls'[b].todo \subseteq polls[b].todo
    BY <1>8
  <2>2. \A c, d \in receipts : c.job = d.job => c = d
    BY DEF OneHandlerPerVerdict
  <2> QED
    BY <1>1, <2>1, <2>2, HandlersCarried
<1> QED
  BY <1>1, <1>2, <1>3, <1>t, <1>o, <1>r, <1>p, <1>h DEF DispatchInv, RowsKept

\* Leasing takes queued jobs, for which no handler speaks.
LEMMA PollLeasePreserves ==
  ASSUME DispatchInv, QueueInv', NEW a \in Agents, NEW chosen \in SUBSET Jobs,
         PollLease(a, chosen)
  PROVE  DispatchInv'
<1> USE InvFacts
<1>1. /\ polls[a].pc = "leasing" /\ polls \in [Agents -> Poll]
      /\ polls' = [polls EXCEPT ![a] = NoPoll]
      /\ ops' = ops /\ requests' = requests /\ receipts' = receipts /\ observed' = observed
  BY DEF PollLease, DispatchTypeOK
<1>2. RowsKept /\ NoneArises /\ now' = now /\ reports' = reports
  <2>1. CASE chosen = {}
    BY <2>1, RowsUntouched DEF PollLease, queueVars
  <2>2. CASE chosen # {}
    <3>1. ClaimWork(a, chosen, polls[a].clock) /\ polls[a].clock \in Nat
      BY <2>2 DEF PollLease, Poll
    <3>2. now' = now /\ reports' = reports
      BY <3>1 DEF ClaimWork
    <3> QED
      BY <3>1, <3>2, ClaimRows
  <2> QED
    BY <2>1, <2>2
<1>3. /\ NoPoll \in Poll /\ NoPoll.todo = {} /\ NoPoll.found = NoOperation
      /\ NoPoll.clock = 0 /\ NoPoll.pc = "idle"
  BY DEF NoPoll, Poll
<1>4. /\ polls'[a] = NoPoll /\ polls' \in [Agents -> Poll]
      /\ \A b \in Agents : b # a => polls'[b] = polls[b]
  BY <1>1, <1>3
<1>t. DispatchTypeOK'
  BY <1>1, <1>4 DEF DispatchTypeOK, QueueInv
<1>o. ASSUME NEW o \in Operations PROVE OperationHolds(o)'
  BY <1>1, <1>2, OperationCarried DEF RowsKept, NoneArises
<1>r. ASSUME NEW c \in receipts PROVE ReceiptHolds(c)'
  BY <1>1, <1>2, ReceiptCarried DEF RowsKept
<1>p. ASSUME NEW b \in Agents PROVE PollHolds(b)'
  <2>1. CASE b = a
    BY <1>2, <1>3, <1>4, <2>1 DEF PollHolds
  <2>2. CASE b # a
    BY <1>1, <1>2, <1>4, <2>2, PollCarried DEF RowsKept
  <2> QED
    BY <2>1, <2>2
<1>h. OneHandlerPerVerdict'
  <2>1. \A b \in Agents : polls'[b].todo \subseteq polls[b].todo
    BY <1>3, <1>4
  <2>2. \A c, d \in receipts : c.job = d.job => c = d
    BY DEF OneHandlerPerVerdict
  <2> QED
    BY <1>1, <1>2, <2>1, <2>2, HandlersCarried
<1> QED
  BY <1>1, <1>2, <1>t, <1>o, <1>r, <1>p, <1>h DEF DispatchInv, RowsKept

-----------------------------------------------------------------------------
(* The result handler. *)

\* The job of a settled lease is running, so no other handler speaks for it.
LEMMA ReportSettleLeasePreserves ==
  ASSUME DispatchInv, QueueInv', NEW a \in Agents, NEW j \in Jobs, NEW n \in Attempts,
         NEW outcome \in Outcomes, NEW t \in Nat, ReportSettleLease(a, j, n, outcome, t)
  PROVE  DispatchInv'
<1> USE InvFacts
<1>1. /\ SettleLease(a, j, n, outcome, t)
      /\ ops' = ops /\ requests' = requests /\ receipts' = receipts /\ observed' = observed
      /\ polls' = polls
  BY DEF ReportSettleLease, opVars
<1>2. RowsKept /\ NoneArises /\ jobs[j].status = "running"
  BY <1>1, SettleRows
<1>3. /\ now' = now
      /\ reports' = reports \cup {[job |-> j, attempt |-> n, agent |-> a, outcome |-> outcome]}
  BY <1>1 DEF SettleLease
<1>t. DispatchTypeOK'
  BY <1>1 DEF DispatchTypeOK, QueueInv
<1>o. ASSUME NEW o \in Operations PROVE OperationHolds(o)'
  BY <1>1, <1>2, OperationCarried DEF RowsKept, NoneArises
<1>r. ASSUME NEW c \in receipts PROVE ReceiptHolds(c)'
  BY <1>1, <1>2, ReceiptCarried DEF RowsKept
<1>p. ASSUME NEW b \in Agents PROVE PollHolds(b)'
  BY <1>1, <1>2, <1>3, PollCarried DEF RowsKept
<1>h. OneHandlerPerVerdict'
  <2>1. \A b \in Agents : j \notin polls[b].todo
    BY <1>2 DEF PollHolds
  <2> QED
    BY <1>1, <1>3, <2>1 DEF OneHandlerPerVerdict
<1> QED
  BY <1>1, <1>2, <1>t, <1>o, <1>r, <1>p, <1>h DEF DispatchInv, RowsKept

\* The job was running until now: the new receipt is the only one.
LEMMA ReportCloseJobPreserves ==
  ASSUME DispatchInv, QueueInv', NEW r \in reports, ReportCloseJob(r)
  PROVE  DispatchInv'
<1> USE InvFacts
<1> DEFINE c == [job |-> r.job, attempt |-> r.attempt, agent |-> r.agent,
                 outcome |-> r.outcome, pc |-> "find", version |-> 0]
<1>1. /\ CloseJob(r) /\ receipts' = receipts \cup {c}
      /\ ops' = ops /\ requests' = requests /\ polls' = polls /\ observed' = observed
  BY DEF ReportCloseJob
<1>2. /\ RowsKept /\ NoneArises
      /\ jobs'[r.job].status = r.outcome /\ jobs'[r.job].attempt = r.attempt
      /\ leases'[r.job][r.attempt].state = r.outcome
      /\ jobs[r.job].status = "running" /\ reports' = reports \ {r}
  BY <1>1, CloseRows
<1>3. now' = now
  BY <1>1 DEF CloseJob
<1>4. c \in Receipt
  BY DEF QueueTypeOK, Report, Receipt
<1>t. DispatchTypeOK'
  <2>1. receipts' \in SUBSET Receipt
    BY <1>1, <1>4
  <2> QED
    BY <1>1, <2>1 DEF DispatchTypeOK, QueueInv
<1>o. ASSUME NEW o \in Operations PROVE OperationHolds(o)'
  BY <1>1, <1>2, OperationCarried DEF RowsKept, NoneArises
<1>r. ASSUME NEW d \in receipts' PROVE ReceiptHolds(d)'
  <2>1. CASE d \in receipts
    BY <1>1, <1>2, <2>1, ReceiptCarried DEF RowsKept
  <2>2. CASE d = c
    BY <1>2, <2>2 DEF ReceiptHolds
  <2> QED
    BY <1>1, <2>1, <2>2
<1>p. ASSUME NEW a \in Agents PROVE PollHolds(a)'
  BY <1>1, <1>2, <1>3, PollCarried DEF RowsKept
<1>h. OneHandlerPerVerdict'
  <2>1. \A d \in receipts : d.job # r.job
    BY <1>2, Unfinished DEF ReceiptHolds, Receipt
  <2>2. \A a \in Agents : r.job \notin polls[a].todo
    BY <1>2 DEF PollHolds
  <2>3. \A d \in receipts' : d \in receipts \/ d = c
    BY <1>1
  <2>4. \A d, e \in receipts' : d.job = e.job => d = e
    <3> TAKE d \in receipts', e \in receipts'
    <3>1. c.job = r.job
      OBVIOUS
    <3>2. d \in receipts /\ e \in receipts /\ d.job = e.job => d = e
      BY DEF OneHandlerPerVerdict
    <3> QED
      BY <2>1, <2>3, <3>1, <3>2
  <2>5. \A a \in Agents : \A j \in polls[a].todo :
          /\ \A d \in receipts' : d.job # j
          /\ \A q \in reports' : q.job # j
          /\ \A b \in Agents \ {a} : j \notin polls[b].todo
    BY <1>2, <2>2, <2>3 DEF OneHandlerPerVerdict
  <2> QED
    BY <1>1, <2>4, <2>5 DEF OneHandlerPerVerdict
<1> QED
  BY <1>1, <1>2, <1>t, <1>o, <1>r, <1>p, <1>h DEF DispatchInv, RowsKept

\* A result handler moves on within its own memory, or ends.
LEMMA ReceiptMovePreserves ==
  ASSUME DispatchInv, UNCHANGED <<queueVars, ops, requests, polls>>,
         observed' \in [Agents -> Jobs \cup {NoOperation}],
         NEW c \in receipts, NEW d \in Receipt, d.job = c.job, ReceiptHolds(d),
         receipts' \in {receipts \ {c}, (receipts \ {c}) \cup {d}}
  PROVE  DispatchInv'
<1> USE InvFacts
<1>1. /\ now' = now /\ jobs' = jobs /\ leases' = leases /\ reports' = reports
      /\ ops' = ops /\ requests' = requests /\ polls' = polls
  BY DEF queueVars
<1>2. RowsKept /\ NoneArises
  BY <1>1, RowsUntouched
<1>3. QueueInv'
  BY <1>1, RowsUnchangedInv
<1>4. \A e \in receipts' : (e \in receipts /\ e # c) \/ e = d
  OBVIOUS
<1>t. DispatchTypeOK'
  <2>1. receipts' \in SUBSET Receipt
    BY <1>4
  <2> QED
    BY <1>1, <1>3, <2>1 DEF DispatchTypeOK, QueueInv
<1>o. ASSUME NEW o \in Operations PROVE OperationHolds(o)'
  BY <1>1, <1>2, OperationCarried DEF RowsKept
<1>r. ASSUME NEW e \in receipts' PROVE ReceiptHolds(e)'
  <2>1. e \in Receipt /\ ReceiptHolds(e)
    BY <1>4
  <2> QED
    BY <1>1, <1>2, <2>1, ReceiptCarried DEF RowsKept
<1>p. ASSUME NEW a \in Agents PROVE PollHolds(a)'
  BY <1>1, <1>2, PollCarried DEF RowsKept
<1>h. OneHandlerPerVerdict'
  <2>1. \A e \in receipts' : \E f \in receipts : e.job = f.job
    BY <1>4
  <2>2. \A e, f \in receipts : e.job = f.job => e = f
    BY DEF OneHandlerPerVerdict
  <2>3. \A e, f \in receipts' : e.job = f.job => e = f
    BY <1>4, <2>2
  <2> QED
    BY <1>1, <2>1, <2>3, HandlersCarried
<1> QED
  BY <1>1, <1>2, <1>3, <1>t, <1>o, <1>r, <1>p, <1>h DEF DispatchInv, RowsKept

\* findByJobId: the operation as it is now, or nothing to settle.
LEMMA ReportFindPreserves ==
  ASSUME DispatchInv, NEW c \in receipts, ReportFind(c)
  PROVE  DispatchInv'
<1> USE InvFacts
<1> DEFINE d == IF Findable(c.job)
                THEN [c EXCEPT !.pc = "settle", !.version = ops[c.job].version]
                ELSE [c EXCEPT !.pc = "observe"]
<1>1. /\ UNCHANGED <<queueVars, ops, requests, polls, observed>>
      /\ receipts' = (receipts \ {c}) \cup {d}
  BY DEF ReportFind
<1>2. /\ d \in Receipt /\ d.job = c.job /\ d.attempt = c.attempt /\ d.outcome = c.outcome
      /\ Findable(c.job) => d.version = ops[c.job].version
      /\ ~Findable(c.job) => d.pc = "observe"
  <2>1. CASE Findable(c.job)
    <3>1. ops[c.job].version \in Nat
      BY <2>1 DEF Findable, Operation
    <3> QED
      BY <2>1, <3>1 DEF Receipt
  <2>2. CASE ~Findable(c.job)
    BY <2>2 DEF Receipt
  <2> QED
    BY <2>1, <2>2
<1>3. d.pc = "settle" => MaySettle(d.job, d.version)
  BY <1>2 DEF Findable, MaySettle, Settleable
<1>4. ReceiptHolds(d)
  BY <1>2, <1>3 DEF ReceiptHolds
<1>5. observed' \in [Agents -> Jobs \cup {NoOperation}]
  BY <1>1 DEF DispatchTypeOK
<1> HIDE DEF d
<1> QED
  BY <1>1, <1>2, <1>4, <1>5, ReceiptMovePreserves

\* The observation is published, or the result carried none.
LEMMA ReportObservePreserves ==
  ASSUME DispatchInv, NEW c \in receipts, ReportObserve(c)
  PROVE  DispatchInv'
<1> USE InvFacts
<1>1. /\ UNCHANGED <<queueVars, ops, requests, polls>>
      /\ receipts' = receipts \ {c}
      /\ observed' = observed \/ observed' = [observed EXCEPT ![c.agent] = c.job]
  BY DEF ReportObserve
<1>2. observed' \in [Agents -> Jobs \cup {NoOperation}]
  BY <1>1 DEF DispatchTypeOK
<1> QED
  BY <1>1, <1>2, ReceiptMovePreserves

\* The settlement never meets a version that moved.
LEMMA ReportSettlePreserves ==
  ASSUME DispatchInv, NEW c \in receipts, ReportSettle(c)
  PROVE  DispatchInv'
<1> USE InvFacts
<1> DEFINE o == c.job
           d == [c EXCEPT !.pc = "observe", !.version = 0]
<1>1. /\ c.pc = "settle"
      /\ now' = now /\ jobs' = jobs /\ leases' = leases /\ reports' = reports
      /\ requests' = requests /\ polls' = polls /\ observed' = observed
  BY DEF ReportSettle, queueVars
<1>2. RowsKept /\ NoneArises
  BY <1>1, RowsUntouched
<1>3. QueueInv'
  BY <1>1, RowsUnchangedInv
<1>4. /\ o \in Operations /\ ops[o].linked /\ Settleable(o, c.version)
      /\ jobs[o].status = c.outcome /\ c.outcome \in Outcomes
  BY <1>1 DEF ReceiptHolds, MaySettle, Receipt
<1>5. ops' = Settled(o, c.outcome) /\ receipts' = (receipts \ {c}) \cup {d}
  BY <1>4 DEF ReportSettle
<1>6. ops \in [Operations -> Operation]
  BY DEF DispatchTypeOK
<1>7. /\ ops'[o].status = c.outcome /\ ops'[o].linked
      /\ \A k \in Operations : k # o => ops'[k] = ops[k]
      /\ ops' \in [Operations -> Operation]
  BY <1>4, <1>5, <1>6 DEF Settled, Operation, OpStatus, Outcomes
<1>8. /\ d \in Receipt /\ d.job = o /\ d.attempt = c.attempt /\ d.outcome = c.outcome
      /\ d.pc = "observe"
  BY DEF Receipt
<1>9. \A e \in receipts' : (e \in receipts /\ e # c /\ e.job # o) \/ e = d
  BY <1>5 DEF OneHandlerPerVerdict
<1>t. DispatchTypeOK'
  <2>1. receipts' \in SUBSET Receipt
    BY <1>8, <1>9
  <2> QED
    BY <1>1, <1>3, <1>7, <2>1 DEF DispatchTypeOK, QueueInv
<1>o. ASSUME NEW k \in Operations PROVE OperationHolds(k)'
  <2>1. CASE k = o
    BY <1>1, <1>4, <1>7, <2>1 DEF OperationHolds, Outcomes
  <2>2. CASE k # o
    BY <1>1, <1>2, <1>7, <2>2, OperationCarried DEF RowsKept
  <2> QED
    BY <2>1, <2>2
<1>r. ASSUME NEW e \in receipts' PROVE ReceiptHolds(e)'
  <2>1. CASE e \in receipts /\ e # c /\ e.job # o
    <3>1. e.pc = "settle" => ops'[e.job] = ops[e.job]
      BY <1>7, <2>1 DEF ReceiptHolds, MaySettle
    <3> QED
      BY <1>2, <2>1, <3>1, ReceiptCarried DEF RowsKept
  <2>2. CASE e = d
    BY <1>1, <1>8, <2>2 DEF ReceiptHolds
  <2> QED
    BY <1>9, <2>1, <2>2
<1>p. ASSUME NEW a \in Agents PROVE PollHolds(a)'
  <2>1. o \notin polls[a].todo
    BY DEF OneHandlerPerVerdict
  <2>2. polls[a].found # NoOperation => ops'[polls[a].found] = ops[polls[a].found]
    BY <1>7, <2>1 DEF PollHolds, MaySettle
  <2> QED
    BY <1>1, <1>2, <2>2, PollCarried DEF RowsKept
<1>h. OneHandlerPerVerdict'
  <2>1. \A e \in receipts' : \E f \in receipts : e.job = f.job
    BY <1>8, <1>9
  <2>2. \A e, f \in receipts : e.job = f.job => e = f
    BY DEF OneHandlerPerVerdict
  <2>3. \A e, f \in receipts' : e.job = f.job => e = f
    BY <1>8, <1>9, <2>2
  <2> QED
    BY <1>1, <2>1, <2>3, HandlersCarried
<1> QED
  BY <1>1, <1>2, <1>3, <1>t, <1>o, <1>r, <1>p, <1>h DEF DispatchInv, RowsKept

-----------------------------------------------------------------------------
(* Time, crashes, and the whole. *)

\* Time passes.
LEMMA PassTimePreserves ==
  ASSUME DispatchInv, PassTime
  PROVE  DispatchInv'
<1> USE InvFacts
<1>1. /\ now' = now + 1 /\ jobs' = jobs /\ leases' = leases /\ reports' = reports
      /\ ops' = ops /\ requests' = requests /\ polls' = polls /\ receipts' = receipts
      /\ observed' = observed
  BY DEF PassTime, Tick, opVars
<1>2. RowsKept /\ NoneArises /\ now' \in Nat /\ now <= now'
  BY <1>1, RowsUntouched
<1>3. QueueInv'
  BY <1>1, <1>2, RowsUnchangedInv
<1>t. DispatchTypeOK'
  BY <1>1, <1>3 DEF DispatchTypeOK, QueueInv
<1>o. ASSUME NEW o \in Operations PROVE OperationHolds(o)'
  BY <1>1, <1>2, OperationCarried DEF RowsKept
<1>r. ASSUME NEW c \in receipts PROVE ReceiptHolds(c)'
  BY <1>1, <1>2, ReceiptCarried DEF RowsKept
<1>p. ASSUME NEW a \in Agents PROVE PollHolds(a)'
  BY <1>1, <1>2, PollCarried DEF RowsKept
<1>h. OneHandlerPerVerdict'
  BY <1>1 DEF OneHandlerPerVerdict
<1> QED
  BY <1>1, <1>2, <1>3, <1>t, <1>o, <1>r, <1>p, <1>h DEF DispatchInv, RowsKept

\* A crash loses every handler and no row.
LEMMA CrashPreserves ==
  ASSUME DispatchInv, Crash
  PROVE  DispatchInv'
<1> USE InvFacts
<1>1. /\ now' = now /\ jobs' = jobs /\ leases' = leases /\ reports' = {}
      /\ ops' = ops /\ requests' = [o \in Operations |-> "idle"]
      /\ polls' = [a \in Agents |-> NoPoll] /\ receipts' = {} /\ observed' = observed
  BY DEF Crash
<1>2. RowsKept /\ NoneArises
  BY <1>1, RowsUntouched
<1>3. QueueInv'
  BY <1>1, RowsUnchangedInv
<1>4. /\ NoPoll \in Poll /\ NoPoll.todo = {} /\ NoPoll.found = NoOperation
      /\ NoPoll.clock = 0 /\ NoPoll.pc = "idle"
  BY DEF NoPoll, Poll
<1>t. DispatchTypeOK'
  BY <1>1, <1>3, <1>4 DEF DispatchTypeOK, QueueInv, Requests
<1>o. ASSUME NEW o \in Operations PROVE OperationHolds(o)'
  BY <1>1, <1>2, OperationCarried DEF RowsKept
<1>p. ASSUME NEW a \in Agents PROVE PollHolds(a)'
  BY <1>1, <1>4 DEF PollHolds
<1>h. OneHandlerPerVerdict'
  BY <1>1, <1>4 DEF OneHandlerPerVerdict
<1> QED
  BY <1>1, <1>2, <1>3, <1>t, <1>o, <1>p, <1>h DEF DispatchInv, RowsKept

\* Nothing is accepted, nothing is being handled.
LEMMA DispatchInitInv == DispatchInit => DispatchInv
<1> SUFFICES ASSUME DispatchInit PROVE DispatchInv
  OBVIOUS
<1>1. QueueInv
  BY QueueInitInv DEF DispatchInit
<1>2. /\ now = 0 /\ jobs = [j \in Jobs |-> NoJob]
      /\ leases = [j \in Jobs |-> [n \in Attempts |-> NoLease]]
      /\ ops = [o \in Operations |-> [status |-> "none", linked |-> FALSE, version |-> 0]]
      /\ requests = [o \in Operations |-> "idle"]
      /\ polls = [a \in Agents |-> NoPoll] /\ receipts = {}
      /\ observed = [a \in Agents |-> NoOperation]
  BY DEF DispatchInit, QueueInit
<1>3. /\ NoPoll \in Poll /\ NoPoll.todo = {} /\ NoPoll.found = NoOperation
      /\ NoPoll.clock = 0 /\ NoPoll.pc = "idle"
  BY DEF NoPoll, Poll
<1>4. DispatchTypeOK
  BY <1>1, <1>2, <1>3 DEF DispatchTypeOK, QueueInv, Requests, Operation, OpStatus
<1>5. SettledIsLast
  BY <1>2 DEF SettledIsLast, NoLease, Outcomes
<1>6. \A o \in Operations : OperationHolds(o)
  BY <1>2, OperationsAssumption DEF OperationHolds, NoJob, Outcomes
<1>7. \A a \in Agents : PollHolds(a)
  BY <1>2, <1>3 DEF PollHolds
<1>8. OneHandlerPerVerdict
  BY <1>2, <1>3 DEF OneHandlerPerVerdict
<1> QED
  BY <1>1, <1>2, <1>4, <1>5, <1>6, <1>7, <1>8 DEF DispatchInv

\* Every step of every handler preserves the invariant.
LEMMA DispatchNextInv == DispatchInv /\ [DispatchNext]_vars => DispatchInv'
<1> SUFFICES ASSUME DispatchInv, [DispatchNext]_vars PROVE DispatchInv'
  OBVIOUS
<1> USE InvFacts
<1>q. QueueInv'
  BY QueueStep, QueueNextInv
<1>1. ASSUME NEW o \in Operations, Request(o) PROVE DispatchInv'
  <2>1. CASE AcceptOperation(o)
    BY <1>q, <2>1, AcceptPreserves
  <2>2. CASE EnqueueOperation(o)
    <3>1. /\ requests[o] = "accepted" /\ Enqueue(o, now) /\ o \in Jobs
          /\ requests' = [requests EXCEPT ![o] = "enqueued"]
          /\ ops' = ops /\ polls' = polls /\ receipts' = receipts /\ observed' = observed
      BY <2>2 DEF EnqueueOperation
    <3>2. requests \in [Operations -> Requests]
      BY DEF DispatchTypeOK
    <3>3. /\ requests' \in [Operations -> Requests]
          /\ \A k \in Operations : requests'[k] = "idle" \/ requests[k] # "idle"
      BY <3>1, <3>2 DEF Requests
    <3>4. ops[o].status # "none"
      BY <3>1 DEF OperationHolds
    <3> QED
      BY <1>q, <3>1, <3>3, <3>4, EnqueuePreserves
  <2>3. CASE MarkRunning(o)
    BY <1>q, <2>3, MarkRunningPreserves
  <2> QED
    BY <1>1, <2>1, <2>2, <2>3 DEF Request
<1>2. ASSUME NEW j \in Jobs, EnqueuePlain(j) PROVE DispatchInv'
  <2>1. /\ Enqueue(j, now) /\ j \notin Operations
        /\ ops' = ops /\ requests' = requests /\ polls' = polls /\ receipts' = receipts
        /\ observed' = observed
    BY <1>2 DEF EnqueuePlain, opVars
  <2>2. requests' \in [Operations -> Requests]
    BY <2>1 DEF DispatchTypeOK
  <2> QED
    BY <1>q, <2>1, <2>2, EnqueuePreserves
<1>3. ASSUME NEW a \in Agents, PollStep(a) PROVE DispatchInv'
  BY <1>3, <1>q, PollReclaimPreserves, PollFindPreserves, PollSettlePreserves,
     PollReadyPreserves, PollLeasePreserves DEF PollStep
<1>4. ASSUME NEW a \in Agents, NEW j \in Jobs, NEW n \in Attempts, NEW outcome \in Outcomes,
             NEW t \in 0 .. now, ReportSettleLease(a, j, n, outcome, t)
      PROVE  DispatchInv'
  <2>1. t \in Nat
    OBVIOUS
  <2> QED
    BY <1>4, <1>q, <2>1, ReportSettleLeasePreserves
<1>5. CASE ReportStep
  <2>1. ASSUME NEW r \in reports, ReportCloseJob(r) PROVE DispatchInv'
    BY <1>q, <2>1, ReportCloseJobPreserves
  <2>2. ASSUME NEW c \in receipts, ReportFind(c) \/ ReportSettle(c) \/ ReportObserve(c)
        PROVE  DispatchInv'
    BY <2>2, ReportFindPreserves, ReportSettlePreserves, ReportObservePreserves
  <2> QED
    BY <1>5, <2>1, <2>2 DEF ReportStep
<1>6. CASE PassTime
  BY <1>6, PassTimePreserves
<1>7. CASE Crash
  BY <1>7, CrashPreserves
<1>8. CASE UNCHANGED vars
  <2>1. /\ now' = now /\ jobs' = jobs /\ leases' = leases /\ reports' = reports
        /\ ops' = ops /\ requests' = requests /\ polls' = polls /\ receipts' = receipts
        /\ observed' = observed
    BY <1>8 DEF vars, queueVars, opVars
  <2>2. DispatchTypeOK' /\ SettledIsLast' /\ OneHandlerPerVerdict'
    BY <1>q, <2>1 DEF DispatchTypeOK, QueueInv, SettledIsLast, OneHandlerPerVerdict
  <2>3. \A o \in Operations : OperationHolds(o)'
    BY <2>1 DEF OperationHolds
  <2>4. \A c \in receipts' : ReceiptHolds(c)'
    BY <2>1 DEF ReceiptHolds, MaySettle, Settleable
  <2>5. \A a \in Agents : PollHolds(a)'
    BY <2>1 DEF PollHolds, MaySettle, Settleable
  <2> QED
    BY <1>q, <2>2, <2>3, <2>4, <2>5 DEF DispatchInv
<1> QED
  BY <1>1, <1>2, <1>3, <1>4, <1>5, <1>6, <1>7, <1>8 DEF DispatchNext

-----------------------------------------------------------------------------
(* The operation ledger. *)

\* The ledger changes its phases with the operations only.
LEMMA PhaseKept ==
  ASSUME ops' = ops
  PROVE  LedgerPhase' = LedgerPhase
BY DEF LedgerPhase

\* And its work done with the leases only.
LEMMA DoneKept ==
  ASSUME SuccessKept
  PROVE  LedgerDone' = LedgerDone
BY OperationsAssumption DEF SuccessKept, LedgerDone

\* What the ledger sees of an operation.
LEMMA PhaseOf ==
  ASSUME DispatchInv, NEW o \in Operations
  PROVE  /\ LedgerPhase[o] = IF ops[o].status \in InFlightStatus THEN "inFlight"
                                                                 ELSE ops[o].status
         /\ LedgerPhase[o] = "inFlight" <=> ops[o].status \in InFlightStatus
         /\ o \in LedgerDone => jobs[o].status \notin {"absent", "queued"}
                                  /\ leases[o][jobs[o].attempt].state = "succeeded"
                                  /\ jobs[o].attempt \in Attempts
<1>1. ops[o].status \in OpStatus /\ o \in Jobs
  BY InvFacts DEF Operation
<1>2. ASSUME o \in LedgerDone
      PROVE  jobs[o].status \notin {"absent", "queued"}
               /\ leases[o][jobs[o].attempt].state = "succeeded"
               /\ jobs[o].attempt \in Attempts
  BY <1>1, <1>2, InvFacts DEF LedgerDone, SettledIsLast, Outcomes
<1> QED
  BY <1>1, <1>2 DEF LedgerPhase, OpStatus, InFlightStatus

\* An operation that is settled with the verdict of its finished job is one
\* the ledger decides.
LEMMA SettlementDecides ==
  ASSUME DispatchInv, NEW o \in Operations, NEW outcome \in Outcomes,
         ops[o].status \in InFlightStatus, ops' = Settled(o, outcome), leases' = leases,
         jobs[o].status = outcome, jobs[o].attempt \in Attempts,
         leases[o][jobs[o].attempt].state # "none"
  PROVE  Ledger!Decide(o)
<1>1. o \in Jobs /\ jobs[o].attempt \in Nat /\ ops \in [Operations -> Operation]
  BY InvFacts DEF QueueTypeOK, Job, DispatchTypeOK
<1>2. o \in LedgerDone <=> outcome = "succeeded"
  <2>1. o \in LedgerDone => outcome = "succeeded"
    BY <1>1, PhaseOf, InvFacts DEF QueueInv, VerdictFromLastLease
  <2>2. ASSUME outcome = "succeeded" PROVE o \in LedgerDone
    BY <1>1, <2>2, InvFacts DEF QueueInv, VerdictFromLastLease, LedgerDone
  <2> QED
    BY <2>1, <2>2
<1>3. LedgerPhase' = [LedgerPhase EXCEPT ![o] = IF o \in LedgerDone THEN "succeeded" ELSE "failed"]
  <2>1. /\ ops'[o].status = outcome
        /\ \A k \in Operations : k # o => ops'[k] = ops[k]
    BY <1>1 DEF Settled, Operation
  <2>2. outcome \notin InFlightStatus
    BY DEF Outcomes, InFlightStatus
  <2> QED
    BY <1>2, <2>1, <2>2 DEF LedgerPhase, Outcomes
<1>4. LedgerDone' = LedgerDone
  BY DoneKept DEF SuccessKept
<1> QED
  BY <1>3, <1>4, PhaseOf DEF Ledger!Decide

\* Every step is a step of the ledger, or leaves what it sees alone.
LEMMA LedgerStep ==
  ASSUME DispatchInv, [DispatchNext]_vars
  PROVE  [Ledger!LedgerNext]_(Ledger!ledgerVars)
<1> USE InvFacts
<1> DEFINE Same == LedgerPhase' = LedgerPhase /\ LedgerDone' = LedgerDone
<1>s. Same => [Ledger!LedgerNext]_(Ledger!ledgerVars)
  BY DEF Ledger!ledgerVars
<1>u. leases' = leases => LedgerDone' = LedgerDone
  BY DoneKept DEF SuccessKept
<1> HIDE DEF Same
<1>1. ASSUME NEW o \in Operations, AcceptOperation(o) PROVE Ledger!Open(o)
  <2>1. /\ ops[o].status = "none" /\ InFlight(ServerOf[o]) = {}
        /\ ops' = [ops EXCEPT ![o].status = "accepted", ![o].version = 1]
        /\ leases' = leases
    BY <1>1 DEF AcceptOperation, queueVars
  <2>2. ops \in [Operations -> Operation]
    BY DEF DispatchTypeOK
  <2>3. ops'[o].status = "accepted" /\ \A k \in Operations : k # o => ops'[k] = ops[k]
    BY <2>1, <2>2 DEF Operation
  <2>4. LedgerPhase' = [LedgerPhase EXCEPT ![o] = "inFlight"]
    BY <2>3 DEF LedgerPhase, InFlightStatus
  <2>5. LedgerPhase[o] = "none"
    BY <2>1, PhaseOf DEF InFlightStatus
  <2>6. Ledger!InFlight(ServerOf[o]) = {}
    BY <2>1, PhaseOf DEF Ledger!InFlight, InFlight
  <2> QED
    BY <1>u, <2>1, <2>4, <2>5, <2>6 DEF Ledger!Open
<1>2. ASSUME NEW j \in Jobs, Enqueue(j, now), ops' = ops PROVE Same
  <2>1. leases' = leases
    BY <1>2 DEF Enqueue
  <2> QED
    BY <1>2, <1>u, <2>1, PhaseKept DEF Same
<1>3. ASSUME NEW o \in Operations, MarkRunning(o) PROVE Same
  <2>1. leases' = leases /\ ops \in [Operations -> Operation]
    BY <1>3 DEF MarkRunning, queueVars, DispatchTypeOK
  <2>2. \A k \in Operations : \/ ops'[k] = ops[k]
                              \/ ops[k].status = "accepted" /\ ops'[k].status = "running"
    BY <1>3, <2>1 DEF MarkRunning, Operation
  <2>3. LedgerPhase' = LedgerPhase
    BY <2>2 DEF LedgerPhase, InFlightStatus
  <2> QED
    BY <1>u, <2>1, <2>3 DEF Same
<1>4. ASSUME NEW a \in Agents, PollReclaim(a) PROVE Same
  <2>1. ops' = ops
    BY <1>4 DEF PollReclaim
  <2>2. CASE ExpiredJobs(now) # {}
    <3>1. SuccessKept
      BY <1>4, <2>2, ReclaimRows DEF PollReclaim
    <3> QED
      BY <2>1, <3>1, PhaseKept, DoneKept DEF Same
  <2>3. CASE ExpiredJobs(now) = {}
    BY <1>4, <1>u, <2>1, <2>3, PhaseKept DEF PollReclaim, queueVars, Same
  <2> QED
    BY <2>2, <2>3
<1>5. ASSUME NEW a \in Agents, PollSettle(a) PROVE \E o \in Operations : Ledger!Decide(o)
  <2> DEFINE o == polls[a].found
  <2>1. /\ o # NoOperation /\ leases' = leases
    BY <1>5 DEF PollSettle, queueVars
  <2>2. /\ o \in Operations /\ Settleable(o, polls[a].version) /\ o \in polls[a].todo
    BY <2>1 DEF PollHolds, MaySettle
  <2>3. ops' = Settled(o, "failed")
    BY <1>5, <2>1, <2>2 DEF PollSettle
  <2>4. /\ jobs[o].status = "failed" /\ jobs[o].attempt \in Attempts
        /\ leases[o][jobs[o].attempt].state # "none" /\ "failed" \in Outcomes
    BY <2>2 DEF PollHolds, Outcomes
  <2>5. Ledger!Decide(o)
    BY <2>1, <2>2, <2>3, <2>4, SettlementDecides DEF Settleable
  <2> QED
    BY <2>2, <2>5
<1>6. ASSUME NEW a \in Agents, NEW chosen \in SUBSET Jobs, PollLease(a, chosen) PROVE Same
  <2>1. ops' = ops
    BY <1>6 DEF PollLease
  <2>2. CASE chosen # {}
    <3>1. ClaimWork(a, chosen, polls[a].clock) /\ polls[a].clock \in Nat
      BY <1>6, <2>2 DEF PollLease, Poll
    <3>2. SuccessKept
      BY <3>1, ClaimRows
    <3> QED
      BY <2>1, <3>2, PhaseKept, DoneKept DEF Same
  <2>3. CASE chosen = {}
    BY <1>6, <1>u, <2>1, <2>3, PhaseKept DEF PollLease, queueVars, Same
  <2> QED
    BY <2>2, <2>3
<1>7. ASSUME NEW a \in Agents, NEW j \in Jobs, NEW n \in Attempts, NEW outcome \in Outcomes,
             NEW t \in 0 .. now, ReportSettleLease(a, j, n, outcome, t)
      PROVE  Same \/ \E o \in Operations : Ledger!Perform(o)
  <2>1. t \in Nat /\ SettleLease(a, j, n, outcome, t) /\ ops' = ops
    BY <1>7 DEF ReportSettleLease, opVars
  <2>2. /\ leases[j][n].state = "open"
        /\ jobs[j].status = "running" /\ jobs[j].attempt = n
        /\ \A k \in Jobs, m \in Attempts :
             leases'[k][m].state = IF k = j /\ m = n THEN outcome ELSE leases[k][m].state
    <3>1. leases[j][n].state = "open"
      BY <2>1 DEF SettleLease
    <3>2. QueueInv /\ SettledIsLast
      OBVIOUS
    <3> HIDE InvFacts
    <3> QED
      BY <2>1, <3>1, <3>2, SettleRows
  <2>3. LedgerPhase' = LedgerPhase
    BY <2>1, PhaseKept
  <2>4. CASE outcome = "succeeded" /\ j \in Operations
    <3>1. j \notin LedgerDone
      BY <2>2, <2>4, PhaseOf
    <3>2. LedgerDone' = LedgerDone \cup {j}
      BY <2>2, <2>4 DEF LedgerDone
    <3>3. LedgerPhase[j] = "inFlight"
      <4>1. ops[j].status \in OpStatus /\ ops[j].status # "none" /\ ops[j].status \notin Outcomes
        BY <2>2, <2>4, Unfinished DEF OperationHolds, Operation
      <4> QED
        BY <2>4, <4>1, PhaseOf DEF OpStatus, Outcomes, InFlightStatus
    <3> QED
      BY <2>3, <2>4, <3>1, <3>2, <3>3 DEF Ledger!Perform
  <2>5. CASE outcome # "succeeded"
    <3>1. SuccessKept
      BY <2>2, <2>5 DEF SuccessKept
    <3> QED
      BY <2>3, <3>1, DoneKept DEF Same
  <2>6. CASE j \notin Operations
    <3>1. LedgerDone' = LedgerDone
      BY <2>2, <2>6 DEF LedgerDone
    <3> QED
      BY <2>3, <3>1 DEF Same
  <2> QED
    BY <2>4, <2>5, <2>6
<1>8. ASSUME NEW r \in reports, ReportCloseJob(r) PROVE Same
  <2>1. leases' = leases /\ ops' = ops
    BY <1>8 DEF ReportCloseJob, CloseJob
  <2> QED
    BY <1>u, <2>1, PhaseKept DEF Same
<1>9. ASSUME NEW c \in receipts, ReportSettle(c) PROVE \E o \in Operations : Ledger!Decide(o)
  <2>1. c.pc = "settle" /\ leases' = leases
    BY <1>9 DEF ReportSettle, queueVars
  <2>2. /\ c.job \in Operations /\ Settleable(c.job, c.version)
        /\ jobs[c.job].status = c.outcome /\ jobs[c.job].attempt = c.attempt
        /\ leases[c.job][c.attempt].state = c.outcome
        /\ c.attempt \in Attempts /\ c.outcome \in Outcomes
    BY <2>1 DEF ReceiptHolds, MaySettle, Receipt
  <2>3. ops' = Settled(c.job, c.outcome)
    BY <1>9, <2>2 DEF ReportSettle
  <2>4. leases[c.job][jobs[c.job].attempt].state # "none"
    BY <2>2, Unfinished
  <2>5. Ledger!Decide(c.job)
    BY <2>1, <2>2, <2>3, <2>4, SettlementDecides DEF Settleable
  <2> QED
    BY <2>2, <2>5
<1>10. ASSUME leases' = leases, ops' = ops PROVE Same
  BY <1>10, <1>u, PhaseKept DEF Same
<1>11. ASSUME DispatchNext PROVE Same \/ Ledger!LedgerNext
  <2>1. ASSUME NEW o \in Operations, Request(o) PROVE Same \/ Ledger!LedgerNext
    BY <1>1, <1>2, <1>3, <2>1 DEF Request, EnqueueOperation, Ledger!LedgerNext
  <2>2. ASSUME NEW j \in Jobs, EnqueuePlain(j) PROVE Same
    BY <1>2, <2>2 DEF EnqueuePlain, opVars
  <2>3. ASSUME NEW a \in Agents, PollStep(a) PROVE Same \/ Ledger!LedgerNext
    <3>1. CASE PollReclaim(a)
      BY <1>4, <3>1
    <3>2. CASE \E j \in Jobs : PollFind(a, j)
      BY <1>10, <3>2 DEF PollFind, queueVars
    <3>3. CASE PollSettle(a)
      BY <1>5, <3>3 DEF Ledger!LedgerNext
    <3>4. CASE PollReady(a)
      BY <1>10, <3>4 DEF PollReady, queueVars
    <3>5. CASE \E chosen \in SUBSET Jobs : PollLease(a, chosen)
      BY <1>6, <3>5
    <3> QED
      BY <2>3, <3>1, <3>2, <3>3, <3>4, <3>5 DEF PollStep
  <2>4. ASSUME NEW a \in Agents, NEW j \in Jobs, NEW n \in Attempts, NEW outcome \in Outcomes,
               NEW t \in 0 .. now, ReportSettleLease(a, j, n, outcome, t)
        PROVE  Same \/ Ledger!LedgerNext
    BY <1>7, <2>4 DEF Ledger!LedgerNext
  <2>5. CASE ReportStep
    <3>1. ASSUME NEW c \in receipts, ReportFind(c) \/ ReportObserve(c) PROVE Same
      BY <1>10, <3>1 DEF ReportFind, ReportObserve, queueVars
    <3> QED
      BY <1>8, <1>9, <2>5, <3>1 DEF ReportStep, Ledger!LedgerNext
  <2>6. CASE PassTime \/ Crash
    BY <1>10, <2>6 DEF PassTime, Tick, Crash, opVars
  <2> QED
    BY <1>11, <2>1, <2>2, <2>3, <2>4, <2>5, <2>6 DEF DispatchNext
<1>12. CASE UNCHANGED vars
  BY <1>10, <1>12, <1>s DEF vars, queueVars, opVars
<1> QED
  BY <1>s, <1>11, <1>12

-----------------------------------------------------------------------------

\* Every reachable state of the handlers satisfies the invariant.
THEOREM DispatchInvariant == DispatchSpec => []DispatchInv
<1> QED
  BY DispatchInitInv, DispatchNextInv, PTL DEF DispatchSpec

\* Rows and handlers keep their types.
THEOREM DispatchTypeCorrect == DispatchSpec => []DispatchTypeOK
<1>1. DispatchInv => DispatchTypeOK
  BY DEF DispatchInv
<1> QED
  BY <1>1, DispatchInvariant, PTL

\* An operation is decided only with the verdict of its own finished job.
THEOREM VerdictsMatchJobs == DispatchSpec => []OperationVerdictMatchesJob
<1>1. DispatchInv => OperationVerdictMatchesJob
  BY DEF DispatchInv, OperationHolds, OperationVerdictMatchesJob
<1> QED
  BY <1>1, DispatchInvariant, PTL

\* No settlement meets a version that moved since it was read.
THEOREM SettlementsNeverStale == DispatchSpec => []SettlementNeverStale
<1>1. DispatchInv => SettlementNeverStale
  BY DEF DispatchInv, ReceiptHolds, PollHolds, MaySettle, SettlementNeverStale
<1> QED
  BY <1>1, DispatchInvariant, PTL

\* No verdict is given twice: one handler at most speaks for a finished job.
THEOREM VerdictsHaveOneHandler == DispatchSpec => []OneHandlerPerVerdict
<1>1. DispatchInv => OneHandlerPerVerdict
  BY DEF DispatchInv
<1> QED
  BY <1>1, DispatchInvariant, PTL

\* The handlers run on the queue of WorkQueue, so what is proved of the queue
\* holds under them.
THEOREM DispatchRunsOnQueue == DispatchSpec => QueueSpec
<1>1. DispatchInit => QueueInit
  BY DEF DispatchInit
<1>2. DispatchInv /\ [DispatchNext]_vars => [QueueNext]_queueVars
  BY QueueStep
<1> QED
  BY <1>1, <1>2, DispatchInvariant, PTL DEF DispatchSpec, QueueSpec

\* So it is with work that is left behind: not under handlers that live.
THEOREM DispatchNeverStranded ==
  ASSUME ~ApiMayCrash
  PROVE  DispatchSpec => []NeverStranded
BY DispatchRunsOnQueue, JobsNeverStranded, PTL

\* Requests, polls, results and crashes implement the operation ledger: one
\* operation of a server in flight, decided once, and as succeeded exactly when
\* an agent reported its work done.
THEOREM DispatchImplementsLedger == DispatchSpec => ImplementsLedger
<1>1. DispatchInit => Ledger!LedgerInit
  <2> SUFFICES ASSUME DispatchInit PROVE Ledger!LedgerInit
    OBVIOUS
  <2>1. /\ leases = [j \in Jobs |-> [n \in Attempts |-> NoLease]]
        /\ ops = [o \in Operations |-> [status |-> "none", linked |-> FALSE, version |-> 0]]
    BY DEF DispatchInit, QueueInit
  <2>2. LedgerDone = {}
    BY <2>1, OperationsAssumption DEF LedgerDone, NoLease
  <2>3. LedgerPhase = [o \in Operations |-> "none"]
    BY <2>1 DEF LedgerPhase, InFlightStatus
  <2> QED
    BY <2>2, <2>3 DEF Ledger!LedgerInit
<1>2. DispatchInv /\ [DispatchNext]_vars => [Ledger!LedgerNext]_(Ledger!ledgerVars)
  BY LedgerStep
<1> QED
  BY <1>1, <1>2, DispatchInvariant, PTL DEF DispatchSpec, ImplementsLedger, Ledger!LedgerSpec

=============================================================================
