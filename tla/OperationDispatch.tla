-------------------------- MODULE OperationDispatch --------------------------
(***************************************************************************)
(* A server operation from the panel request to its verdict:               *)
(*   - the request that accepts the operation, enqueues its job and links  *)
(*     the two (acceptAndQueue in control-api/src/process-routes.ts, the   *)
(*     same sequence as in the backup and artifact routes and in           *)
(*     server-agent/src/schedule-executor.ts);                             *)
(*   - POST /agent/v1/work/claim, which reclaims expired leases, fails the *)
(*     operations of the jobs that ran out of attempts and leases work;    *)
(*   - POST /agent/v1/work/result, which settles the lease, closes the     *)
(*     job, settles the operation and publishes the observed state         *)
(*     (both in control-api/src/agent-work-routes.ts);                     *)
(*   - OperationRepository and ProcessStateRepository                      *)
(*     (packages/database/src/operational-repositories.ts).                *)
(*                                                                         *)
(* Handlers interleave at every await on the database; one action is one   *)
(* database call.  An operation is named by the job it is carried by, and  *)
(* a server by its agent (agents.server_instance_id is unique).            *)
(***************************************************************************)
EXTENDS WorkQueue

CONSTANTS
  Operations,     \* the jobs that carry a server operation
  ProcessControl, \* those accepted with acceptProcessControl
  ServerOf,       \* the server, that is the agent, of an operation
  NoOperation     \* absence of an operation

ASSUME OperationsAssumption ==
  /\ Operations \subseteq Jobs
  /\ ProcessControl \subseteq Operations
  /\ NoOperation \notin Jobs
  /\ ServerOf \in [Operations -> Agents]
  /\ \A who \in Owners, o \in Operations :
       <<who, o>> \in Serves => who = ServerOf[o]

VARIABLES
  ops,        \* server_operations table
  requests,   \* how far the panel request of each operation got
  polls,      \* the claim handler of each agent
  receipts,   \* result handlers whose job is closed
  observed    \* server_process_states: the job whose result published the
              \* current observation, NoOperation when it is stale

opVars == <<ops, requests, polls, receipts, observed>>
vars == <<queueVars, opVars>>

-----------------------------------------------------------------------------

OpStatus == {"none", "accepted", "running", "succeeded", "failed"}
InFlightStatus == {"accepted", "running"}

Operation == [status : OpStatus, linked : BOOLEAN, version : Nat]
Requests == {"idle", "accepted", "enqueued"}
Poll == [pc : {"idle", "settling", "leasing"}, clock : Nat, todo : SUBSET Jobs,
         found : Operations \cup {NoOperation}, version : Nat]
Receipt == [job : Jobs, attempt : Attempts, agent : Agents, outcome : Outcomes,
            pc : {"find", "settle", "observe"}, version : Nat]

NoPoll == [pc |-> "idle", clock |-> 0, todo |-> {}, found |-> NoOperation, version |-> 0]

DispatchTypeOK ==
  /\ QueueTypeOK
  /\ ops \in [Operations -> Operation]
  /\ requests \in [Operations -> Requests]
  /\ polls \in [Agents -> Poll]
  /\ receipts \in SUBSET Receipt
  /\ observed \in [Agents -> Jobs \cup {NoOperation}]

DispatchInit ==
  /\ QueueInit
  /\ ops = [o \in Operations |-> [status |-> "none", linked |-> FALSE, version |-> 0]]
  /\ requests = [o \in Operations |-> "idle"]
  /\ polls = [a \in Agents |-> NoPoll]
  /\ receipts = {}
  /\ observed = [a \in Agents |-> NoOperation]

InFlight(s) == {o \in Operations : ServerOf[o] = s /\ ops[o].status \in InFlightStatus}

\* Mutant: an operation is found before its job is linked.
FindableUnlinked(j) == j \in Operations /\ ops[j].status \in InFlightStatus

\* findByJobId sees an operation only once its job_id is written, and both
\* callers go on only when it is still in flight.
Findable(j) == j \in Operations /\ ops[j].linked /\ ops[j].status \in InFlightStatus

\* OperationRepository.settle, with the version its caller read: a version that
\* moved or a status that is final throws and changes nothing.
Settleable(o, version) ==
  /\ ops[o].version = version
  /\ ops[o].status \in InFlightStatus

Settled(o, outcome) ==
  [ops EXCEPT ![o].status = outcome, ![o].version = @ + 1]

-----------------------------------------------------------------------------
(* The panel request: three database calls. *)

Withdrawn(o) ==
  IF o \in ProcessControl THEN [observed EXCEPT ![ServerOf[o]] = NoOperation] ELSE observed

\* Mutant: the check for an operation in flight is lost.
AcceptAnyOperation(o) ==
  /\ ops[o].status = "none"
  /\ ops' = [ops EXCEPT ![o].status = "accepted", ![o].version = 1]
  /\ requests' = [requests EXCEPT ![o] = "accepted"]
  /\ observed' = Withdrawn(o)
  /\ UNCHANGED <<queueVars, polls, receipts>>

\* A second operation for the server is refused while one is in flight; an
\* accepted process control withdraws the observation of the previous state.
AcceptOperation(o) ==
  /\ ops[o].status = "none"
  /\ InFlight(ServerOf[o]) = {}
  /\ ops' = [ops EXCEPT ![o].status = "accepted", ![o].version = 1]
  /\ requests' = [requests EXCEPT ![o] = "accepted"]
  /\ observed' = Withdrawn(o)
  /\ UNCHANGED <<queueVars, polls, receipts>>

EnqueueOperation(o) ==
  /\ requests[o] = "accepted"
  /\ Enqueue(o, now)
  /\ requests' = [requests EXCEPT ![o] = "enqueued"]
  /\ UNCHANGED <<ops, polls, receipts, observed>>

MarkRunning(o) ==
  /\ requests[o] = "enqueued"
  /\ requests' = [requests EXCEPT ![o] = "idle"]
  /\ ops' = IF ops[o].version = 1 /\ ops[o].status = "accepted"
            THEN [ops EXCEPT ![o].status = "running", ![o].linked = TRUE, ![o].version = 2]
            ELSE ops
  /\ UNCHANGED <<queueVars, polls, receipts, observed>>

\* A job without an operation, such as a datapack observation.
EnqueuePlain(j) ==
  /\ j \notin Operations
  /\ Enqueue(j, now)
  /\ UNCHANGED opVars

-----------------------------------------------------------------------------
(* POST /agent/v1/work/claim *)

\* Mutant: the operations of the jobs that were given up are not settled.
PollReclaimJobsOnly(a) ==
  /\ polls[a].pc = "idle"
  /\ polls' = [polls EXCEPT ![a] = [NoPoll EXCEPT !.pc = "settling", !.clock = now]]
  /\ IF ExpiredJobs(now) # {} THEN ReclaimExpiredLeases(now) ELSE UNCHANGED queueVars
  /\ UNCHANGED <<ops, requests, receipts, observed>>

PollReclaim(a) ==
  /\ polls[a].pc = "idle"
  /\ polls' = [polls EXCEPT ![a] = [NoPoll EXCEPT !.pc = "settling", !.clock = now,
                                                  !.todo = Exhausted(now)]]
  /\ IF ExpiredJobs(now) # {} THEN ReclaimExpiredLeases(now) ELSE UNCHANGED queueVars
  /\ UNCHANGED <<ops, requests, receipts, observed>>

\* findByJobId of one stranded job.
PollFind(a, j) ==
  /\ polls[a].pc = "settling"
  /\ polls[a].found = NoOperation
  /\ j \in polls[a].todo
  /\ polls' = IF Findable(j)
              THEN [polls EXCEPT ![a].found = j, ![a].version = ops[j].version]
              ELSE [polls EXCEPT ![a].todo = @ \ {j}]
  /\ UNCHANGED <<queueVars, ops, requests, receipts, observed>>

\* settle of the operation just found; a refusal aborts the whole claim.
PollSettle(a) ==
  /\ polls[a].pc = "settling"
  /\ polls[a].found # NoOperation
  /\ LET o == polls[a].found
     IN  IF Settleable(o, polls[a].version)
         THEN /\ ops' = Settled(o, "failed")
              /\ polls' = [polls EXCEPT ![a].todo = @ \ {o},
                                        ![a].found = NoOperation, ![a].version = 0]
         ELSE /\ polls' = [polls EXCEPT ![a] = NoPoll]
              /\ UNCHANGED ops
  /\ UNCHANGED <<queueVars, requests, receipts, observed>>

PollReady(a) ==
  /\ polls[a].pc = "settling"
  /\ polls[a].todo = {}
  /\ polls' = [polls EXCEPT ![a].pc = "leasing"]
  /\ UNCHANGED <<queueVars, ops, requests, receipts, observed>>

\* claimWork with the clock the handler started with, or an idle answer.
PollLease(a, chosen) ==
  /\ polls[a].pc = "leasing"
  /\ polls' = [polls EXCEPT ![a] = NoPoll]
  /\ IF chosen = {} THEN UNCHANGED queueVars ELSE ClaimWork(a, chosen, polls[a].clock)
  /\ UNCHANGED <<ops, requests, receipts, observed>>

-----------------------------------------------------------------------------
(* POST /agent/v1/work/result *)

ReportSettleLease(a, j, n, outcome, t) ==
  /\ SettleLease(a, j, n, outcome, t)
  /\ UNCHANGED opVars

ReportCloseJob(r) ==
  /\ CloseJob(r)
  /\ receipts' = receipts \cup
       {[job |-> r.job, attempt |-> r.attempt, agent |-> r.agent, outcome |-> r.outcome,
         pc |-> "find", version |-> 0]}
  /\ UNCHANGED <<ops, requests, polls, observed>>

\* An operation that is absent or already settled is skipped.
ReportFind(c) ==
  /\ c \in receipts
  /\ c.pc = "find"
  /\ receipts' = (receipts \ {c}) \cup
       {IF Findable(c.job)
        THEN [c EXCEPT !.pc = "settle", !.version = ops[c.job].version]
        ELSE [c EXCEPT !.pc = "observe"]}
  /\ UNCHANGED <<queueVars, ops, requests, polls, observed>>

\* Mutant: the reported outcome is not looked at.
ReportSettleSucceeded(c) ==
  /\ c \in receipts
  /\ c.pc = "settle"
  /\ ops' = Settled(c.job, "succeeded")
  /\ receipts' = (receipts \ {c}) \cup {[c EXCEPT !.pc = "observe", !.version = 0]}
  /\ UNCHANGED <<queueVars, requests, polls, observed>>

\* A refused settle throws, and the observation is not published.
ReportSettle(c) ==
  /\ c \in receipts
  /\ c.pc = "settle"
  /\ IF Settleable(c.job, c.version)
     THEN /\ ops' = Settled(c.job, c.outcome)
          /\ receipts' = (receipts \ {c}) \cup {[c EXCEPT !.pc = "observe", !.version = 0]}
     ELSE /\ receipts' = receipts \ {c}
          /\ UNCHANGED ops
  /\ UNCHANGED <<queueVars, requests, polls, observed>>

\* The result may carry an observed lifecycle, and then replaces the state.
ReportObserve(c) ==
  /\ c \in receipts
  /\ c.pc = "observe"
  /\ receipts' = receipts \ {c}
  /\ \/ observed' = [observed EXCEPT ![c.agent] = c.job]
     \/ UNCHANGED observed
  /\ UNCHANGED <<queueVars, ops, requests, polls>>

-----------------------------------------------------------------------------

PassTime == Tick /\ UNCHANGED opVars

\* The control API dies: every handler in progress is lost.
Crash ==
  /\ ApiMayCrash
  /\ reports' = {}
  /\ receipts' = {}
  /\ requests' = [o \in Operations |-> "idle"]
  /\ polls' = [a \in Agents |-> NoPoll]
  /\ <<reports, receipts, requests, polls>>' # <<reports, receipts, requests, polls>>
  /\ UNCHANGED <<now, jobs, leases, ops, observed>>

Request(o) == AcceptOperation(o) \/ EnqueueOperation(o) \/ MarkRunning(o)

PollStep(a) ==
  \/ PollReclaim(a)
  \/ \E j \in Jobs : PollFind(a, j)
  \/ PollSettle(a)
  \/ PollReady(a)
  \/ \E chosen \in SUBSET Jobs : PollLease(a, chosen)

ReportStep ==
  \/ \E r \in reports : ReportCloseJob(r)
  \/ \E c \in receipts : ReportFind(c) \/ ReportSettle(c) \/ ReportObserve(c)

DispatchNext ==
  \/ \E o \in Operations : Request(o)
  \/ \E j \in Jobs : EnqueuePlain(j)
  \/ \E a \in Agents : PollStep(a)
  \/ \E a \in Agents, j \in Jobs, n \in Attempts, outcome \in Outcomes, t \in 0 .. now :
       ReportSettleLease(a, j, n, outcome, t)
  \/ ReportStep
  \/ PassTime
  \/ Crash

DispatchSpec == DispatchInit /\ [][DispatchNext]_vars

\* Handlers that started run on while the API lives, agents keep polling, and
\* time passes.  No agent has to report, and no job has to be claimed.
DispatchFairness ==
  /\ \A o \in Operations : WF_vars(EnqueueOperation(o) \/ MarkRunning(o))
  /\ \A a \in Agents : WF_vars(PollStep(a))
  /\ WF_vars(ReportStep)
  /\ WF_vars(PassTime)

FairDispatchSpec == DispatchSpec /\ DispatchFairness

-----------------------------------------------------------------------------

\* An operation is decided only with the verdict of its own finished job: no
\* settlement, of a result or of a reclaimed lease, runs ahead of the job or
\* contradicts it.
OperationVerdictMatchesJob ==
  \A o \in Operations :
    ops[o].status \in Outcomes => ops[o].linked /\ jobs[o].status = ops[o].status

\* The operation a handler found is still the version it read when the handler
\* settles it.  The two calls are separate transactions, a refused settle
\* throws, and the throw would answer an error to a claim that has already
\* reclaimed leases and drop the observation of a result.
SettlementNeverStale ==
  /\ \A c \in receipts : c.pc = "settle" => Settleable(c.job, c.version)
  /\ \A a \in Agents : polls[a].found # NoOperation
                         => Settleable(polls[a].found, polls[a].version)

\* Every settlement still to come has one handler: a job that ran out of
\* attempts is not also being reported, and no two handlers hold it.
OneHandlerPerVerdict ==
  /\ \A a \in Agents : \A j \in polls[a].todo :
       /\ \A c \in receipts : c.job # j
       /\ \A r \in reports : r.job # j
       /\ \A b \in Agents \ {a} : j \notin polls[b].todo
  /\ \A c, d \in receipts : c.job = d.job => c = d

\* The panel's view of the operations: the ledger sees an operation in flight
\* from its acceptance, and its work as done once the agent's lease is settled.
LedgerPhase ==
  [o \in Operations |-> IF ops[o].status \in InFlightStatus THEN "inFlight"
                                                            ELSE ops[o].status]
LedgerDone == {o \in Operations : \E n \in Attempts : leases[o][n].state = "succeeded"}

Ledger == INSTANCE OperationLedger WITH phase <- LedgerPhase, done <- LedgerDone

\* Requests, polls, results and crashes implement the operation ledger.
ImplementsLedger == Ledger!LedgerSpec

\* An operation an agent is working on, and whose request finished, is decided,
\* whether the agent reports or is never heard of again.
LinkedOperationSettles ==
  \A o \in Operations :
    (ops[o].linked /\ jobs[o].status = "running") ~> (ops[o].status \in Outcomes)

\* agent-work-routes.ts: the result closes the operation together with its job,
\* so a running operation whose job has ended is about to be settled.
NoOrphanedOperation ==
  \A o \in Operations :
    (ops[o].status = "running" /\ jobs[o].status \in Outcomes) =>
      \/ \E c \in receipts : c.job = o
      \/ \E a \in Agents : o \in polls[a].todo

=============================================================================
