--------------------------- MODULE AgentSupervisor ---------------------------
(***************************************************************************)
(* The supervisors of the server agents on the work queue: one cycle of    *)
(* AgentSupervisor.runOnce (apps/server-agent/src/supervisor.ts) claims a  *)
(* batch of leases, hands them to their handlers one after another and     *)
(* reports each result, over AgentWorkTransport (work-transport.ts), to    *)
(* the two routes of agent-work-routes.ts.                                 *)
(*                                                                         *)
(* A request or its answer may be lost, and a request may arrive after its *)
(* supervisor gave it up; a supervisor may die at any step and starts      *)
(* again with an empty memory.  What its handlers did stays.               *)
(***************************************************************************)
EXTENDS WorkQueue

VARIABLES
  supervisor,  \* what each supervisor holds in memory
  begun,       \* how many handlers were started under each lease
  done         \* what the handler of each lease came to

supervisorVars == <<now, jobs, leases, reports, supervisor, begun, done>>

NoWorkLease == <<>>
WorkLease == Jobs \X Attempts

\* batch: the leases of the claim still to be worked or reported; lease: the
\* one in hand; clock: the reading of the claim route.
Supervisor == [at : {"idle", "claim", "work", "handle", "report", "answer"},
               clock : Nat,
               batch : SUBSET WorkLease,
               lease : WorkLease \cup {NoWorkLease},
               result : Outcomes]

NoSupervisor == [at |-> "idle", clock |-> 0, batch |-> {},
                 lease |-> NoWorkLease, result |-> "failed"]

SupervisorTypeOK ==
  /\ QueueTypeOK
  /\ supervisor \in [Agents -> Supervisor]
  /\ begun \in [Jobs -> [Attempts -> Nat]]
  /\ done \in [Jobs -> [Attempts -> Outcomes \cup {"none"}]]

-----------------------------------------------------------------------------

Become(a, memory) == supervisor' = [supervisor EXCEPT ![a] = memory]

\* Mutant: a result that was not acknowledged is reported once more.
NextLeaseRetried(a) ==
  LET rest == supervisor[a].batch
  IN  Become(a, [NoSupervisor EXCEPT !.at = "work", !.batch = rest])

\* The next lease of the batch, or the next claim.
NextLease(a) ==
  LET rest == supervisor[a].batch \ {supervisor[a].lease}
  IN  IF rest = {} THEN Become(a, NoSupervisor)
      ELSE Become(a, [NoSupervisor EXCEPT !.at = "work", !.batch = rest])

\* The claim route first takes back every lease that expired at its clock.
Poll(a, t) ==
  /\ supervisor[a].at = "idle"
  /\ \/ ReclaimExpiredLeases(t)
     \/ ExpiredJobs(t) = {} /\ UNCHANGED queueVars
  /\ Become(a, [NoSupervisor EXCEPT !.at = "claim", !.clock = t])
  /\ UNCHANGED <<begun, done>>

\* The batch as it is leased, each job in the attempt just counted.
Granted(chosen) == {<<j, jobs[j].attempt + 1>> : j \in chosen}

Claim(a, chosen) ==
  /\ supervisor[a].at = "claim"
  /\ ClaimWork(a, chosen, supervisor[a].clock)
  /\ Become(a, [NoSupervisor EXCEPT !.at = "work", !.batch = Granted(chosen)])
  /\ UNCHANGED <<begun, done>>

\* The claim of a supervisor that does not wait for its answer any more, because
\* the request or the answer was lost or the supervisor died: the leases are
\* written and nobody knows of them.
LateClaim(a, chosen, t) ==
  /\ supervisor[a].at # "claim"
  /\ ClaimWork(a, chosen, t)
  /\ UNCHANGED <<supervisor, begun, done>>

\* There was no work, or the request was refused or lost: wait and poll again.
ClaimNothing(a) ==
  /\ supervisor[a].at = "claim"
  /\ Become(a, NoSupervisor)
  /\ UNCHANGED <<queueVars, begun, done>>

\* The leases are worked in the order of the answer, which no query states.
BeginHandler(a, l) ==
  /\ supervisor[a].at = "work"
  /\ l \in supervisor[a].batch
  /\ Become(a, [supervisor[a] EXCEPT !.at = "handle", !.lease = l])
  /\ begun' = [begun EXCEPT ![l[1]][l[2]] = @ + 1]
  /\ UNCHANGED <<queueVars, done>>

\* Mutant: the failure of a handler is swallowed and reported as a success.
EndHandlerSwallowed(a, outcome) ==
  LET l == supervisor[a].lease
  IN  /\ supervisor[a].at = "handle"
      /\ Become(a, [supervisor[a] EXCEPT !.at = "report", !.result = "succeeded"])
      /\ done' = [done EXCEPT ![l[1]][l[2]] = outcome]
      /\ UNCHANGED <<queueVars, begun>>

\* A handler that throws, or a capability that has none, is a failure.
EndHandler(a, outcome) ==
  LET l == supervisor[a].lease
  IN  /\ supervisor[a].at = "handle"
      /\ Become(a, [supervisor[a] EXCEPT !.at = "report", !.result = outcome])
      /\ done' = [done EXCEPT ![l[1]][l[2]] = outcome]
      /\ UNCHANGED <<queueVars, begun>>

\* The result reaches the route and settles the lease.
ReportResult(a, t) ==
  LET l == supervisor[a].lease
  IN  /\ supervisor[a].at = "report"
      /\ SettleLease(a, l[1], l[2], supervisor[a].result, t)
      /\ Become(a, [supervisor[a] EXCEPT !.at = "answer"])
      /\ UNCHANGED <<begun, done>>

\* The result is lost on its way, or refused because the lease is settled or
\* expired; one refused result does not bury the ones behind it.
ResultLost(a) ==
  /\ supervisor[a].at = "report"
  /\ NextLease(a)
  /\ UNCHANGED <<queueVars, begun, done>>

\* The leases whose handler ended and that a supervisor does not hold any more.
GivenUp(a) == {l \in WorkLease : done[l[1]][l[2]] # "none"} \ supervisor[a].batch

\* A result that arrives after its supervisor gave it up, or died.
LateResult(a, l, t) ==
  /\ l \in GivenUp(a)
  /\ SettleLease(a, l[1], l[2], done[l[1]][l[2]], t)
  /\ UNCHANGED <<supervisor, begun, done>>

\* The route answers after the job was closed, or dies before that.
Answered(a) ==
  LET l == supervisor[a].lease
  IN  /\ supervisor[a].at = "answer"
      /\ \A r \in reports : ~(r.job = l[1] /\ r.attempt = l[2])
      /\ NextLease(a)
      /\ UNCHANGED <<queueVars, begun, done>>

SupervisorDies(a) ==
  /\ supervisor[a].at # "idle"
  /\ Become(a, NoSupervisor)
  /\ UNCHANGED <<queueVars, begun, done>>

\* The transactions of others, and the second one of a result.
AroundSupervisors ==
  /\ \/ \E j \in Jobs, t \in 0 .. now : Enqueue(j, t)
     \/ \E r \in reports : CloseJob(r)
     \/ \E w \in Workers, j \in Jobs, t \in 0 .. now : WorkerLease(w, j, t)
     \/ \E w \in Workers, j \in Jobs, outcome \in Outcomes : WorkerClose(w, j, outcome)
     \/ Tick
     \/ CrashApi
  /\ UNCHANGED <<supervisor, begun, done>>

SupervisorStep(a) ==
  \/ \E t \in 0 .. now : Poll(a, t)
  \/ \E chosen \in SUBSET Claimable(a, supervisor[a].clock) : Claim(a, chosen)
  \/ \E t \in 0 .. now : \E chosen \in SUBSET Claimable(a, t) : LateClaim(a, chosen, t)
  \/ ClaimNothing(a)
  \/ \E l \in supervisor[a].batch : BeginHandler(a, l)
  \/ \E outcome \in Outcomes : EndHandler(a, outcome)
  \/ \E t \in 0 .. now : ReportResult(a, t)
  \/ ResultLost(a)
  \/ \E l \in GivenUp(a), t \in 0 .. now : LateResult(a, l, t)
  \/ Answered(a)
  \/ SupervisorDies(a)

SupervisorInit ==
  /\ QueueInit
  /\ supervisor = [a \in Agents |-> NoSupervisor]
  /\ begun = [j \in Jobs |-> [n \in Attempts |-> 0]]
  /\ done = [j \in Jobs |-> [n \in Attempts |-> "none"]]

SupervisorNext == (\E a \in Agents : SupervisorStep(a)) \/ AroundSupervisors

SupervisorSpec == SupervisorInit /\ [][SupervisorNext]_supervisorVars

-----------------------------------------------------------------------------

\* What is recorded was done: a lease settled with an outcome, and a job
\* succeeded under it, had a handler that came to that outcome, although
\* results are late, lost or refused and supervisors forget.
VerdictIsPerformed ==
  \A j \in Jobs, n \in Attempts :
    /\ leases[j][n].state \in Outcomes => done[j][n] = leases[j][n].state
    /\ (jobs[j].status = "succeeded" /\ n = jobs[j].attempt /\ leases[j][n].state # "none")
         => done[j][n] = "succeeded"

\* A job is worked once for each attempt of its budget at most ("never silently
\* retried past its budget"), whatever answers are lost and whoever takes over.
WorkedWithinBudget ==
  \A j \in Jobs, n \in Attempts :
    begun[j][n] <= 1 /\ (n > MaxAttempts[j] => begun[j][n] = 0)

\* A lease that a supervisor has still to work or report is its own and open,
\* or it lapsed meanwhile; so no two supervisors work on one job unless the
\* lease of one of them lapsed.
UnreportedIsMine ==
  \A a \in Agents : \A l \in supervisor[a].batch :
    \/ supervisor[a].at = "answer" /\ l = supervisor[a].lease
    \/ leases[l[1]][l[2]].state \in {"open", "expired"} /\ leases[l[1]][l[2]].agent = a

=============================================================================
