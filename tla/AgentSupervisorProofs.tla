------------------------ MODULE AgentSupervisorProofs ------------------------
(***************************************************************************)
(* The supervisors run on the queue of WorkQueue, what is recorded was     *)
(* done, and no job is worked beyond its budget; for any jobs, agents,     *)
(* workers, attempts and leases, with requests and answers that are lost   *)
(* and supervisors and a control API that may die at any step.             *)
(***************************************************************************)
EXTENDS AgentSupervisor, WorkQueueProofs

-----------------------------------------------------------------------------
(* The inductive invariant.                                                  *)

\* The leases of a batch that no handler was started for.
Unworked(a) ==
  IF supervisor[a].at = "work" THEN supervisor[a].batch
  ELSE supervisor[a].batch \ {supervisor[a].lease}

\* What a supervisor has in memory of its batch and of the lease in hand.
SupervisorHolds(a) ==
  /\ supervisor[a].clock <= now
  /\ supervisor[a].at \in {"idle", "claim"} => supervisor[a].batch = {}
  /\ supervisor[a].at \in {"handle", "report", "answer"}
       => supervisor[a].lease \in supervisor[a].batch
  /\ \A l \in supervisor[a].batch :
       /\ leases[l[1]][l[2]].state # "none"
       /\ leases[l[1]][l[2]].agent = a
  /\ \A l \in Unworked(a) : begun[l[1]][l[2]] = 0
  /\ supervisor[a].at = "report" =>
       done[supervisor[a].lease[1]][supervisor[a].lease[2]] = supervisor[a].result

\* A lease to be worked or reported is open, or it lapsed.
UnreportedMine(a) ==
  \A l \in supervisor[a].batch :
    \/ supervisor[a].at = "answer" /\ l = supervisor[a].lease
    \/ leases[l[1]][l[2]].state \in {"open", "expired"} /\ leases[l[1]][l[2]].agent = a

\* Handlers were started under leases that were written, once under each.
BegunUnderLease ==
  \A j \in Jobs, n \in Attempts :
    begun[j][n] <= 1 /\ (begun[j][n] # 0 => leases[j][n].state # "none")

\* A settled lease has the outcome of its handler.
SettledWasDone ==
  \A j \in Jobs, n \in Attempts :
    leases[j][n].state \in Outcomes => done[j][n] = leases[j][n].state

SupervisorInv ==
  /\ QueueInv
  /\ SupervisorTypeOK
  /\ UnreportedIsMine
  /\ BegunUnderLease
  /\ SettledWasDone
  /\ \A a \in Agents : SupervisorHolds(a)

-----------------------------------------------------------------------------
(* What a transaction of the queue leaves of the leases.                     *)

\* A lease that was written keeps its agent and, unless it was open, its state.
LeaseKept(j, n) ==
  leases[j][n].state # "none" =>
    /\ leases'[j][n].agent = leases[j][n].agent
    /\ \/ leases'[j][n].state = leases[j][n].state
       \/ leases[j][n].state = "open" /\ leases'[j][n].state = "expired"

LeasesKept == \A j \in Jobs, n \in Attempts : LeaseKept(j, n)

\* Only a result gives a lease an outcome.
NoOutcome ==
  \A j \in Jobs, n \in Attempts :
    leases'[j][n].state \in Outcomes => leases'[j][n].state = leases[j][n].state

LEMMA SupervisorStates ==
  /\ "none" \notin Outcomes /\ "open" \notin Outcomes /\ "expired" \notin Outcomes
  /\ "succeeded" \in Outcomes /\ "failed" \in Outcomes
BY DEF Outcomes

LEMMA ReclaimKeeps ==
  ASSUME QueueInv, NEW t \in Nat, ReclaimExpiredLeases(t)
  PROVE  LeasesKept /\ NoOutcome
<1>1. \A j \in Jobs, n \in Attempts :
        leases'[j][n] = IF n \in Expired(j, t) THEN [leases[j][n] EXCEPT !.state = "expired"]
                                               ELSE leases[j][n]
  BY DEF ReclaimExpiredLeases, LeasesExpired
<1>2. ASSUME NEW j \in Jobs, NEW n \in Attempts
      PROVE  \/ leases'[j][n] = leases[j][n]
             \/ /\ leases[j][n].state = "open" /\ leases'[j][n].state = "expired"
                /\ leases'[j][n].agent = leases[j][n].agent
  <2>1. leases[j][n] \in Lease
    BY DEF QueueInv, QueueTypeOK
  <2>2. LET e == [leases[j][n] EXCEPT !.state = "expired"]
        IN  e.state = "expired" /\ e.agent = leases[j][n].agent
    BY <2>1 DEF Lease
  <2>3. n \in Expired(j, t) => leases[j][n].state = "open"
    BY DEF Expired
  <2> QED
    BY <1>1, <2>2, <2>3
<1> QED
  BY <1>2, SupervisorStates DEF LeasesKept, LeaseKept, NoOutcome

\* A claim writes rows that were not there, each for its own agent.
LEMMA ClaimKeeps ==
  ASSUME QueueInv, NEW a \in Agents, NEW chosen \in SUBSET Jobs, NEW t \in Nat,
         ClaimWork(a, chosen, t)
  PROVE  /\ LeasesKept /\ NoOutcome
         /\ Granted(chosen) \subseteq WorkLease
         /\ \A l \in Granted(chosen) :
              /\ leases[l[1]][l[2]].state = "none"
              /\ leases'[l[1]][l[2]].state = "open"
              /\ leases'[l[1]][l[2]].agent = a
<1>1. ASSUME NEW j \in chosen
      PROVE  /\ jobs[j].status = "queued"
             /\ jobs[j].attempt \in Nat
             /\ jobs[j].attempt + 1 \in Attempts
             /\ leases[j][jobs[j].attempt + 1] = NoLease
             /\ leases[j] \in [Attempts -> Lease]
             /\ leases'[j] = [leases[j] EXCEPT ![jobs[j].attempt + 1] =
                  [state |-> "open", agent |-> a, expires |-> LeaseExpiryFor(t, j)]]
  <2>1. j \in Jobs /\ jobs[j].status = "queued" /\ jobs[j].attempt < MaxAttempts[j]
    BY DEF ClaimWork, Claimable
  <2>2. jobs[j] \in Job /\ leases[j] \in [Attempts -> Lease]
    BY <2>1 DEF QueueInv, QueueTypeOK
  <2>3. jobs[j].attempt \in Nat /\ jobs[j].attempt + 1 \in Attempts
    <3>1. jobs[j].attempt \in Nat /\ MaxAttempts[j] \in 1 .. AttemptLimit /\ AttemptLimit \in Nat
      BY <2>1, <2>2, ConstantsAssumption DEF Job, Attempts
    <3> QED
      BY <2>1, <3>1 DEF Attempts
  <2>4. leases[j][jobs[j].attempt + 1] = NoLease
    BY <2>1, <2>3 DEF QueueInv, ClaimNeverBlocked
  <2> QED
    BY <2>1, <2>2, <2>3, <2>4 DEF ClaimWork
<1>2. \A j \in Jobs \ chosen : leases'[j] = leases[j]
  BY DEF ClaimWork
<1>3. ASSUME NEW j \in Jobs, NEW n \in Attempts
      PROVE  \/ leases'[j][n] = leases[j][n]
             \/ leases[j][n].state = "none" /\ leases'[j][n].state = "open"
  <2>1. CASE j \notin chosen
    BY <1>2, <2>1
  <2>2. CASE j \in chosen
    <3>1. CASE n = jobs[j].attempt + 1
      <4>1. leases'[j][n] =
              [state |-> "open", agent |-> a, expires |-> LeaseExpiryFor(t, j)]
        BY <1>1, <2>2, <3>1
      <4>2. leases'[j][n].state = "open"
        BY <4>1
      <4>3. leases[j][n] = NoLease
        BY <1>1, <2>2, <3>1
      <4>4. leases[j][n].state = "none"
        BY <4>3 DEF NoLease
      <4> QED
        BY <4>2, <4>4
    <3>2. CASE n # jobs[j].attempt + 1
      BY <1>1, <2>2, <3>2
    <3> QED
      BY <3>1, <3>2
  <2> QED
    BY <2>1, <2>2
<1>4. LeasesKept /\ NoOutcome
  BY <1>3, SupervisorStates DEF LeasesKept, LeaseKept, NoOutcome
<1>5. ASSUME NEW l \in Granted(chosen)
      PROVE  /\ l \in WorkLease
             /\ leases[l[1]][l[2]].state = "none"
             /\ leases'[l[1]][l[2]].state = "open"
             /\ leases'[l[1]][l[2]].agent = a
  <2>1. PICK j \in chosen : l = <<j, jobs[j].attempt + 1>>
    BY DEF Granted
  <2>2. leases'[j][jobs[j].attempt + 1] =
          [state |-> "open", agent |-> a, expires |-> LeaseExpiryFor(t, j)]
    BY <1>1
  <2>3. l[1] = j /\ l[2] = jobs[j].attempt + 1 /\ l \in WorkLease
    BY <1>1, <2>1 DEF WorkLease
  <2>4. leases[l[1]][l[2]] = NoLease
    BY <1>1, <2>3
  <2>5. leases'[l[1]][l[2]] =
          [state |-> "open", agent |-> a, expires |-> LeaseExpiryFor(t, j)]
    BY <2>2, <2>3
  <2> QED
    BY <2>3, <2>4, <2>5 DEF NoLease
<1> QED
  BY <1>4, <1>5

\* A result gives the open lease of its agent an outcome.
LEMMA SettleKeeps ==
  ASSUME QueueInv, NEW a \in Agents, NEW j \in Jobs, NEW n \in Attempts,
         NEW outcome \in Outcomes, NEW t \in Nat, SettleLease(a, j, n, outcome, t)
  PROVE  \A k \in Jobs, m \in Attempts :
           /\ leases'[k][m].agent = leases[k][m].agent
           /\ leases'[k][m].state = IF k = j /\ m = n THEN outcome ELSE leases[k][m].state
<1>1. leases' = [leases EXCEPT ![j][n].state = outcome]
  BY DEF SettleLease
<1>2. leases \in [Jobs -> [Attempts -> Lease]]
  BY DEF QueueInv, QueueTypeOK
<1> QED
  BY <1>1, <1>2 DEF Lease

-----------------------------------------------------------------------------
(* Steps of a supervisor.                                                    *)

LEMMA MemoryTypes ==
  ASSUME SupervisorInv, NEW a \in Agents
  PROVE  /\ supervisor[a] \in Supervisor
         /\ supervisor[a].clock \in 0 .. now /\ now \in Nat
         /\ supervisor[a].batch \subseteq WorkLease
         /\ supervisor[a].result \in Outcomes
         /\ \A l \in supervisor[a].batch :
              l[1] \in Jobs /\ l[2] \in Attempts /\ l = <<l[1], l[2]>>
<1>1. supervisor[a] \in Supervisor /\ now \in Nat
  BY DEF SupervisorInv, SupervisorTypeOK, QueueTypeOK
<1>2. supervisor[a].clock <= now
  BY DEF SupervisorInv, SupervisorHolds
<1>3. /\ supervisor[a].clock \in Nat /\ supervisor[a].batch \subseteq WorkLease
      /\ supervisor[a].result \in Outcomes
  BY <1>1 DEF Supervisor
<1> QED
  BY <1>1, <1>2, <1>3 DEF WorkLease

LEMMA NoSupervisorType == NoSupervisor \in Supervisor
BY DEF NoSupervisor, Supervisor, Outcomes, NoWorkLease

\* No lease is in two batches.
LEMMA BatchesApart ==
  ASSUME SupervisorInv, NEW a \in Agents, NEW b \in Agents, NEW l \in supervisor[a].batch,
         l \in supervisor[b].batch
  PROVE  a = b
BY DEF SupervisorInv, SupervisorHolds

\* Memory that a step does not concern is still sound.
LEMMA MemoryKept ==
  ASSUME SupervisorInv, now' \in Nat, now <= now',
         NEW a \in Agents, supervisor'[a] = supervisor[a],
         \A l \in supervisor[a].batch :
           /\ LeaseKept(l[1], l[2])
           /\ begun'[l[1]][l[2]] = begun[l[1]][l[2]]
           /\ done'[l[1]][l[2]] = done[l[1]][l[2]]
  PROVE  SupervisorHolds(a)' /\ UnreportedMine(a)'
<1>2. SupervisorHolds(a) /\ UnreportedMine(a)
  BY DEF SupervisorInv, UnreportedIsMine, UnreportedMine
<1>3. ASSUME NEW l \in supervisor[a].batch
      PROVE  /\ leases'[l[1]][l[2]].state # "none" /\ leases'[l[1]][l[2]].agent = a
             /\ \/ supervisor[a].at = "answer" /\ l = supervisor[a].lease
                \/ leases'[l[1]][l[2]].state \in {"open", "expired"}
  <2>1. leases[l[1]][l[2]].state # "none" /\ leases[l[1]][l[2]].agent = a
    BY <1>2 DEF SupervisorHolds
  <2>2. \/ supervisor[a].at = "answer" /\ l = supervisor[a].lease
        \/ leases[l[1]][l[2]].state \in {"open", "expired"}
    BY <1>2 DEF UnreportedMine
  <2>3. /\ leases'[l[1]][l[2]].agent = leases[l[1]][l[2]].agent
        /\ \/ leases'[l[1]][l[2]].state = leases[l[1]][l[2]].state
           \/ leases'[l[1]][l[2]].state = "expired"
    BY <2>1 DEF LeaseKept
  <2> QED
    BY <2>1, <2>2, <2>3
<1>4. Unworked(a)' = Unworked(a) /\ Unworked(a) \subseteq supervisor[a].batch
  BY DEF Unworked
<1>5. supervisor[a].clock <= now'
  <2>1. supervisor[a].clock \in Nat /\ now \in Nat /\ supervisor[a].clock <= now
    BY MemoryTypes
  <2> QED
    BY <2>1
<1>6. SupervisorHolds(a)'
  <2>1. \A l \in Unworked(a)' : begun'[l[1]][l[2]] = 0
    BY <1>2, <1>4 DEF SupervisorHolds
  <2>2. supervisor[a].at = "report" =>
          done'[supervisor[a].lease[1]][supervisor[a].lease[2]] = supervisor[a].result
    BY <1>2 DEF SupervisorHolds
  <2> QED
    BY <1>2, <1>3, <1>5, <2>1, <2>2 DEF SupervisorHolds
<1> QED
  BY <1>3, <1>6 DEF UnreportedMine

\* A step of one supervisor, of which the others see their leases kept.
LEMMA StepInv ==
  ASSUME SupervisorInv, QueueInv', SupervisorTypeOK', now <= now', NEW a \in Agents,
         \A b \in Agents \ {a} : supervisor'[b] = supervisor[b],
         \A b \in Agents \ {a} : \A l \in supervisor[b].batch :
           /\ LeaseKept(l[1], l[2])
           /\ begun'[l[1]][l[2]] = begun[l[1]][l[2]]
           /\ done'[l[1]][l[2]] = done[l[1]][l[2]],
         SupervisorHolds(a)', UnreportedMine(a)', BegunUnderLease', SettledWasDone'
  PROVE  SupervisorInv'
<1>1. now' \in Nat
  BY DEF SupervisorTypeOK, QueueTypeOK
<1>2. \A b \in Agents : SupervisorHolds(b)' /\ UnreportedMine(b)'
  <2> TAKE b \in Agents
  <2>1. CASE b = a
    BY <2>1
  <2>2. CASE b # a
    BY <1>1, <2>2, MemoryKept
  <2> QED
    BY <2>1, <2>2
<1>3. UnreportedIsMine'
  BY <1>2 DEF UnreportedIsMine, UnreportedMine
<1> QED
  BY <1>2, <1>3 DEF SupervisorInv

\* Transactions that keep the leases keep what was done under them.
LEMMA WorkKept ==
  ASSUME SupervisorInv, LeasesKept, NoOutcome, begun' = begun, done' = done
  PROVE  BegunUnderLease' /\ SettledWasDone'
<1>1. BegunUnderLease /\ SettledWasDone
  BY DEF SupervisorInv
<1>2. BegunUnderLease'
  BY <1>1 DEF BegunUnderLease, LeasesKept, LeaseKept
<1>3. SettledWasDone'
  BY <1>1 DEF SettledWasDone, NoOutcome
<1> QED
  BY <1>2, <1>3

\* A step in which no handler runs and no result arrives.
LEMMA ForgetfulStep ==
  ASSUME SupervisorInv, QueueInv', now <= now', LeasesKept, NoOutcome,
         begun' = begun, done' = done,
         NEW a \in Agents, NEW memory \in Supervisor, Become(a, memory),
         SupervisorHolds(a)', UnreportedMine(a)'
  PROVE  SupervisorInv'
<1>1. SupervisorTypeOK /\ supervisor \in [Agents -> Supervisor]
  BY DEF SupervisorInv, SupervisorTypeOK
<1>2. /\ supervisor' \in [Agents -> Supervisor]
      /\ \A b \in Agents \ {a} : supervisor'[b] = supervisor[b]
  BY <1>1 DEF Become
<1>3. SupervisorTypeOK'
  BY <1>1, <1>2 DEF SupervisorTypeOK, QueueInv
<1>4. \A b \in Agents : \A l \in supervisor[b].batch : LeaseKept(l[1], l[2])
  BY MemoryTypes DEF LeasesKept
<1> QED
  BY <1>2, <1>3, <1>4, WorkKept, StepInv

\* An idle supervisor holds nothing.
LEMMA IdleHolds ==
  ASSUME SupervisorInv, now' \in Nat, NEW a \in Agents, Become(a, NoSupervisor)
  PROVE  SupervisorHolds(a)' /\ UnreportedMine(a)'
<1>1. supervisor'[a] = NoSupervisor
  BY DEF SupervisorInv, SupervisorTypeOK, Become
<1> QED
  BY <1>1 DEF NoSupervisor, SupervisorHolds, UnreportedMine, Unworked

\* Rows that do not change.
LEMMA SameRows ==
  ASSUME SupervisorInv, UNCHANGED queueVars
  PROVE  QueueInv'
<1>1. QueueInv /\ now \in Nat
  BY DEF SupervisorInv, QueueInv, QueueTypeOK
<1>2. jobs' = jobs /\ leases' = leases /\ now' \in Nat /\ reports' \subseteq reports
  BY <1>1 DEF queueVars
<1> QED
  BY <1>1, <1>2, RowsUnchangedInv

LEMMA SameQueue ==
  ASSUME SupervisorInv, leases' = leases
  PROVE  LeasesKept /\ NoOutcome
BY DEF LeasesKept, LeaseKept, NoOutcome

-----------------------------------------------------------------------------
(* One lemma per action of a supervisor.                                     *)

LEMMA PollInv ==
  ASSUME SupervisorInv, NEW a \in Agents, NEW t \in 0 .. now, Poll(a, t)
  PROVE  SupervisorInv'
<1> DEFINE memory == [NoSupervisor EXCEPT !.at = "claim", !.clock = t]
<1>1. QueueInv /\ now \in Nat /\ t \in Nat /\ t <= now
  BY DEF SupervisorInv, QueueInv, QueueTypeOK
<1>2. now' = now
  BY DEF Poll, ReclaimExpiredLeases, queueVars
<1>3. QueueInv' /\ LeasesKept /\ NoOutcome
  <2>1. CASE ReclaimExpiredLeases(t)
    BY <1>1, <2>1, ReclaimInv, ReclaimKeeps
  <2>2. CASE UNCHANGED queueVars
    <3>1. QueueInv'
      BY <1>1, <2>2, RowsUnchangedInv DEF queueVars
    <3> QED
      BY <2>2, <3>1, SameQueue DEF queueVars
  <2> QED
    BY <2>1, <2>2 DEF Poll
<1>4. memory \in Supervisor /\ Become(a, memory)
  BY <1>1 DEF Poll, NoSupervisor, Supervisor, Outcomes, NoWorkLease
<1>5. supervisor'[a] = memory
  BY <1>4 DEF Become, SupervisorInv, SupervisorTypeOK
<1>6. memory.at = "claim" /\ memory.clock = t /\ memory.batch = {}
  BY DEF NoSupervisor
<1>7. SupervisorHolds(a)' /\ UnreportedMine(a)'
  <2> HIDE DEF memory
  <2> QED
    BY <1>1, <1>2, <1>5, <1>6 DEF SupervisorHolds, UnreportedMine, Unworked
<1>8. begun' = begun /\ done' = done /\ now <= now'
  BY <1>1, <1>2 DEF Poll
<1> HIDE DEF memory
<1> QED
  BY <1>3, <1>4, <1>7, <1>8, ForgetfulStep

LEMMA ClaimInv ==
  ASSUME SupervisorInv, NEW a \in Agents, NEW chosen \in SUBSET Jobs, Claim(a, chosen)
  PROVE  SupervisorInv'
<1> DEFINE t == supervisor[a].clock
           memory == [NoSupervisor EXCEPT !.at = "work", !.batch = Granted(chosen)]
<1>1. QueueInv /\ now \in Nat /\ t \in Nat
  BY MemoryTypes DEF SupervisorInv
<1>2. ClaimWork(a, chosen, t) /\ now' = now /\ begun' = begun /\ done' = done
  BY DEF Claim, ClaimWork
<1>3. /\ QueueInv' /\ LeasesKept /\ NoOutcome
      /\ Granted(chosen) \subseteq WorkLease
      /\ \A l \in Granted(chosen) :
           /\ leases[l[1]][l[2]].state = "none"
           /\ leases'[l[1]][l[2]].state = "open"
           /\ leases'[l[1]][l[2]].agent = a
  <2> HIDE DEF t
  <2> QED
    BY <1>1, <1>2, ClaimWorkInv, ClaimKeeps
<1>4. Become(a, memory)
  BY DEF Claim
<1>5. memory \in Supervisor
  BY <1>3 DEF NoSupervisor, Supervisor, Outcomes, NoWorkLease
<1>6. memory.at = "work" /\ memory.clock = 0 /\ memory.batch = Granted(chosen)
  BY DEF NoSupervisor
<1>7. supervisor'[a] = memory
  BY <1>4 DEF Become, SupervisorInv, SupervisorTypeOK
<1>8. \A l \in Granted(chosen) : begun[l[1]][l[2]] = 0
  <2> TAKE l \in Granted(chosen)
  <2>1. l[1] \in Jobs /\ l[2] \in Attempts
    BY <1>3 DEF WorkLease
  <2> QED
    BY <1>3, <2>1 DEF SupervisorInv, BegunUnderLease
<1> HIDE DEF memory
<1>9. SupervisorHolds(a)'
  BY <1>1, <1>2, <1>3, <1>6, <1>7, <1>8 DEF SupervisorHolds, Unworked
<1>10. UnreportedMine(a)'
  BY <1>3, <1>6, <1>7 DEF UnreportedMine
<1> QED
  BY <1>1, <1>2, <1>3, <1>4, <1>5, <1>9, <1>10, ForgetfulStep

\* Leases nobody knows of.
LEMMA LateClaimInv ==
  ASSUME SupervisorInv, NEW a \in Agents, NEW chosen \in SUBSET Jobs, NEW t \in Nat,
         LateClaim(a, chosen, t)
  PROVE  SupervisorInv'
<1>1. /\ QueueInv /\ SupervisorTypeOK /\ ClaimWork(a, chosen, t)
      /\ supervisor' = supervisor /\ begun' = begun /\ done' = done
      /\ now' = now /\ now \in Nat
  BY DEF LateClaim, ClaimWork, SupervisorInv, SupervisorTypeOK, QueueTypeOK
<1>2. QueueInv' /\ LeasesKept /\ NoOutcome
  BY <1>1, ClaimWorkInv, ClaimKeeps
<1>3. SupervisorTypeOK'
  BY <1>1, <1>2 DEF SupervisorTypeOK, QueueInv
<1>4. \A b \in Agents : \A l \in supervisor[b].batch : LeaseKept(l[1], l[2])
  BY <1>2, MemoryTypes DEF LeasesKept
<1>5. SupervisorHolds(a)' /\ UnreportedMine(a)'
  BY <1>1, <1>4, MemoryKept
<1> QED
  BY <1>1, <1>2, <1>3, <1>4, <1>5, WorkKept, StepInv

\* A supervisor that forgets: no work, a lost request, death.
LEMMA ForgetInv ==
  ASSUME SupervisorInv, NEW a \in Agents, Become(a, NoSupervisor),
         UNCHANGED <<queueVars, begun, done>>
  PROVE  SupervisorInv'
<1>1. now' = now /\ now \in Nat /\ leases' = leases /\ begun' = begun /\ done' = done
  BY DEF queueVars, SupervisorInv, SupervisorTypeOK, QueueTypeOK
<1>2. QueueInv'
  BY SameRows
<1> QED
  BY <1>1, <1>2, IdleHolds, NoSupervisorType, SameQueue, ForgetfulStep

LEMMA NextLeaseInv ==
  ASSUME SupervisorInv, NEW a \in Agents, NextLease(a),
         supervisor[a].at \in {"report", "answer"},
         UNCHANGED <<queueVars, begun, done>>
  PROVE  SupervisorInv'
<1> DEFINE rest == supervisor[a].batch \ {supervisor[a].lease}
           memory == [NoSupervisor EXCEPT !.at = "work", !.batch = rest]
<1>1. CASE Become(a, NoSupervisor)
  BY <1>1, ForgetInv
<1>2. CASE Become(a, memory)
  <2>1. now' = now /\ now \in Nat /\ leases' = leases /\ begun' = begun /\ done' = done
    BY DEF queueVars, SupervisorInv, SupervisorTypeOK, QueueTypeOK
  <2>2. QueueInv'
    BY SameRows
  <2>3. rest \subseteq WorkLease
    BY MemoryTypes
  <2>4. memory \in Supervisor
    BY <2>3 DEF NoSupervisor, Supervisor, Outcomes, NoWorkLease
  <2>5. memory.at = "work" /\ memory.clock = 0 /\ memory.batch = rest
    BY DEF NoSupervisor
  <2>6. supervisor'[a] = memory
    BY <1>2 DEF Become, SupervisorInv, SupervisorTypeOK
  <2>7. SupervisorHolds(a) /\ UnreportedMine(a)
    BY DEF SupervisorInv, UnreportedIsMine, UnreportedMine
  <2>8. \A l \in rest : begun[l[1]][l[2]] = 0
    BY <2>7 DEF SupervisorHolds, Unworked
  <2> HIDE DEF memory
  <2>9. SupervisorHolds(a)'
    BY <2>1, <2>5, <2>6, <2>7, <2>8 DEF SupervisorHolds, Unworked
  <2>10. UnreportedMine(a)'
    BY <2>1, <2>5, <2>6, <2>7 DEF UnreportedMine
  <2> QED
    BY <1>2, <2>1, <2>2, <2>4, <2>9, <2>10, SameQueue, ForgetfulStep
<1> QED
  BY <1>1, <1>2 DEF NextLease

LEMMA BeginHandlerInv ==
  ASSUME SupervisorInv, NEW a \in Agents, NEW l \in supervisor[a].batch, BeginHandler(a, l)
  PROVE  SupervisorInv'
<1> DEFINE memory == [supervisor[a] EXCEPT !.at = "handle", !.lease = l]
<1>1. /\ supervisor[a].at = "work" /\ Become(a, memory)
      /\ begun' = [begun EXCEPT ![l[1]][l[2]] = @ + 1]
      /\ done' = done /\ UNCHANGED queueVars
  BY DEF BeginHandler
<1>2. now' = now /\ now \in Nat /\ leases' = leases /\ QueueInv' /\ LeasesKept
  BY <1>1, SameRows, SameQueue DEF queueVars, SupervisorInv, SupervisorTypeOK, QueueTypeOK
<1>3. /\ l \in WorkLease /\ l[1] \in Jobs /\ l[2] \in Attempts /\ l = <<l[1], l[2]>>
      /\ supervisor[a] \in Supervisor
  BY MemoryTypes
<1>4. begun[l[1]][l[2]] = 0
  BY <1>1 DEF SupervisorInv, SupervisorHolds, Unworked
<1>5. begun \in [Jobs -> [Attempts -> Nat]]
  BY DEF SupervisorInv, SupervisorTypeOK
<1>6. begun' \in [Jobs -> [Attempts -> Nat]]
  BY <1>1, <1>3, <1>4, <1>5
<1>7. \A j \in Jobs, n \in Attempts :
        begun'[j][n] = IF <<j, n>> = l THEN 1 ELSE begun[j][n]
  BY <1>1, <1>3, <1>4, <1>5
<1>8. /\ memory \in Supervisor /\ memory.at = "handle" /\ memory.lease = l
      /\ memory.batch = supervisor[a].batch /\ memory.clock = supervisor[a].clock
  BY <1>3 DEF Supervisor
<1>9. SupervisorTypeOK /\ supervisor'[a] = memory /\ \A b \in Agents \ {a} : supervisor'[b] = supervisor[b]
  BY <1>1 DEF Become, SupervisorInv, SupervisorTypeOK
<1> HIDE DEF memory
<1>10. SupervisorTypeOK'
  BY <1>1, <1>2, <1>6, <1>8, <1>9 DEF Become, SupervisorTypeOK, QueueInv
<1>11. \A b \in Agents : \A k \in supervisor[b].batch :
         /\ LeaseKept(k[1], k[2])
         /\ (b # a \/ k # l) => begun'[k[1]][k[2]] = begun[k[1]][k[2]]
         /\ done'[k[1]][k[2]] = done[k[1]][k[2]]
  <2> TAKE b \in Agents
  <2> TAKE k \in supervisor[b].batch
  <2>1. k[1] \in Jobs /\ k[2] \in Attempts /\ k = <<k[1], k[2]>>
    BY MemoryTypes
  <2>2. b # a => k # l
    BY BatchesApart
  <2>3. LeaseKept(k[1], k[2])
    BY <1>2, <2>1 DEF LeasesKept
  <2> QED
    BY <1>1, <1>7, <2>1, <2>2, <2>3
<1>12. SupervisorHolds(a)'
  <2>1. SupervisorHolds(a)
    BY DEF SupervisorInv
  <2>2. Unworked(a)' = supervisor[a].batch \ {l}
    BY <1>8, <1>9 DEF Unworked
  <2>3. \A k \in Unworked(a)' : begun'[k[1]][k[2]] = 0
    BY <1>1, <1>11, <2>1, <2>2 DEF SupervisorHolds, Unworked
  <2> QED
    BY <1>2, <1>8, <1>9, <2>1, <2>3 DEF SupervisorHolds
<1>13. UnreportedMine(a)'
  BY <1>1, <1>2, <1>8, <1>9 DEF SupervisorInv, UnreportedIsMine, UnreportedMine
<1>14. BegunUnderLease'
  <2>1. leases[l[1]][l[2]].state # "none"
    BY DEF SupervisorInv, SupervisorHolds
  <2>2. BegunUnderLease
    BY DEF SupervisorInv
  <2> SUFFICES ASSUME NEW j \in Jobs, NEW n \in Attempts
               PROVE  begun'[j][n] <= 1 /\ (begun'[j][n] # 0 => leases[j][n].state # "none")
    BY <1>2 DEF BegunUnderLease
  <2>3. CASE <<j, n>> = l
    BY <1>7, <2>1, <2>3
  <2>4. CASE <<j, n>> # l
    BY <1>7, <2>2, <2>4 DEF BegunUnderLease
  <2> QED
    BY <2>3, <2>4
<1>15. SettledWasDone'
  BY <1>1, <1>2 DEF SupervisorInv, SettledWasDone
<1> QED
  BY <1>2, <1>9, <1>10, <1>11, <1>12, <1>13, <1>14, <1>15, StepInv

LEMMA EndHandlerInv ==
  ASSUME SupervisorInv, NEW a \in Agents, NEW outcome \in Outcomes, EndHandler(a, outcome)
  PROVE  SupervisorInv'
<1> DEFINE l == supervisor[a].lease
           memory == [supervisor[a] EXCEPT !.at = "report", !.result = outcome]
<1>1. /\ supervisor[a].at = "handle" /\ Become(a, memory)
      /\ done' = [done EXCEPT ![l[1]][l[2]] = outcome]
      /\ begun' = begun /\ UNCHANGED queueVars
  BY DEF EndHandler
<1>2. now' = now /\ now \in Nat /\ leases' = leases /\ QueueInv' /\ LeasesKept
  BY <1>1, SameRows, SameQueue DEF queueVars, SupervisorInv, SupervisorTypeOK, QueueTypeOK
<1>3. l \in supervisor[a].batch /\ SupervisorHolds(a) /\ UnreportedMine(a)
  BY <1>1 DEF SupervisorInv, SupervisorHolds, UnreportedIsMine, UnreportedMine
<1>4. l[1] \in Jobs /\ l[2] \in Attempts /\ l = <<l[1], l[2]>> /\ supervisor[a] \in Supervisor
  BY <1>3, MemoryTypes
<1>5. done \in [Jobs -> [Attempts -> Outcomes \cup {"none"}]]
  BY DEF SupervisorInv, SupervisorTypeOK
<1>6. done' \in [Jobs -> [Attempts -> Outcomes \cup {"none"}]]
  BY <1>1, <1>4, <1>5
<1>7. \A j \in Jobs, n \in Attempts :
        done'[j][n] = IF <<j, n>> = l THEN outcome ELSE done[j][n]
  BY <1>1, <1>4, <1>5
<1>8. leases[l[1]][l[2]].state \in {"open", "expired"}
  BY <1>1, <1>3 DEF UnreportedMine
<1>9. /\ memory \in Supervisor /\ memory.at = "report" /\ memory.result = outcome
      /\ memory.lease = l /\ memory.batch = supervisor[a].batch
      /\ memory.clock = supervisor[a].clock
  BY <1>4 DEF Supervisor
<1>10. SupervisorTypeOK /\ supervisor'[a] = memory /\ \A b \in Agents \ {a} : supervisor'[b] = supervisor[b]
  BY <1>1 DEF Become, SupervisorInv, SupervisorTypeOK
<1> HIDE DEF memory
<1>11. SupervisorTypeOK'
  BY <1>1, <1>2, <1>6, <1>9, <1>10 DEF Become, SupervisorTypeOK, QueueInv
<1>12. \A b \in Agents \ {a} : \A k \in supervisor[b].batch :
         /\ LeaseKept(k[1], k[2])
         /\ begun'[k[1]][k[2]] = begun[k[1]][k[2]]
         /\ done'[k[1]][k[2]] = done[k[1]][k[2]]
  <2> TAKE b \in Agents \ {a}
  <2> TAKE k \in supervisor[b].batch
  <2>1. k[1] \in Jobs /\ k[2] \in Attempts /\ k = <<k[1], k[2]>>
    BY MemoryTypes
  <2>2. k # l
    BY <1>3, BatchesApart
  <2>3. LeaseKept(k[1], k[2])
    BY <1>2, <2>1 DEF LeasesKept
  <2> QED
    BY <1>1, <1>7, <2>1, <2>2, <2>3
<1>13. SupervisorHolds(a)'
  <2>1. Unworked(a)' = Unworked(a)
    BY <1>1, <1>9, <1>10 DEF Unworked
  <2>2. done'[l[1]][l[2]] = outcome
    BY <1>4, <1>7
  <2> HIDE DEF l
  <2> QED
    BY <1>1, <1>2, <1>3, <1>9, <1>10, <2>1, <2>2 DEF SupervisorHolds
<1>14. UnreportedMine(a)'
  BY <1>1, <1>2, <1>3, <1>9, <1>10 DEF UnreportedMine
<1>15. BegunUnderLease'
  BY <1>1, <1>2 DEF SupervisorInv, BegunUnderLease
<1>16. SettledWasDone'
  <2> SUFFICES ASSUME NEW j \in Jobs, NEW n \in Attempts, leases[j][n].state \in Outcomes
               PROVE  done'[j][n] = leases[j][n].state
    BY <1>2 DEF SettledWasDone
  <2>1. <<j, n>> # l
    BY <1>8, SupervisorStates
  <2>2. done[j][n] = leases[j][n].state
    BY DEF SupervisorInv, SettledWasDone
  <2> QED
    BY <1>7, <2>1, <2>2
<1> QED
  BY <1>2, <1>10, <1>11, <1>12, <1>13, <1>14, <1>15, <1>16, StepInv

\* A result settles the lease of its own supervisor, which no other holds.
LEMMA ReportResultInv ==
  ASSUME SupervisorInv, NEW a \in Agents, NEW t \in Nat, ReportResult(a, t)
  PROVE  SupervisorInv'
<1> DEFINE l == supervisor[a].lease
           outcome == supervisor[a].result
           memory == [supervisor[a] EXCEPT !.at = "answer"]
<1>1. /\ supervisor[a].at = "report" /\ Become(a, memory)
      /\ SettleLease(a, l[1], l[2], outcome, t)
      /\ begun' = begun /\ done' = done /\ now' = now
  BY DEF ReportResult, SettleLease
<1>2. l \in supervisor[a].batch /\ SupervisorHolds(a) /\ UnreportedMine(a)
  BY <1>1 DEF SupervisorInv, SupervisorHolds, UnreportedIsMine, UnreportedMine
<1>3. /\ l[1] \in Jobs /\ l[2] \in Attempts /\ l = <<l[1], l[2]>>
      /\ supervisor[a] \in Supervisor /\ outcome \in Outcomes /\ now \in Nat
  BY <1>2, MemoryTypes
<1>4. /\ QueueInv'
      /\ \A k \in Jobs, m \in Attempts :
           /\ leases'[k][m].agent = leases[k][m].agent
           /\ leases'[k][m].state = IF k = l[1] /\ m = l[2] THEN outcome ELSE leases[k][m].state
  <2> HIDE DEF l, outcome
  <2>1. QueueInv
    BY DEF SupervisorInv
  <2> QED
    BY <1>1, <1>3, <2>1, SettleLeaseInv, SettleKeeps
<1>5. done[l[1]][l[2]] = outcome
  BY <1>1, <1>2 DEF SupervisorHolds
<1>6. /\ memory \in Supervisor /\ memory.at = "answer" /\ memory.lease = l
      /\ memory.batch = supervisor[a].batch /\ memory.clock = supervisor[a].clock
  BY <1>3 DEF Supervisor
<1>7. SupervisorTypeOK /\ supervisor'[a] = memory /\ \A b \in Agents \ {a} : supervisor'[b] = supervisor[b]
  BY <1>1 DEF Become, SupervisorInv, SupervisorTypeOK
<1>8. supervisor[a].batch \subseteq WorkLease
  BY MemoryTypes
<1>u. Unworked(a)' = Unworked(a)
  BY <1>1, <1>6, <1>7 DEF Unworked
<1> HIDE DEF memory, l, outcome
<1>9. SupervisorTypeOK'
  BY <1>1, <1>4, <1>6, <1>7 DEF Become, SupervisorTypeOK, QueueInv
<1>10. \A b \in Agents : \A k \in supervisor[b].batch :
         /\ k[1] \in Jobs /\ k[2] \in Attempts /\ k = <<k[1], k[2]>>
         /\ (b # a \/ k # l) => leases'[k[1]][k[2]].state = leases[k[1]][k[2]].state
         /\ leases'[k[1]][k[2]].agent = leases[k[1]][k[2]].agent
         /\ leases'[k[1]][k[2]].state # "none"
  <2> TAKE b \in Agents
  <2> TAKE k \in supervisor[b].batch
  <2>1. k[1] \in Jobs /\ k[2] \in Attempts /\ k = <<k[1], k[2]>>
    BY MemoryTypes
  <2>2. b # a => k # l
    BY <1>2, BatchesApart
  <2>3. k # l => ~(k[1] = l[1] /\ k[2] = l[2])
    BY <1>3, <2>1
  <2>4. leases[k[1]][k[2]].state # "none"
    BY DEF SupervisorInv, SupervisorHolds
  <2> QED
    BY <1>3, <1>4, <2>1, <2>2, <2>3, <2>4, SupervisorStates
<1>11. \A b \in Agents \ {a} : \A k \in supervisor[b].batch :
         /\ LeaseKept(k[1], k[2])
         /\ begun'[k[1]][k[2]] = begun[k[1]][k[2]]
         /\ done'[k[1]][k[2]] = done[k[1]][k[2]]
  BY <1>1, <1>10 DEF LeaseKept
<1>12. SupervisorHolds(a)'
  BY <1>1, <1>2, <1>6, <1>7, <1>10, <1>u DEF SupervisorHolds
<1>13. UnreportedMine(a)'
  BY <1>1, <1>2, <1>6, <1>7, <1>10 DEF UnreportedMine, SupervisorHolds
<1>14. BegunUnderLease'
  BY <1>1, <1>4, SupervisorStates, <1>3 DEF SupervisorInv, BegunUnderLease
<1>15. SettledWasDone'
  BY <1>1, <1>4, <1>5 DEF SupervisorInv, SettledWasDone
<1> QED
  BY <1>1, <1>3, <1>4, <1>7, <1>9, <1>11, <1>12, <1>13, <1>14, <1>15, StepInv

\* A result that comes late settles a lease no supervisor holds any more, with
\* the outcome of its handler.
LEMMA LateResultInv ==
  ASSUME SupervisorInv, NEW a \in Agents, NEW l \in GivenUp(a), NEW t \in Nat,
         LateResult(a, l, t)
  PROVE  SupervisorInv'
<1> DEFINE outcome == done[l[1]][l[2]]
<1>1. /\ QueueInv /\ SupervisorTypeOK /\ SettleLease(a, l[1], l[2], outcome, t)
      /\ supervisor' = supervisor /\ begun' = begun /\ done' = done
      /\ now' = now /\ now \in Nat
  BY DEF LateResult, SettleLease, SupervisorInv, SupervisorTypeOK, QueueTypeOK
<1>2. /\ l[1] \in Jobs /\ l[2] \in Attempts /\ l = <<l[1], l[2]>>
      /\ outcome # "none" /\ l \notin supervisor[a].batch
  BY DEF GivenUp, WorkLease
<1>3. outcome \in Outcomes
  BY <1>1, <1>2 DEF SupervisorTypeOK
<1>4. leases[l[1]][l[2]].agent = a
  BY <1>1 DEF SettleLease
<1> HIDE DEF outcome
<1>5. /\ QueueInv'
      /\ \A k \in Jobs, m \in Attempts :
           /\ leases'[k][m].agent = leases[k][m].agent
           /\ leases'[k][m].state = IF k = l[1] /\ m = l[2] THEN outcome ELSE leases[k][m].state
  BY <1>1, <1>2, <1>3, SettleLeaseInv, SettleKeeps
<1>6. \A b \in Agents : \A k \in supervisor[b].batch : LeaseKept(k[1], k[2])
  <2> TAKE b \in Agents
  <2> TAKE k \in supervisor[b].batch
  <2>1. k[1] \in Jobs /\ k[2] \in Attempts /\ k = <<k[1], k[2]>>
    BY MemoryTypes
  <2>2. k # l
    BY <1>2, <1>4 DEF SupervisorInv, SupervisorHolds
  <2>3. ~(k[1] = l[1] /\ k[2] = l[2])
    BY <1>2, <2>1, <2>2
  <2> QED
    BY <1>5, <2>1, <2>3 DEF LeaseKept
<1>7. SupervisorTypeOK'
  BY <1>1, <1>5 DEF SupervisorTypeOK, QueueInv
<1>8. SupervisorHolds(a)' /\ UnreportedMine(a)'
  BY <1>1, <1>6, MemoryKept
<1>9. BegunUnderLease'
  BY <1>1, <1>3, <1>5, SupervisorStates DEF SupervisorInv, BegunUnderLease
<1>10. SettledWasDone'
  BY <1>1, <1>5 DEF SupervisorInv, SettledWasDone, outcome
<1> QED
  BY <1>1, <1>5, <1>6, <1>7, <1>8, <1>9, <1>10, StepInv

\* The transactions of others find every lease row as they leave it.
LEMMA AroundInv ==
  ASSUME SupervisorInv, AroundSupervisors
  PROVE  SupervisorInv'
<1>1. QueueInv /\ SupervisorTypeOK /\ now \in Nat /\ \A t \in 0 .. now : t \in Nat
  BY DEF SupervisorInv, SupervisorTypeOK, QueueTypeOK
<1>2. supervisor' = supervisor /\ begun' = begun /\ done' = done
  BY DEF AroundSupervisors
<1>3. QueueInv' /\ leases' = leases /\ now <= now' /\ now' \in Nat
  <2>1. ASSUME NEW j \in Jobs, NEW t \in 0 .. now, Enqueue(j, t)
        PROVE  QueueInv' /\ leases' = leases /\ now' = now
    BY <1>1, <2>1, EnqueueInv DEF Enqueue
  <2>2. ASSUME NEW r \in reports, CloseJob(r)
        PROVE  QueueInv' /\ leases' = leases /\ now' = now
    BY <1>1, <2>2, CloseJobInv DEF CloseJob
  <2>3. ASSUME NEW w \in Workers, NEW j \in Jobs, NEW t \in 0 .. now, WorkerLease(w, j, t)
        PROVE  QueueInv' /\ leases' = leases /\ now' = now
    BY <1>1, <2>3, WorkerLeaseInv DEF WorkerLease
  <2>4. ASSUME NEW w \in Workers, NEW j \in Jobs, NEW outcome \in Outcomes,
               WorkerClose(w, j, outcome)
        PROVE  QueueInv' /\ leases' = leases /\ now' = now
    BY <1>1, <2>4, WorkerCloseInv DEF WorkerClose
  <2>5. ASSUME Tick PROVE QueueInv' /\ leases' = leases /\ now' = now + 1
    <3>1. jobs' = jobs /\ leases' = leases /\ now' \in Nat /\ reports' \subseteq reports
      BY <1>1, <2>5 DEF Tick
    <3> QED
      BY <1>1, <2>5, <3>1, RowsUnchangedInv DEF Tick
  <2>6. ASSUME CrashApi PROVE QueueInv' /\ leases' = leases /\ now' = now
    BY <1>1, <2>6, RowsUnchangedInv DEF CrashApi
  <2> QED
    BY <1>1, <2>1, <2>2, <2>3, <2>4, <2>5, <2>6 DEF AroundSupervisors
<1>4. LeasesKept /\ NoOutcome
  BY <1>3, SameQueue
<1>5. BegunUnderLease' /\ SettledWasDone'
  BY <1>2, <1>4, WorkKept
<1>6. \A a \in Agents : SupervisorHolds(a)' /\ UnreportedMine(a)'
  <2> TAKE a \in Agents
  <2>1. \A l \in supervisor[a].batch : LeaseKept(l[1], l[2])
    BY <1>4, MemoryTypes DEF LeasesKept
  <2> QED
    BY <1>2, <1>3, <2>1, MemoryKept
<1>7. UnreportedIsMine' /\ SupervisorTypeOK'
  BY <1>1, <1>2, <1>3, <1>6 DEF UnreportedIsMine, UnreportedMine, SupervisorTypeOK, QueueInv
<1> QED
  BY <1>3, <1>5, <1>6, <1>7 DEF SupervisorInv

\* Before the first poll nothing was leased, worked or settled.
LEMMA SupervisorInitInv == SupervisorInit => SupervisorInv
<1> SUFFICES ASSUME SupervisorInit PROVE SupervisorInv
  OBVIOUS
<1>1. QueueInv /\ now = 0 /\ \A j \in Jobs, n \in Attempts : leases[j][n].state = "none"
  BY QueueInitInv DEF SupervisorInit, QueueInit, NoLease
<1>2. \A a \in Agents : supervisor[a] = NoSupervisor
  BY DEF SupervisorInit
<1>3. SupervisorTypeOK
  BY <1>1, NoSupervisorType DEF SupervisorInit, SupervisorTypeOK, QueueInv
<1>4. UnreportedIsMine /\ \A a \in Agents : SupervisorHolds(a)
  BY <1>1, <1>2 DEF UnreportedIsMine, SupervisorHolds, Unworked, NoSupervisor
<1>5. BegunUnderLease
  BY DEF SupervisorInit, BegunUnderLease
<1>6. SettledWasDone
  BY <1>1, SupervisorStates DEF SettledWasDone
<1> QED
  BY <1>1, <1>3, <1>4, <1>5, <1>6 DEF SupervisorInv

\* Every step of a supervisor, and every one around them, keeps the invariant.
LEMMA SupervisorNextInv ==
  SupervisorInv /\ [SupervisorNext]_supervisorVars => SupervisorInv'
<1> SUFFICES ASSUME SupervisorInv, [SupervisorNext]_supervisorVars PROVE SupervisorInv'
  OBVIOUS
<1>n. now \in Nat /\ \A t \in 0 .. now : t \in Nat
  BY DEF SupervisorInv, SupervisorTypeOK, QueueTypeOK
<1>1. ASSUME NEW a \in Agents, SupervisorStep(a) PROVE SupervisorInv'
  <2>1. CASE \E t \in 0 .. now : Poll(a, t)
    BY <2>1, PollInv
  <2>2. CASE \E chosen \in SUBSET Claimable(a, supervisor[a].clock) : Claim(a, chosen)
    BY <2>2, ClaimInv DEF Claimable
  <2>3. CASE \E t \in 0 .. now : \E chosen \in SUBSET Claimable(a, t) : LateClaim(a, chosen, t)
    BY <1>n, <2>3, LateClaimInv DEF Claimable
  <2>4. CASE ClaimNothing(a)
    BY <2>4, ForgetInv DEF ClaimNothing
  <2>5. CASE \E l \in supervisor[a].batch : BeginHandler(a, l)
    BY <2>5, BeginHandlerInv
  <2>6. CASE \E outcome \in Outcomes : EndHandler(a, outcome)
    BY <2>6, EndHandlerInv
  <2>7. CASE \E t \in 0 .. now : ReportResult(a, t)
    BY <1>n, <2>7, ReportResultInv
  <2>8. CASE ResultLost(a)
    BY <2>8, NextLeaseInv DEF ResultLost
  <2>9. CASE \E l \in GivenUp(a), t \in 0 .. now : LateResult(a, l, t)
    BY <1>n, <2>9, LateResultInv
  <2>10. CASE Answered(a)
    BY <2>10, NextLeaseInv DEF Answered
  <2>11. CASE SupervisorDies(a)
    BY <2>11, ForgetInv DEF SupervisorDies
  <2> QED
    BY <1>1, <2>1, <2>2, <2>3, <2>4, <2>5, <2>6, <2>7, <2>8, <2>9, <2>10, <2>11
       DEF SupervisorStep
<1>2. CASE AroundSupervisors
  BY <1>2, AroundInv
<1>3. CASE UNCHANGED supervisorVars
  <2>1. /\ UNCHANGED queueVars
        /\ supervisor' = supervisor /\ begun' = begun /\ done' = done
        /\ leases' = leases /\ now' = now
    BY <1>3 DEF supervisorVars, queueVars
  <2>2. QueueInv'
    BY <2>1, SameRows
  <2> QED
    BY <2>1, <2>2 DEF SupervisorInv, SupervisorTypeOK, QueueInv, UnreportedIsMine,
                      BegunUnderLease, SettledWasDone, SupervisorHolds, Unworked
<1> QED
  BY <1>1, <1>2, <1>3 DEF SupervisorNext

-----------------------------------------------------------------------------

\* Every reachable state of the supervisors and the queue satisfies the invariant.
THEOREM SupervisorInvariant == SupervisorSpec => []SupervisorInv
<1>1. SupervisorInit => SupervisorInv
  BY SupervisorInitInv
<1>2. SupervisorInv /\ [SupervisorNext]_supervisorVars => SupervisorInv'
  BY SupervisorNextInv
<1> QED
  BY <1>1, <1>2, PTL DEF SupervisorSpec

\* The memory of a supervisor keeps its type, as do the rows of the queue.
THEOREM SupervisorTypeCorrect == SupervisorSpec => []SupervisorTypeOK
<1>1. SupervisorInv => SupervisorTypeOK
  BY DEF SupervisorInv
<1> QED
  BY <1>1, SupervisorInvariant, PTL

\* A lease that is still to be worked or reported is open, or it lapsed, and no
\* other supervisor has it.
THEOREM UnreportedLeasesAreMine == SupervisorSpec => []UnreportedIsMine
<1>1. SupervisorInv => UnreportedIsMine
  BY DEF SupervisorInv
<1> QED
  BY <1>1, SupervisorInvariant, PTL

\* What is recorded of a lease and of a job was done by a handler.
THEOREM VerdictsArePerformed == SupervisorSpec => []VerdictIsPerformed
<1>1. SupervisorInv => VerdictIsPerformed
  BY SupervisorStates DEF SupervisorInv, SettledWasDone, QueueInv, VerdictFromLastLease,
                          VerdictIsPerformed
<1> QED
  BY <1>1, SupervisorInvariant, PTL

\* No attempt is worked twice, and none beyond the budget of its job.
THEOREM BudgetsHold == SupervisorSpec => []WorkedWithinBudget
<1>1. ASSUME SupervisorInv PROVE WorkedWithinBudget
  <2> SUFFICES ASSUME NEW j \in Jobs, NEW n \in Attempts
               PROVE  begun[j][n] <= 1 /\ (n > MaxAttempts[j] => begun[j][n] = 0)
    BY DEF WorkedWithinBudget
  <2>1. begun[j][n] <= 1 /\ (begun[j][n] # 0 => leases[j][n].state # "none")
    BY <1>1 DEF SupervisorInv, BegunUnderLease
  <2>2. leases[j][n] # NoLease => n <= jobs[j].attempt /\ jobs[j].attempt <= MaxAttempts[j]
    BY <1>1 DEF SupervisorInv, QueueInv, JobRowsConsistent
  <2>3. jobs[j].attempt \in Nat /\ n \in Nat /\ MaxAttempts[j] \in Nat
    <3>1. jobs[j] \in Job
      BY <1>1 DEF SupervisorInv, QueueInv, QueueTypeOK
    <3>2. MaxAttempts[j] \in 1 .. AttemptLimit /\ n \in 1 .. AttemptLimit
      BY ConstantsAssumption DEF Attempts
    <3> QED
      BY <3>1, <3>2 DEF Job
  <2>4. leases[j][n].state # "none" => leases[j][n] # NoLease
    BY DEF NoLease
  <2> QED
    BY <2>1, <2>2, <2>3, <2>4
<1> QED
  BY <1>1, SupervisorInvariant, PTL

\* The supervisors use the queue only through its transactions: everything that
\* is proved of QueueSpec holds of jobs that supervisors work.
THEOREM SupervisorRunsOnQueue == SupervisorSpec => QueueSpec
<1>1. SupervisorInit => QueueInit
  BY DEF SupervisorInit
<1>2. SupervisorInv /\ [SupervisorNext]_supervisorVars => [QueueNext]_queueVars
  <2> SUFFICES ASSUME SupervisorInv, [SupervisorNext]_supervisorVars,
                      ~ UNCHANGED queueVars
               PROVE  QueueNext
    OBVIOUS
  <2>1. ASSUME NEW a \in Agents, NEW t \in 0 .. now, Poll(a, t) PROVE QueueNext
    BY <2>1 DEF Poll, QueueNext
  <2>2. ASSUME NEW a \in Agents, NEW chosen \in SUBSET Jobs, Claim(a, chosen)
        PROVE  QueueNext
    <3>1. supervisor[a].clock \in 0 .. now /\ ClaimWork(a, chosen, supervisor[a].clock)
      BY <2>2, MemoryTypes DEF Claim
    <3> QED
      BY <3>1 DEF QueueNext
  <2>3. ASSUME NEW a \in Agents, NEW t \in 0 .. now, ReportResult(a, t)
        PROVE  QueueNext
    <3> DEFINE l == supervisor[a].lease
               outcome == supervisor[a].result
    <3>1. supervisor[a].at = "report" /\ SettleLease(a, l[1], l[2], outcome, t)
      BY <2>3 DEF ReportResult
    <3>2. l \in supervisor[a].batch
      BY <3>1 DEF SupervisorInv, SupervisorHolds
    <3>3. l[1] \in Jobs /\ l[2] \in Attempts /\ outcome \in Outcomes
      BY <3>2, MemoryTypes
    <3> HIDE DEF l, outcome
    <3> QED
      BY <3>1, <3>3 DEF QueueNext
  <2>4. ASSUME NEW a \in Agents, NEW chosen \in SUBSET Jobs, NEW t \in 0 .. now,
               LateClaim(a, chosen, t)
        PROVE  QueueNext
    BY <2>4 DEF LateClaim, QueueNext
  <2>5. ASSUME NEW a \in Agents, NEW l \in GivenUp(a), NEW t \in 0 .. now, LateResult(a, l, t)
        PROVE  QueueNext
    <3> DEFINE outcome == done[l[1]][l[2]]
    <3>1. l[1] \in Jobs /\ l[2] \in Attempts /\ outcome # "none"
      BY DEF GivenUp, WorkLease
    <3>2. outcome \in Outcomes
      BY <3>1 DEF SupervisorInv, SupervisorTypeOK
    <3>3. SettleLease(a, l[1], l[2], outcome, t)
      BY <2>5 DEF LateResult
    <3> HIDE DEF outcome
    <3> QED
      BY <3>1, <3>2, <3>3 DEF QueueNext
  <2>6. CASE AroundSupervisors
    BY <2>6 DEF AroundSupervisors, QueueNext
  <2>7. ASSUME NEW a \in Agents, SupervisorStep(a) PROVE QueueNext
    <3>1. ~ \E l \in supervisor[a].batch : BeginHandler(a, l)
      BY DEF BeginHandler
    <3>2. ~ \E outcome \in Outcomes : EndHandler(a, outcome)
      BY DEF EndHandler
    <3>3. ~ClaimNothing(a) /\ ~ResultLost(a) /\ ~Answered(a) /\ ~SupervisorDies(a)
      BY DEF ClaimNothing, ResultLost, Answered, SupervisorDies
    <3>4. ASSUME NEW t PROVE Claimable(a, t) \subseteq Jobs
      BY DEF Claimable
    <3> QED
      BY <2>1, <2>2, <2>3, <2>7, <2>4, <2>5, <3>1, <3>2, <3>3, <3>4 DEF SupervisorStep
  <2>8. ~ UNCHANGED supervisorVars
    BY DEF supervisorVars, queueVars
  <2> QED
    BY <2>6, <2>7, <2>8 DEF SupervisorNext
<1> QED
  BY <1>1, <1>2, SupervisorInvariant, PTL DEF SupervisorSpec, QueueSpec

=============================================================================
