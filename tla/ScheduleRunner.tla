--------------------------- MODULE ScheduleRunner ---------------------------
(* The maintenance schedule of one server: its row, the runs of its           *)
(* occurrences, the scheduler loops of the agents that serve it, and the      *)
(* durable operations the steps of a run are handed over as.                  *)
(*                                                                            *)
(* A run is identified by its occurrence: (schedule_id, scheduled_for) is     *)
(* unique and a take-over keeps the run_id, so the idempotency keys of the    *)
(* steps, made of run_id and position, are keyed by the occurrence as well.   *)
EXTENDS Naturals, Sequences, FiniteSetsExt

CONSTANTS
    Schedulers,    \* agent processes that run a scheduler loop for the server
    Occurrences,   \* instants the trigger resolves to
    Steps,         \* kinds of the steps, in order
    LeaseTime,     \* leaseSeconds
    Grace,         \* the 60 s after which an instant counts as missed
    MissedLimit,   \* how many missed instants a pass looks at
    SettleTimeout, \* how long a step waits for its operation
    StartTime,     \* when the modelled loops first run; nothing ran before
    MaxTime,       \* bound: the clock
    MaxEvents      \* bound: deaths of a loop and requests that switch the schedule

ASSUME ScheduleAssumption ==
    /\ Occurrences \subseteq Nat \ {0}
    /\ Steps \in Seq({"backup", "restart", "warn-players", "maintenance-check"})
    /\ Steps # <<>>
    /\ LeaseTime \in Nat \ {0} /\ Grace \in Nat /\ MissedLimit \in Nat \ {0}
    /\ SettleTimeout \in Nat /\ StartTime \in Nat
    /\ MaxTime \in Nat /\ MaxEvents \in Nat

VARIABLES
    clock,     \* wall clock, shared by the agents and the control API
    schedule,  \* server_schedules row
    run,       \* schedule_runs rows, by occurrence
    stepOp,    \* operations of the steps, by occurrence and position
    pass,      \* what each scheduler loop holds in memory
    toggle,    \* the request to switch the schedule that is in progress
    events     \* deaths and requests so far

scheduleVars == <<clock, schedule, run, stepOp, pass, toggle, events>>

Never == 0
NoScheduler == "none"
InFlightRun == {"claimed", "running"}
SettledRun == {"succeeded", "failed", "skipped"}
Positions == 1..Len(Steps)

Schedule == [enabled : BOOLEAN, nextRunAt : Occurrences \cup {Never}]
Run == [status : {"none"} \cup InFlightRun \cup SettledRun,
        claimedBy : Schedulers \cup {NoScheduler},
        leaseExpiresAt : Nat,
        verified : {"null", "true", "false"}]
StepOperation == {"none", "accepted", "running", "succeeded", "failed"}
Pass == [at : {"idle", "recover", "skip", "skipSettle", "claim",
               "advance", "accept", "queue", "record", "wait", "settle"},
         now : Nat,
         abandoned : SUBSET Occurrences,
         missed : SUBSET Occurrences,
         occurrence : Occurrences \cup {Never},
         step : Nat,
         deadline : Nat,
         status : SettledRun,
         verified : {"null", "true", "false"}]

NoRun == [status |-> "none", claimedBy |-> NoScheduler,
          leaseExpiresAt |-> 0, verified |-> "null"]
NoPass == [at |-> "idle", now |-> 0, abandoned |-> {}, missed |-> {},
           occurrence |-> Never, step |-> 0, deadline |-> 0,
           status |-> "succeeded", verified |-> "null"]
NoToggle == [at |-> "none", enabled |-> FALSE, nextRunAt |-> Never]

-----------------------------------------------------------------------------
(* The trigger.                                                               *)

\* nextRunAfter: the first instant strictly after t; a trigger that resolves
\* to none is null.
NextRunAfter(t) ==
    LET later == {o \in Occurrences : o > t}
    IN  IF later = {} THEN Never ELSE Min(later)

\* missedOccurrences: from the due instant on, oldest first, at most limit.
MissedOccurrences(dueAt, now) ==
    LET passed == {o \in Occurrences : dueAt <= o /\ o <= now}
    IN  {o \in passed : Cardinality({p \in passed : p < o}) < MissedLimit}

Stale(dueAt, now) == {o \in MissedOccurrences(dueAt, now) : o + Grace < now}

\* The occurrence a pass runs: the newest of the stale ones, or the due one.
Target(dueAt, now) ==
    IF Stale(dueAt, now) = {} THEN dueAt ELSE Max(Stale(dueAt, now))

-----------------------------------------------------------------------------
(* The statements of the schedule repository.                                 *)

\* Mutant: a take-over looks only at a run that has not begun.
LapsedUnbegun(o, now) == run[o].status = "claimed" /\ run[o].leaseExpiresAt <= now

Lapsed(o, now) == run[o].status \in InFlightRun /\ run[o].leaseExpiresAt <= now

\* Mutant: the conflict clause looks at the lease and lets a finished run in.
MayClaimFinished(o, now) == run[o].leaseExpiresAt <= now \/ run[o].status \in SettledRun

MayClaim(o, now) == run[o].status = "none" \/ Lapsed(o, now)

ClaimOccurrence(s, o, now) ==
    run' = [run EXCEPT ![o].status = "claimed", ![o].claimedBy = s,
                       ![o].leaseExpiresAt = now + LeaseTime]

\* Mutant: the next run is written whether or not the schedule is on.
SettleRunAnyway(o, status, verified, nextRunAt) ==
    /\ run' = [run EXCEPT ![o].status = status, ![o].verified = verified]
    /\ schedule' = [schedule EXCEPT !.nextRunAt = nextRunAt]

SettleRun(o, status, verified, nextRunAt) ==
    /\ run' = [run EXCEPT ![o].status = status, ![o].verified = verified]
    /\ schedule' = [schedule EXCEPT !.nextRunAt =
                        IF schedule.enabled THEN nextRunAt ELSE Never]

\* A settle that is refused leaves everything alone; the loop swallows it.
TrySettle(o, status, verified, nextRunAt) ==
    \/ /\ run[o].status \in InFlightRun
       /\ SettleRun(o, status, verified, nextRunAt)
    \/ /\ run[o].status \notin InFlightRun
       /\ UNCHANGED <<run, schedule>>

-----------------------------------------------------------------------------
(* One pass of a loop.                                                        *)

Idle(s) == pass' = [pass EXCEPT ![s] = NoPass]

\* runOnce reads the clock once and lists what was abandoned at that instant.
BeginPass(s) ==
    /\ pass[s].at = "idle"
    /\ pass' = [pass EXCEPT ![s].at = "recover", ![s].now = clock,
                            ![s].abandoned = {o \in Occurrences : Lapsed(o, clock)}]
    /\ UNCHANGED <<clock, schedule, run, stepOp, toggle, events>>

RecoverAbandoned(s) ==
    /\ pass[s].at = "recover"
    /\ \E o \in pass[s].abandoned :
         /\ TrySettle(o, "failed", "null", NextRunAfter(pass[s].now))
         /\ pass' = [pass EXCEPT ![s].abandoned = @ \ {o}]
    /\ UNCHANGED <<clock, stepOp, toggle, events>>

IsDue(now) ==
    schedule.enabled /\ schedule.nextRunAt # Never /\ schedule.nextRunAt <= now

ListDue(s) ==
    LET p == pass[s]
        dueAt == schedule.nextRunAt
    IN  /\ p.at = "recover" /\ p.abandoned = {}
        /\ \/ /\ IsDue(p.now)
              /\ pass' = [pass EXCEPT ![s].at = "skip",
                              ![s].occurrence = Target(dueAt, p.now),
                              ![s].missed = Stale(dueAt, p.now) \ {Target(dueAt, p.now)}]
           \/ ~IsDue(p.now) /\ Idle(s)
        /\ UNCHANGED <<clock, schedule, run, stepOp, toggle, events>>

\* recordSkipped, oldest first: claims, then settles as skipped. A failure of
\* either is swallowed.
SkipClaim(s) ==
    LET p == pass[s]
        o == Min(p.missed)
    IN  /\ p.at = "skip" /\ p.missed # {}
        /\ \/ /\ MayClaim(o, p.now)
              /\ ClaimOccurrence(s, o, p.now)
              /\ pass' = [pass EXCEPT ![s].at = "skipSettle"]
           \/ /\ ~MayClaim(o, p.now)
              /\ pass' = [pass EXCEPT ![s].missed = @ \ {o}]
              /\ UNCHANGED run
        /\ UNCHANGED <<clock, schedule, stepOp, toggle, events>>

SkipSettle(s) ==
    LET p == pass[s]
        o == Min(p.missed)
    IN  /\ p.at = "skipSettle"
        /\ TrySettle(o, "skipped", "null", NextRunAfter(p.now))
        /\ pass' = [pass EXCEPT ![s].at = "skip", ![s].missed = @ \ {o}]
        /\ UNCHANGED <<clock, stepOp, toggle, events>>

ClaimTarget(s) ==
    LET p == pass[s]
        o == p.occurrence
    IN  /\ p.at = "skip" /\ p.missed = {}
        /\ \/ /\ MayClaim(o, p.now)
              /\ ClaimOccurrence(s, o, p.now)
              /\ pass' = [pass EXCEPT ![s].at = "advance", ![s].step = 1]
           \/ ~MayClaim(o, p.now) /\ Idle(s) /\ UNCHANGED run
        /\ UNCHANGED <<clock, schedule, stepOp, toggle, events>>

\* advance renews the lease from a fresh reading of the clock. It names the
\* run, not the claimant; a run that was settled in between stops the loop.
Advance(s) ==
    LET o == pass[s].occurrence
    IN  /\ pass[s].at = "advance"
        /\ \/ /\ run[o].status \in InFlightRun
              /\ run' = [run EXCEPT ![o].status = "running",
                                    ![o].leaseExpiresAt = clock + LeaseTime]
              /\ pass' = [pass EXCEPT ![s].at = "accept"]
           \/ run[o].status \notin InFlightRun /\ Idle(s) /\ UNCHANGED run
        /\ UNCHANGED <<clock, schedule, stepOp, toggle, events>>

-----------------------------------------------------------------------------
(* The step executor: accept, enqueue, wait.                                  *)

OperationOpen(o, i) == stepOp[o][i] \in {"accepted", "running"}

StepDone(s) ==
    LET p == pass[s]
        verified == IF Steps[p.step] = "restart" THEN "true" ELSE p.verified
    IN  pass' = [pass EXCEPT
            ![s].verified = verified,
            ![s].step = IF p.step = Len(Steps) THEN p.step ELSE p.step + 1,
            ![s].at = IF p.step = Len(Steps) THEN "settle" ELSE "advance"]

\* Mutant: the loop leaves the remaining steps out and forgets why.
StepFailedForgotten(s) == pass' = [pass EXCEPT ![s].at = "settle"]

StepFailed(s) ==
    pass' = [pass EXCEPT
        ![s].at = "settle", ![s].status = "failed",
        ![s].verified = IF Steps[pass[s].step] = "restart" THEN "false" ELSE @]

StepWaits(s) == pass' = [pass EXCEPT ![s].at = "wait", ![s].deadline = clock + SettleTimeout]

\* Mutant: the operation of a step is accepted beside any other.
AcceptStepBeside(s) ==
    LET p == pass[s]
        o == p.occurrence
        i == p.step
    IN  /\ p.at = "accept"
        /\ \/ /\ stepOp[o][i] # "none"
              /\ StepWaits(s)
              /\ UNCHANGED stepOp
           \/ /\ stepOp[o][i] = "none" /\ Steps[i] \in {"backup", "restart"}
              /\ stepOp' = [stepOp EXCEPT ![o][i] = "accepted"]
              /\ pass' = [pass EXCEPT ![s].at = "queue"]
        /\ UNCHANGED <<clock, schedule, run, toggle, events>>

\* The key of the step finds an operation of the same run again. Otherwise one
\* operation may be in flight per server: the step's own, or one an operator
\* asked for, which this module does not model. A warning to the players or a
\* check of them has nothing that executes it and fails the run at once.
AcceptStep(s) ==
    LET p == pass[s]
        o == p.occurrence
        i == p.step
    IN  /\ p.at = "accept"
        /\ \/ /\ stepOp[o][i] # "none"
              /\ StepWaits(s)
              /\ UNCHANGED stepOp
           \/ /\ stepOp[o][i] = "none" /\ Steps[i] \in {"backup", "restart"}
              /\ \A q \in Occurrences, j \in Positions : ~OperationOpen(q, j)
              /\ stepOp' = [stepOp EXCEPT ![o][i] = "accepted"]
              /\ pass' = [pass EXCEPT ![s].at = "queue"]
           \/ stepOp[o][i] = "none" /\ StepFailed(s) /\ UNCHANGED stepOp
        /\ UNCHANGED <<clock, schedule, run, toggle, events>>

\* jobs.enqueue and markRunning in one step, and a backup is then recorded as
\* being taken. A job reported between the two orphans the operation; here that is
\* one that never ends, which no fairness excludes.
QueueStep(s) ==
    LET p == pass[s]
    IN  /\ p.at = "queue"
        /\ stepOp' = [stepOp EXCEPT ![p.occurrence][p.step] = "running"]
        /\ \/ Steps[p.step] = "backup" /\ pass' = [pass EXCEPT ![s].at = "record"]
           \/ Steps[p.step] = "restart" /\ StepWaits(s)
        /\ UNCHANGED <<clock, schedule, run, toggle, events>>

\* backups.begin is refused while another backup of the server is being taken.
RecordBackup(s) ==
    /\ pass[s].at = "record"
    /\ StepWaits(s) \/ StepFailed(s)
    /\ UNCHANGED <<clock, schedule, run, stepOp, toggle, events>>

\* Mutant: an operation still in flight at the deadline counts as done.
WaitForSettlementOrDeadline(s) ==
    LET status == stepOp[pass[s].occurrence][pass[s].step]
    IN  /\ pass[s].at = "wait"
        /\ \/ (status = "succeeded" \/ clock >= pass[s].deadline) /\ StepDone(s)
           \/ status = "failed" /\ StepFailed(s)
        /\ UNCHANGED <<clock, schedule, run, stepOp, toggle, events>>

WaitForSettlement(s) ==
    LET p == pass[s]
        status == stepOp[p.occurrence][p.step]
    IN  /\ p.at = "wait"
        /\ \/ status = "succeeded" /\ StepDone(s)
           \/ status = "failed" /\ StepFailed(s)
           \/ /\ status \in {"accepted", "running"}
              /\ clock >= p.deadline
              /\ StepFailed(s)
        /\ UNCHANGED <<clock, schedule, run, stepOp, toggle, events>>

FinishRun(s) ==
    LET p == pass[s]
    IN  /\ p.at = "settle"
        /\ TrySettle(p.occurrence, p.status, p.verified, NextRunAfter(clock))
        /\ Idle(s)
        /\ UNCHANGED <<clock, stepOp, toggle, events>>

-----------------------------------------------------------------------------
(* What happens around the loops.                                             *)

\* The agent that serves the queue ends the operation of a queued step.
SettleOperation(o, i) ==
    /\ stepOp[o][i] = "running"
    /\ \E outcome \in {"succeeded", "failed"} :
         stepOp' = [stepOp EXCEPT ![o][i] = outcome]
    /\ UNCHANGED <<clock, schedule, run, pass, toggle, events>>

\* POST .../enabled: the next run is computed from the clock, then stored.
RequestToggle(enabled) ==
    /\ toggle.at = "none" /\ events < MaxEvents
    /\ toggle' = [at |-> "store", enabled |-> enabled,
                  nextRunAt |-> IF enabled THEN NextRunAfter(clock) ELSE Never]
    /\ events' = events + 1
    /\ UNCHANGED <<clock, schedule, run, stepOp, pass>>

SetEnabled ==
    /\ toggle.at = "store"
    /\ schedule' = [enabled |-> toggle.enabled, nextRunAt |-> toggle.nextRunAt]
    /\ toggle' = NoToggle
    /\ UNCHANGED <<clock, run, stepOp, pass, events>>

\* A process dies and is started again: what it held in memory is gone. Only
\* while the clock is within its bound, so that every lease can still lapse.
SchedulerDies(s) ==
    /\ pass[s].at # "idle" /\ events < MaxEvents /\ clock <= MaxTime
    /\ Idle(s)
    /\ events' = events + 1
    /\ UNCHANGED <<clock, schedule, run, stepOp, toggle>>

ScheduleTick ==
    /\ clock < MaxTime + LeaseTime
    /\ clock' = clock + 1
    /\ UNCHANGED <<schedule, run, stepOp, pass, toggle, events>>

-----------------------------------------------------------------------------

ScheduleInit ==
    /\ clock = StartTime
    /\ schedule \in [enabled : {TRUE}, nextRunAt : Occurrences]
                       \cup {[enabled |-> FALSE, nextRunAt |-> Never]}
    /\ run = [o \in Occurrences |-> NoRun]
    /\ stepOp = [o \in Occurrences |-> [i \in Positions |-> "none"]]
    /\ pass = [s \in Schedulers |-> NoPass]
    /\ toggle = NoToggle
    /\ events = 0

PassStep(s) ==
    \/ BeginPass(s) \/ RecoverAbandoned(s) \/ ListDue(s)
    \/ SkipClaim(s) \/ SkipSettle(s) \/ ClaimTarget(s)
    \/ Advance(s) \/ AcceptStep(s) \/ QueueStep(s) \/ RecordBackup(s)
    \/ WaitForSettlement(s) \/ FinishRun(s)

ScheduleNext ==
    \/ \E s \in Schedulers : PassStep(s) \/ SchedulerDies(s)
    \/ \E o \in Occurrences, i \in Positions : SettleOperation(o, i)
    \/ \E e \in BOOLEAN : RequestToggle(e)
    \/ SetEnabled
    \/ ScheduleTick

ScheduleSpec == ScheduleInit /\ [][ScheduleNext]_scheduleVars

\* Each loop keeps running its passes, and time passes.
ScheduleFairness ==
    /\ \A s \in Schedulers : WF_scheduleVars(PassStep(s))
    /\ WF_scheduleVars(ScheduleTick)

FairScheduleSpec == ScheduleSpec /\ ScheduleFairness

-----------------------------------------------------------------------------
(* Properties.                                                                *)

\* Rows, requests and passes have the shapes the contracts and tables give.
ScheduleTypeOK ==
    /\ clock \in Nat /\ events \in Nat
    /\ schedule \in Schedule
    /\ run \in [Occurrences -> Run]
    /\ stepOp \in [Occurrences -> [Positions -> StepOperation]]
    /\ pass \in [Schedulers -> Pass]
    /\ toggle \in [at : {"none", "store"}, enabled : BOOLEAN,
                   nextRunAt : Occurrences \cup {Never}]

\* A schedule that is off has no next run, however a settlement and a request
\* that switches it off interleave (server_schedules_disabled_has_no_next_run).
DisabledStaysOff == ~schedule.enabled => schedule.nextRunAt = Never

\* A run reported as succeeded did every step: each operation it handed over
\* succeeded, and a restart among them was seen to come back.
SuccessIsEarned ==
    \A o \in Occurrences : run[o].status = "succeeded" =>
        /\ \A i \in Positions : stepOp[o][i] = "succeeded"
        /\ (\E i \in Positions : Steps[i] = "restart") => run[o].verified = "true"

\* A step is handed over only after the operations of all earlier steps
\* succeeded, whichever loops acted on the run: no restart without its backup.
StepsInOrder ==
    \A o \in Occurrences, i \in Positions : stepOp[o][i] # "none" =>
        \A j \in 1..(i - 1) : stepOp[o][j] = "succeeded"

\* A settled run is never claimed, advanced or settled again, by any loop
\* acting on what it read earlier.
SettledRunsAreFinal ==
    [][\A o \in Occurrences : run[o].status \in SettledRun => run'[o] = run[o]]_scheduleVars

\* A due occurrence is settled, or the schedule is pointed elsewhere, although
\* the loops that claim it may die at any step.
DueIsHandled ==
    \A o \in Occurrences :
        (schedule.nextRunAt = o /\ o <= clock) ~>
            (run[o].status \in SettledRun \/ schedule.nextRunAt # o)

\* What the plan sees of an operation: it is in flight from its acceptance on.
Seen(status) ==
    CASE status = "none" -> "waiting"
      [] status \in {"accepted", "running"} -> "inFlight"
      [] OTHER -> status

PlanStep == [o \in Occurrences |-> [i \in Positions |-> Seen(stepOp[o][i])]]

PlanDecision ==
    [o \in Occurrences |-> IF run[o].status \in SettledRun THEN run[o].status ELSE "open"]

Plan == INSTANCE MaintenancePlan WITH
            Occasions <- Occurrences, Length <- Len(Steps),
            step <- PlanStep, decision <- PlanDecision

\* The loops together, however they interleave, die and take over, carry out
\* the plan: no step is handed over twice, beside another one or out of order,
\* and what was decided of an occurrence stays.
ImplementsMaintenancePlan == Plan!PlanSpec

=============================================================================
