------------------------ MODULE ScheduleRunnerProofs ------------------------
(***************************************************************************)
(* ScheduleInv is an inductive invariant of the schedule and the loops     *)
(* that run it, for any number of loops, occurrences and steps, and any    *)
(* leases and deadlines. From it: a success is earned, steps are handed    *)
(* over in order, a settled run stays settled, and the loops together      *)
(* carry out the plan of MaintenancePlan.                                  *)
(***************************************************************************)
EXTENDS ScheduleRunner, WellFoundedInduction, TLAPS

USE ScheduleAssumption

\* The loop has a claimed run and is at one of its steps.
AtStep(s) == pass[s].at \in {"advance", "accept", "queue", "record", "wait"}

\* Up to its first step a pass has decided nothing.
PassUndecided(s) ==
    /\ pass[s].at \in {"idle", "recover", "skip", "skipSettle"} => pass[s].status = "succeeded"
    /\ pass[s].at \in {"skip", "skipSettle"} => pass[s].occurrence \in Occurrences
    /\ pass[s].at = "skipSettle" => pass[s].missed # {}

\* A loop at a step knows that all earlier steps succeeded.
EarlierStepsDone(s) ==
    AtStep(s) =>
        /\ pass[s].occurrence \in Occurrences
        /\ pass[s].step \in Positions
        /\ pass[s].status = "succeeded"
        /\ \A j \in 1..(pass[s].step - 1) :
              /\ stepOp[pass[s].occurrence][j] = "succeeded"
              /\ Steps[j] = "restart" => pass[s].verified = "true"

\* Only the loop that accepted an operation enqueues it, and only once.
AcceptedIsMine(s) ==
    pass[s].at = "queue" => stepOp[pass[s].occurrence][pass[s].step] = "accepted"

\* What a loop is about to record of a run is so.
VerdictIsTrue(s) ==
    pass[s].at = "settle" =>
        /\ pass[s].occurrence \in Occurrences
        /\ pass[s].status = "succeeded" =>
              \A j \in Positions :
                 /\ stepOp[pass[s].occurrence][j] = "succeeded"
                 /\ Steps[j] = "restart" => pass[s].verified = "true"

PassInv(s) ==
    PassUndecided(s) /\ EarlierStepsDone(s) /\ AcceptedIsMine(s) /\ VerdictIsTrue(s)

\* No two loops are about to enqueue one operation.
LoopsApart ==
    \A r, s \in Schedulers :
        /\ pass[r].at = "queue" /\ pass[s].at = "queue"
        /\ pass[r].occurrence = pass[s].occurrence
        /\ pass[r].step = pass[s].step
        => r = s

\* A request that switches the schedule off carries no next run.
ToggleSound == ~toggle.enabled => toggle.nextRunAt = Never

ScheduleInv ==
    /\ ScheduleTypeOK
    /\ DisabledStaysOff /\ ToggleSound
    /\ SuccessIsEarned /\ StepsInOrder
    /\ LoopsApart
    /\ \A s \in Schedulers : PassInv(s)

-----------------------------------------------------------------------------
(* Instants.                                                                  *)

\* A set of instants has an earliest one.
LEMMA EarliestIsThere ==
  ASSUME NEW S \in SUBSET Nat, S # {}
  PROVE  \E x \in S : \A y \in S : x <= y
<1>1. PICK x \in S : \A y \in S : ~(<<y, x>> \in OpToRel(<, Nat))
  BY NatLessThanWellFounded, WFMin
<1>2. ASSUME NEW y \in S PROVE x <= y
  <2>1. <<y, x>> \notin OpToRel(<, Nat)
    BY <1>1
  <2>2. x \in Nat /\ y \in Nat
    OBVIOUS
  <2>3. ~(y < x)
    BY <2>1, <2>2 DEF OpToRel
  <2> QED
    BY <2>2, <2>3
<1> QED
  BY <1>2

LEMMA MinIsThere ==
  ASSUME NEW S \in SUBSET Nat, S # {}
  PROVE  Min(S) \in S
BY EarliestIsThere DEF Min

\* A bounded set of instants has a latest one.
LEMMA MaxIsThere ==
  ASSUME NEW n \in Nat, NEW S \in SUBSET (0 .. n), S # {}
  PROVE  Max(S) \in S
<1> DEFINE T == {n - x : x \in S}
<1>1. ASSUME NEW y \in T PROVE y \in Nat
  <2>1. PICK x \in S : y = n - x
    OBVIOUS
  <2>2. x \in 0 .. n
    OBVIOUS
  <2> QED
    BY <2>1, <2>2
<1>a. T \in SUBSET Nat
  BY <1>1
<1>b. T # {}
  OBVIOUS
<1> HIDE DEF T
<1>2. PICK d \in T : \A y \in T : d <= y
  BY <1>a, <1>b, EarliestIsThere
<1>4. PICK x \in S : d = n - x
  BY DEF T
<1>6. ASSUME NEW y \in S PROVE x >= y
  <2>1. n - y \in T
    BY DEF T
  <2>2. n - x <= n - y
    BY <1>2, <1>4, <2>1
  <2>3. x \in 0 .. n /\ y \in 0 .. n
    OBVIOUS
  <2> QED
    BY <2>2, <2>3
<1> QED
  BY <1>6 DEF Max

\* nextRunAfter answers with an occurrence or with null.
LEMMA NextRunType ==
  ASSUME NEW t
  PROVE  NextRunAfter(t) \in Occurrences \cup {Never}
<1> DEFINE later == {o \in Occurrences : o > t}
<1>1. later \in SUBSET Nat
  OBVIOUS
<1>2. later # {} => Min(later) \in later
  BY <1>1, MinIsThere
<1> QED
  BY <1>2 DEF NextRunAfter

\* The occurrence a pass runs is one of the trigger's.
LEMMA TargetType ==
  ASSUME NEW dueAt \in Occurrences, NEW t \in Nat
  PROVE  Target(dueAt, t) \in Occurrences
<1>1. Stale(dueAt, t) \subseteq Occurrences
  BY DEF Stale, MissedOccurrences
<1>2. Stale(dueAt, t) \in SUBSET (0 .. t)
  <2>1. ASSUME NEW o \in Stale(dueAt, t) PROVE o \in 0 .. t
    <3>1. o \in Occurrences /\ o <= t
      BY DEF Stale, MissedOccurrences
    <3> QED
      BY <3>1
  <2> QED
    BY <2>1
<1>3. Stale(dueAt, t) # {} => Max(Stale(dueAt, t)) \in Stale(dueAt, t)
  BY <1>2, MaxIsThere
<1> QED
  BY <1>1, <1>3 DEF Target

LEMMA StepsType ==
  /\ Len(Steps) \in Nat \ {0}
  /\ \A i \in Positions : Steps[i] \in {"backup", "restart", "warn-players", "maintenance-check"}
  /\ 1 \in Positions
<1>1. /\ Len(Steps) \in Nat
     /\ \A i \in 1 .. Len(Steps) :
          Steps[i] \in {"backup", "restart", "warn-players", "maintenance-check"}
  OBVIOUS
<1>2. Len(Steps) # 0
  OBVIOUS
<1> QED
  BY <1>1, <1>2 DEF Positions

-----------------------------------------------------------------------------
(* Steps of a loop that leave the operations alone.                           *)

\* A loop changes its pass, and every other loop keeps what it has in hand.
LEMMA PassMoves ==
  ASSUME ScheduleInv, NEW s \in Schedulers, NEW p \in Pass,
         pass' = [pass EXCEPT ![s] = p], stepOp' = stepOp,
         p.at # "queue", PassInv(s)'
  PROVE  /\ pass' \in [Schedulers -> Pass]
         /\ \A r \in Schedulers : PassInv(r)'
         /\ LoopsApart'
<1>1. pass \in [Schedulers -> Pass]
  BY DEF ScheduleInv, ScheduleTypeOK
<1>2. pass' \in [Schedulers -> Pass]
  BY <1>1
<1>3. \A r \in Schedulers : r # s => pass'[r] = pass[r]
  BY <1>1
<1>4. ASSUME NEW r \in Schedulers, r # s PROVE PassInv(r)'
  <2>1. PassInv(r)
    BY DEF ScheduleInv
  <2>2. pass'[r] = pass[r]
    BY <1>3, <1>4
  <2> QED
    BY <2>1, <2>2 DEF PassInv, PassUndecided, EarlierStepsDone, AcceptedIsMine, VerdictIsTrue, AtStep
<1>5. LoopsApart'
  <2>1. pass'[s].at # "queue"
    BY <1>1
  <2>2. LoopsApart
    BY DEF ScheduleInv
  <2> QED
    BY <1>3, <2>1, <2>2 DEF LoopsApart
<1> QED
  BY <1>2, <1>4, <1>5

\* The rows keep their facts while neither operations nor runs change.
LEMMA RowsKept ==
  ASSUME ScheduleInv, run' = run, stepOp' = stepOp
  PROVE  SuccessIsEarned' /\ StepsInOrder'
BY DEF ScheduleInv, SuccessIsEarned, StepsInOrder

\* A settlement that records what is so keeps the rows sound.
LEMMA SettleKeepsRows ==
  ASSUME ScheduleInv, stepOp' = stepOp,
         NEW o \in Occurrences, NEW status \in SettledRun,
         NEW verified \in {"null", "true", "false"},
         NEW next \in Occurrences \cup {Never},
         TrySettle(o, status, verified, next),
         status = "succeeded" =>
            \A j \in Positions : /\ stepOp[o][j] = "succeeded"
                                 /\ Steps[j] = "restart" => verified = "true"
  PROVE  /\ run' \in [Occurrences -> Run]
         /\ schedule' \in Schedule
         /\ DisabledStaysOff' /\ SuccessIsEarned' /\ StepsInOrder'
<1>1. /\ run \in [Occurrences -> Run] /\ schedule \in Schedule
      /\ DisabledStaysOff /\ SuccessIsEarned /\ StepsInOrder
  BY DEF ScheduleInv, ScheduleTypeOK
<1>2. StepsInOrder'
  BY <1>1 DEF StepsInOrder
<1>3. CASE UNCHANGED <<run, schedule>>
  BY <1>1, <1>2, <1>3 DEF DisabledStaysOff, SuccessIsEarned
<1>4. CASE SettleRun(o, status, verified, next)
  <2>1. run' = [run EXCEPT ![o].status = status, ![o].verified = verified]
    BY <1>4 DEF SettleRun
  <2>2. run[o] \in Run /\ status \in {"none"} \cup InFlightRun \cup SettledRun
    BY <1>1
  <2>3. [[run[o] EXCEPT !.status = status] EXCEPT !.verified = verified] \in Run
    BY <2>2 DEF Run
  <2>4. run' \in [Occurrences -> Run]
    BY <1>1, <2>1, <2>3
  <2>5. /\ run'[o].status = status /\ run'[o].verified = verified
        /\ \A q \in Occurrences : q # o => run'[q] = run[q]
    BY <1>1, <2>1, <2>2 DEF Run
  <2>6. SuccessIsEarned'
    BY <1>1, <2>5 DEF SuccessIsEarned
  <2>7. schedule' = [schedule EXCEPT !.nextRunAt = IF schedule.enabled THEN next ELSE Never]
    BY <1>4 DEF SettleRun
  <2>8. schedule' \in Schedule /\ DisabledStaysOff'
    BY <1>1, <2>7 DEF Schedule, DisabledStaysOff
  <2> QED
    BY <1>2, <2>4, <2>6, <2>8
<1> QED
  BY <1>3, <1>4 DEF TrySettle

\* A claim, a take-over or a renewed lease leaves a run in flight.
LEMMA InFlightKeepsRows ==
  ASSUME ScheduleInv, stepOp' = stepOp,
         NEW o \in Occurrences, NEW row \in Run, row.status \in InFlightRun,
         run' = [run EXCEPT ![o] = row]
  PROVE  /\ run' \in [Occurrences -> Run]
         /\ SuccessIsEarned' /\ StepsInOrder'
<1>1. run \in [Occurrences -> Run] /\ SuccessIsEarned /\ StepsInOrder
  BY DEF ScheduleInv, ScheduleTypeOK
<1>2. run' \in [Occurrences -> Run]
  BY <1>1
<1>3. SuccessIsEarned'
  BY <1>1 DEF SuccessIsEarned, InFlightRun
<1>4. StepsInOrder'
  BY <1>1 DEF StepsInOrder
<1> QED
  BY <1>2, <1>3, <1>4

\* ClaimOccurrence writes such a row.
LEMMA ClaimRow ==
  ASSUME ScheduleInv, NEW s \in Schedulers, NEW o \in Occurrences, NEW t \in Nat,
         ClaimOccurrence(s, o, t)
  PROVE  \E row \in Run : row.status \in InFlightRun /\ run' = [run EXCEPT ![o] = row]
<1>1. run[o] \in Run
  BY DEF ScheduleInv, ScheduleTypeOK
<1> DEFINE row == [run[o] EXCEPT !.status = "claimed", !.claimedBy = s,
                                 !.leaseExpiresAt = t + LeaseTime]
<1>2. t + LeaseTime \in Nat
  OBVIOUS
<1>3. row \in Run /\ row.status = "claimed"
  BY <1>1, <1>2 DEF Run, InFlightRun
<1>4. run' = [run EXCEPT ![o] = row]
  BY <1>1 DEF ClaimOccurrence
<1> QED
  BY <1>3, <1>4 DEF InFlightRun

-----------------------------------------------------------------------------
(* One lemma per step of a loop.                                              *)

\* A pass that ends holds nothing.
LEMMA NoPassType == NoPass \in Pass
BY DEF NoPass, Pass, Never, SettledRun

LEMMA IdleHoldsNothing ==
  ASSUME ScheduleInv, NEW s \in Schedulers, Idle(s), stepOp' = stepOp
  PROVE  /\ pass' \in [Schedulers -> Pass]
         /\ \A r \in Schedulers : PassInv(r)'
         /\ LoopsApart'
<1>1. pass' = [pass EXCEPT ![s] = NoPass]
  BY DEF Idle
<1>2. pass'[s] = NoPass
  BY <1>1 DEF ScheduleInv, ScheduleTypeOK
<1>3. PassInv(s)'
  BY <1>2 DEF NoPass, PassInv, PassUndecided, EarlierStepsDone, AcceptedIsMine, VerdictIsTrue, AtStep
<1>4. NoPass.at # "queue"
  BY DEF NoPass
<1> QED
  BY <1>1, <1>3, <1>4, NoPassType, PassMoves

\* What a step of a loop that only changes its pass has to show.
LEMMA PassMovesInv ==
  ASSUME ScheduleInv, NEW s \in Schedulers, NEW p \in Pass,
         pass' = [pass EXCEPT ![s] = p], p.at # "queue", PassInv(s)',
         UNCHANGED <<clock, schedule, run, stepOp, toggle, events>>
  PROVE  ScheduleInv'
<1>1. pass' \in [Schedulers -> Pass] /\ (\A r \in Schedulers : PassInv(r)') /\ LoopsApart'
  BY PassMoves
<1>2. SuccessIsEarned' /\ StepsInOrder'
  BY RowsKept
<1> QED
  BY <1>1, <1>2 DEF ScheduleInv, ScheduleTypeOK, DisabledStaysOff, ToggleSound

\* And one that writes its run or the schedule as well.
LEMMA RunMovesInv ==
  ASSUME ScheduleInv, NEW s \in Schedulers, NEW p \in Pass,
         pass' = [pass EXCEPT ![s] = p], p.at # "queue", PassInv(s)',
         UNCHANGED <<clock, stepOp, toggle, events>>,
         run' \in [Occurrences -> Run], schedule' \in Schedule,
         DisabledStaysOff', SuccessIsEarned', StepsInOrder'
  PROVE  ScheduleInv'
<1>1. pass' \in [Schedulers -> Pass] /\ (\A r \in Schedulers : PassInv(r)') /\ LoopsApart'
  BY PassMoves
<1> QED
  BY <1>1 DEF ScheduleInv, ScheduleTypeOK, ToggleSound

LEMMA PassFacts ==
  ASSUME ScheduleInv, NEW s \in Schedulers
  PROVE  /\ pass[s] \in Pass /\ PassInv(s)
         /\ pass \in [Schedulers -> Pass]
         /\ clock \in Nat /\ run \in [Occurrences -> Run] /\ schedule \in Schedule
         /\ stepOp \in [Occurrences -> [Positions -> StepOperation]]
         /\ DisabledStaysOff /\ SuccessIsEarned /\ StepsInOrder
BY DEF ScheduleInv, ScheduleTypeOK

LEMMA BeginPassInv ==
  ASSUME ScheduleInv, NEW s \in Schedulers, BeginPass(s)
  PROVE  ScheduleInv'
<1> DEFINE p == [pass[s] EXCEPT !.at = "recover", !.now = clock,
                                !.abandoned = {o \in Occurrences : Lapsed(o, clock)}]
<1>1. /\ pass[s] \in Pass /\ pass[s].at = "idle" /\ pass[s].status = "succeeded"
      /\ clock \in Nat /\ pass \in [Schedulers -> Pass]
  BY PassFacts DEF BeginPass, PassInv, PassUndecided
<1>2. p \in Pass /\ p.at = "recover" /\ p.status = "succeeded"
  BY <1>1 DEF Pass
<1>3. pass' = [pass EXCEPT ![s] = p]
  BY <1>1 DEF BeginPass
<1>4. pass'[s] = p
  BY <1>1, <1>3
<1>5. PassInv(s)'
  BY <1>2, <1>4 DEF PassInv, PassUndecided, EarlierStepsDone, AcceptedIsMine, VerdictIsTrue, AtStep
<1>6. UNCHANGED <<clock, schedule, run, stepOp, toggle, events>>
  BY DEF BeginPass
<1> HIDE DEF p
<1> QED
  BY <1>2, <1>3, <1>5, <1>6, PassMovesInv

LEMMA IdleInv ==
  ASSUME ScheduleInv, NEW s \in Schedulers, Idle(s),
         UNCHANGED <<clock, schedule, run, stepOp, toggle>>,
         events' \in Nat
  PROVE  ScheduleInv'
<1>1. pass' \in [Schedulers -> Pass] /\ (\A r \in Schedulers : PassInv(r)') /\ LoopsApart'
  BY IdleHoldsNothing
<1>2. SuccessIsEarned' /\ StepsInOrder'
  BY RowsKept
<1> QED
  BY <1>1, <1>2 DEF ScheduleInv, ScheduleTypeOK, DisabledStaysOff, ToggleSound

LEMMA RecoverAbandonedInv ==
  ASSUME ScheduleInv, NEW s \in Schedulers, RecoverAbandoned(s)
  PROVE  ScheduleInv'
<1>0. /\ pass[s] \in Pass /\ pass[s].at = "recover" /\ pass[s].status = "succeeded"
      /\ pass \in [Schedulers -> Pass]
      /\ UNCHANGED <<clock, stepOp, toggle, events>>
  BY PassFacts DEF RecoverAbandoned, PassInv, PassUndecided
<1>1. PICK o \in pass[s].abandoned :
        /\ TrySettle(o, "failed", "null", NextRunAfter(pass[s].now))
        /\ pass' = [pass EXCEPT ![s].abandoned = @ \ {o}]
  BY DEF RecoverAbandoned
<1>2. o \in Occurrences
  BY <1>0 DEF Pass
<1> DEFINE p == [pass[s] EXCEPT !.abandoned = @ \ {o}]
<1>3. p \in Pass /\ p.at = "recover" /\ p.status = "succeeded"
  BY <1>0 DEF Pass
<1>4. pass' = [pass EXCEPT ![s] = p] /\ pass'[s] = p
  BY <1>0, <1>1
<1>5. PassInv(s)'
  BY <1>3, <1>4 DEF PassInv, PassUndecided, EarlierStepsDone, AcceptedIsMine, VerdictIsTrue, AtStep
<1> HIDE DEF p
<1>6. NextRunAfter(pass[s].now) \in Occurrences \cup {Never}
  BY NextRunType
<1>7. "failed" \in SettledRun
  BY DEF SettledRun
<1>8. /\ run' \in [Occurrences -> Run] /\ schedule' \in Schedule
      /\ DisabledStaysOff' /\ SuccessIsEarned' /\ StepsInOrder'
  BY <1>0, <1>1, <1>2, <1>6, <1>7, SettleKeepsRows
<1> QED
  BY <1>0, <1>3, <1>4, <1>5, <1>8, RunMovesInv

LEMMA ListDueInv ==
  ASSUME ScheduleInv, NEW s \in Schedulers, ListDue(s)
  PROVE  ScheduleInv'
<1> DEFINE target == Target(schedule.nextRunAt, pass[s].now)
           stale == Stale(schedule.nextRunAt, pass[s].now)
<1>0. /\ pass[s] \in Pass /\ pass[s].at = "recover" /\ pass[s].status = "succeeded"
      /\ pass \in [Schedulers -> Pass] /\ schedule \in Schedule
      /\ UNCHANGED <<clock, schedule, run, stepOp, toggle, events>>
  BY PassFacts DEF ListDue, PassInv, PassUndecided
<1>1. CASE IsDue(pass[s].now) /\ pass' = [pass EXCEPT ![s].at = "skip",
                              ![s].occurrence = target, ![s].missed = stale \ {target}]
  <2>1. schedule.nextRunAt \in Occurrences /\ pass[s].now \in Nat
    BY <1>0, <1>1 DEF IsDue, Schedule, Pass
  <2>2. target \in Occurrences
    BY <2>1, TargetType
  <2>3. stale \ {target} \in SUBSET Occurrences
    BY DEF Stale, MissedOccurrences
  <2> HIDE DEF target, stale
  <2> DEFINE p == [pass[s] EXCEPT !.at = "skip", !.occurrence = target,
                                  !.missed = stale \ {target}]
  <2>4. /\ p \in Pass /\ p.at = "skip" /\ p.status = "succeeded"
        /\ p.occurrence \in Occurrences
    BY <1>0, <2>2, <2>3 DEF Pass
  <2>5. pass' = [pass EXCEPT ![s] = p] /\ pass'[s] = p
    BY <1>0, <1>1
  <2>6. PassInv(s)'
    BY <2>4, <2>5 DEF PassInv, PassUndecided, EarlierStepsDone, AcceptedIsMine, VerdictIsTrue,
                      AtStep
  <2> HIDE DEF p
  <2> QED
    BY <1>0, <2>4, <2>5, <2>6, PassMovesInv
<1>2. CASE Idle(s)
  <2>1. events' \in Nat
    BY <1>0 DEF ScheduleInv, ScheduleTypeOK
  <2> QED
    BY <1>0, <1>2, <2>1, IdleInv
<1> QED
  BY <1>1, <1>2 DEF ListDue

\* What recordSkipped takes up next is an occurrence.
LEMMA SkippedType ==
  ASSUME ScheduleInv, NEW s \in Schedulers, pass[s].missed # {}
  PROVE  Min(pass[s].missed) \in Occurrences
<1>1. pass[s].missed \in SUBSET Occurrences
  BY PassFacts DEF Pass
<1>2. pass[s].missed \in SUBSET Nat
  BY <1>1
<1> QED
  BY <1>1, <1>2, MinIsThere

LEMMA SkipClaimInv ==
  ASSUME ScheduleInv, NEW s \in Schedulers, SkipClaim(s)
  PROVE  ScheduleInv'
<1> DEFINE o == Min(pass[s].missed)
<1>0. /\ pass[s] \in Pass /\ pass[s].at = "skip" /\ pass[s].status = "succeeded"
      /\ pass[s].occurrence \in Occurrences
      /\ pass \in [Schedulers -> Pass] /\ schedule \in Schedule /\ DisabledStaysOff
      /\ UNCHANGED <<clock, schedule, stepOp, toggle, events>>
  BY PassFacts DEF SkipClaim, PassInv, PassUndecided
<1>1. o \in Occurrences
  BY SkippedType DEF SkipClaim
<1>2. CASE ClaimOccurrence(s, o, pass[s].now) /\ pass' = [pass EXCEPT ![s].at = "skipSettle"]
  <2>1. pass[s].now \in Nat
    BY <1>0 DEF Pass
  <2> HIDE DEF o
  <2>2. PICK row \in Run : row.status \in InFlightRun /\ run' = [run EXCEPT ![o] = row]
    BY <1>1, <1>2, <2>1, ClaimRow
  <2>3. run' \in [Occurrences -> Run] /\ SuccessIsEarned' /\ StepsInOrder'
    BY <1>0, <1>1, <2>2, InFlightKeepsRows
  <2> DEFINE p == [pass[s] EXCEPT !.at = "skipSettle"]
  <2>4. /\ p \in Pass /\ p.at = "skipSettle" /\ p.status = "succeeded"
        /\ p.occurrence \in Occurrences /\ p.missed # {}
    BY <1>0 DEF Pass, SkipClaim
  <2>5. pass' = [pass EXCEPT ![s] = p] /\ pass'[s] = p
    BY <1>0, <1>2
  <2>6. PassInv(s)'
    BY <2>4, <2>5 DEF PassInv, PassUndecided, EarlierStepsDone, AcceptedIsMine, VerdictIsTrue,
                      AtStep
  <2>7. schedule' \in Schedule /\ DisabledStaysOff'
    BY <1>0 DEF DisabledStaysOff
  <2> HIDE DEF p
  <2> QED
    BY <1>0, <2>3, <2>4, <2>5, <2>6, <2>7, RunMovesInv
<1>3. CASE pass' = [pass EXCEPT ![s].missed = @ \ {o}] /\ UNCHANGED run
  <2> DEFINE p == [pass[s] EXCEPT !.missed = @ \ {o}]
  <2>4. /\ p \in Pass /\ p.at = "skip" /\ p.status = "succeeded"
        /\ p.occurrence \in Occurrences
    BY <1>0 DEF Pass
  <2>5. pass' = [pass EXCEPT ![s] = p] /\ pass'[s] = p
    BY <1>0, <1>3
  <2>6. PassInv(s)'
    BY <2>4, <2>5 DEF PassInv, PassUndecided, EarlierStepsDone, AcceptedIsMine, VerdictIsTrue,
                      AtStep
  <2> HIDE DEF p
  <2> QED
    BY <1>0, <1>3, <2>4, <2>5, <2>6, PassMovesInv
<1> QED
  BY <1>2, <1>3 DEF SkipClaim

LEMMA SkipSettleInv ==
  ASSUME ScheduleInv, NEW s \in Schedulers, SkipSettle(s)
  PROVE  ScheduleInv'
<1> DEFINE o == Min(pass[s].missed)
           p == [pass[s] EXCEPT !.at = "skip", !.missed = @ \ {o}]
<1>0. /\ pass[s] \in Pass /\ pass[s].at = "skipSettle" /\ pass[s].status = "succeeded"
      /\ pass[s].occurrence \in Occurrences
      /\ pass \in [Schedulers -> Pass] /\ PassInv(s)
      /\ UNCHANGED <<clock, stepOp, toggle, events>>
  BY PassFacts DEF SkipSettle, PassInv, PassUndecided
<1>1. TrySettle(o, "skipped", "null", NextRunAfter(pass[s].now))
  BY DEF SkipSettle
<1>3. /\ p \in Pass /\ p.at = "skip" /\ p.status = "succeeded"
      /\ p.occurrence \in Occurrences
  BY <1>0 DEF Pass
<1>4. pass' = [pass EXCEPT ![s] = p] /\ pass'[s] = p
  BY <1>0 DEF SkipSettle
<1>5. PassInv(s)'
  BY <1>3, <1>4 DEF PassInv, PassUndecided, EarlierStepsDone, AcceptedIsMine, VerdictIsTrue, AtStep
<1>6. NextRunAfter(pass[s].now) \in Occurrences \cup {Never}
  BY NextRunType
<1>7. "skipped" \in SettledRun
  BY DEF SettledRun
<1>2. o \in Occurrences
  BY <1>0, SkippedType DEF PassInv, PassUndecided
<1> HIDE DEF p, o
<1>8. /\ run' \in [Occurrences -> Run] /\ schedule' \in Schedule
      /\ DisabledStaysOff' /\ SuccessIsEarned' /\ StepsInOrder'
  BY <1>0, <1>1, <1>2, <1>6, <1>7, SettleKeepsRows
<1> QED
  BY <1>0, <1>3, <1>4, <1>5, <1>8, RunMovesInv

LEMMA ClaimTargetInv ==
  ASSUME ScheduleInv, NEW s \in Schedulers, ClaimTarget(s)
  PROVE  ScheduleInv'
<1> DEFINE o == pass[s].occurrence
<1>0. /\ pass[s] \in Pass /\ pass[s].at = "skip" /\ pass[s].status = "succeeded"
      /\ o \in Occurrences
      /\ pass \in [Schedulers -> Pass] /\ schedule \in Schedule /\ DisabledStaysOff
      /\ UNCHANGED <<clock, schedule, stepOp, toggle, events>>
  BY PassFacts DEF ClaimTarget, PassInv, PassUndecided
<1>1. CASE /\ ClaimOccurrence(s, o, pass[s].now)
           /\ pass' = [pass EXCEPT ![s].at = "advance", ![s].step = 1]
  <2>1. pass[s].now \in Nat
    BY <1>0 DEF Pass
  <2>2. PICK row \in Run : row.status \in InFlightRun /\ run' = [run EXCEPT ![o] = row]
    BY <1>0, <1>1, <2>1, ClaimRow
  <2>3. run' \in [Occurrences -> Run] /\ SuccessIsEarned' /\ StepsInOrder'
    BY <1>0, <2>2, InFlightKeepsRows
  <2> DEFINE p == [pass[s] EXCEPT !.at = "advance", !.step = 1]
  <2>4. /\ p \in Pass /\ p.at = "advance" /\ p.status = "succeeded"
        /\ p.occurrence \in Occurrences /\ p.step = 1
    BY <1>0 DEF Pass
  <2>5. pass' = [pass EXCEPT ![s] = p] /\ pass'[s] = p
    BY <1>0, <1>1
  <2> HIDE DEF p
  <2>e. \A j \in 1..(p.step - 1) : FALSE
    BY <2>4
  <2>6. PassInv(s)'
    BY <2>4, <2>5, <2>e, StepsType DEF PassInv, PassUndecided, EarlierStepsDone, AcceptedIsMine,
                      VerdictIsTrue, AtStep
  <2>7. schedule' \in Schedule /\ DisabledStaysOff'
    BY <1>0 DEF DisabledStaysOff
  <2> HIDE DEF p
  <2> QED
    BY <1>0, <2>3, <2>4, <2>5, <2>6, <2>7, RunMovesInv
<1>2. CASE Idle(s) /\ UNCHANGED run
  <2>1. events' \in Nat
    BY <1>0 DEF ScheduleInv, ScheduleTypeOK
  <2> QED
    BY <1>0, <1>2, <2>1, IdleInv
<1> QED
  BY <1>1, <1>2 DEF ClaimTarget

LEMMA AdvanceInv ==
  ASSUME ScheduleInv, NEW s \in Schedulers, Advance(s)
  PROVE  ScheduleInv'
<1> DEFINE o == pass[s].occurrence
<1>0. /\ pass[s] \in Pass /\ pass[s].at = "advance" /\ EarlierStepsDone(s)
      /\ o \in Occurrences /\ clock \in Nat /\ run \in [Occurrences -> Run]
      /\ pass \in [Schedulers -> Pass] /\ schedule \in Schedule /\ DisabledStaysOff
      /\ UNCHANGED <<clock, schedule, stepOp, toggle, events>>
  BY PassFacts DEF Advance, PassInv, EarlierStepsDone, AtStep
<1>1. CASE /\ run' = [run EXCEPT ![o].status = "running",
                                 ![o].leaseExpiresAt = clock + LeaseTime]
           /\ pass' = [pass EXCEPT ![s].at = "accept"]
  <2> DEFINE row == [run[o] EXCEPT !.status = "running", !.leaseExpiresAt = clock + LeaseTime]
             p == [pass[s] EXCEPT !.at = "accept"]
  <2>a. clock \in Nat /\ LeaseTime \in Nat
    BY <1>0
  <2>b. clock + LeaseTime \in Nat
    BY <2>a
  <2>c. run[o] \in Run
    BY <1>0
  <2>1. run[o] \in Run /\ clock + LeaseTime \in Nat
    BY <2>b, <2>c
  <2>2. row \in Run /\ row.status = "running" /\ run' = [run EXCEPT ![o] = row]
    BY <1>0, <1>1, <2>1 DEF Run, InFlightRun
  <2> HIDE DEF row
  <2>3. run' \in [Occurrences -> Run] /\ SuccessIsEarned' /\ StepsInOrder'
    BY <1>0, <2>2, InFlightKeepsRows DEF InFlightRun
  <2>4. /\ p \in Pass /\ p.at = "accept" /\ p.status = pass[s].status /\ p.step = pass[s].step
        /\ p.occurrence = o /\ p.verified = pass[s].verified
    BY <1>0 DEF Pass
  <2>5. pass' = [pass EXCEPT ![s] = p] /\ pass'[s] = p
    BY <1>0, <1>1
  <2>6. PassInv(s)'
    BY <1>0, <2>4, <2>5 DEF PassInv, PassUndecided, EarlierStepsDone, AcceptedIsMine,
                            VerdictIsTrue, AtStep
  <2>7. schedule' \in Schedule /\ DisabledStaysOff'
    BY <1>0 DEF DisabledStaysOff
  <2> HIDE DEF p
  <2> QED
    BY <1>0, <2>3, <2>4, <2>5, <2>6, <2>7, RunMovesInv
<1>2. CASE Idle(s) /\ UNCHANGED run
  <2>1. events' \in Nat
    BY <1>0 DEF ScheduleInv, ScheduleTypeOK
  <2> QED
    BY <1>0, <1>2, <2>1, IdleInv
<1> QED
  BY <1>1, <1>2 DEF Advance

\* A loop that waits, or that fails at a step, keeps what it knows.
LEMMA WaitsOrFails ==
  ASSUME ScheduleInv, NEW s \in Schedulers,
         pass[s].at \in {"accept", "queue", "record", "wait"},
         StepWaits(s) \/ StepFailed(s)
  PROVE  \E p \in Pass :
           /\ pass' = [pass EXCEPT ![s] = p] /\ pass'[s] = p
           /\ \/ /\ p.at = "wait"
                 /\ p.occurrence = pass[s].occurrence /\ p.step = pass[s].step
                 /\ p.status = pass[s].status /\ p.verified = pass[s].verified
              \/ /\ p.at = "settle" /\ p.status = "failed"
                 /\ p.occurrence = pass[s].occurrence
<1>0. /\ pass[s] \in Pass /\ clock \in Nat
      /\ pass \in [Schedulers -> Pass]
  BY PassFacts
<1>1. CASE StepWaits(s)
  <2> DEFINE p == [pass[s] EXCEPT !.at = "wait", !.deadline = clock + SettleTimeout]
  <2>1. clock + SettleTimeout \in Nat
    BY <1>0
  <2>2. /\ p \in Pass /\ p.at = "wait"
        /\ p.occurrence = pass[s].occurrence /\ p.step = pass[s].step
        /\ p.status = pass[s].status /\ p.verified = pass[s].verified
    BY <1>0, <2>1 DEF Pass
  <2>3. pass' = [pass EXCEPT ![s] = p] /\ pass'[s] = p
    BY <1>0, <1>1 DEF StepWaits
  <2> HIDE DEF p
  <2> QED
    BY <2>2, <2>3
<1>2. CASE StepFailed(s)
  <2> DEFINE seen == IF Steps[pass[s].step] = "restart" THEN "false" ELSE pass[s].verified
             p == [pass[s] EXCEPT !.at = "settle", !.status = "failed", !.verified = seen]
  <2>1. seen \in {"null", "true", "false"}
    BY <1>0 DEF Pass
  <2>2. /\ p \in Pass /\ p.at = "settle" /\ p.status = "failed"
        /\ p.occurrence = pass[s].occurrence
    BY <1>0, <2>1 DEF Pass, SettledRun
  <2>3. pass' = [pass EXCEPT ![s] = p] /\ pass'[s] = p
    BY <1>0, <1>2 DEF StepFailed
  <2> HIDE DEF p
  <2> QED
    BY <2>2, <2>3
<1> QED
  BY <1>1, <1>2

\* It does so without touching any row.
LEMMA WaitsOrFailsInv ==
  ASSUME ScheduleInv, NEW s \in Schedulers,
         pass[s].at \in {"accept", "queue", "record", "wait"},
         StepWaits(s) \/ StepFailed(s),
         UNCHANGED <<clock, schedule, run, stepOp, toggle, events>>
  PROVE  ScheduleInv'
<1>1. EarlierStepsDone(s)
  BY PassFacts DEF PassInv
<1>2. PICK p \in Pass :
        /\ pass' = [pass EXCEPT ![s] = p] /\ pass'[s] = p
        /\ \/ /\ p.at = "wait"
              /\ p.occurrence = pass[s].occurrence /\ p.step = pass[s].step
              /\ p.status = pass[s].status /\ p.verified = pass[s].verified
           \/ /\ p.at = "settle" /\ p.status = "failed"
              /\ p.occurrence = pass[s].occurrence
  BY WaitsOrFails
<1>3. PassInv(s)'
  BY <1>1, <1>2 DEF PassInv, PassUndecided, EarlierStepsDone, AcceptedIsMine, VerdictIsTrue,
                    AtStep
<1> QED
  BY <1>2, <1>3, PassMovesInv

LEMMA RecordBackupInv ==
  ASSUME ScheduleInv, NEW s \in Schedulers, RecordBackup(s)
  PROVE  ScheduleInv'
BY WaitsOrFailsInv DEF RecordBackup

\* A step whose operation succeeded: the next one, or a run that succeeded.
LEMMA StepDoneInv ==
  ASSUME ScheduleInv, NEW s \in Schedulers, pass[s].at = "wait", StepDone(s),
         stepOp[pass[s].occurrence][pass[s].step] = "succeeded",
         UNCHANGED <<clock, schedule, run, stepOp, toggle, events>>
  PROVE  ScheduleInv'
<1>0. /\ pass[s] \in Pass /\ pass \in [Schedulers -> Pass]
      /\ pass[s].occurrence \in Occurrences /\ pass[s].step \in Positions
      /\ pass[s].status = "succeeded"
      /\ \A j \in 1..(pass[s].step - 1) :
            /\ stepOp[pass[s].occurrence][j] = "succeeded"
            /\ Steps[j] = "restart" => pass[s].verified = "true"
  BY PassFacts DEF PassInv, EarlierStepsDone, AtStep
<1> DEFINE last == pass[s].step = Len(Steps)
           seen == IF Steps[pass[s].step] = "restart" THEN "true" ELSE pass[s].verified
           next == IF last THEN pass[s].step ELSE pass[s].step + 1
           place == IF last THEN "settle" ELSE "advance"
           p == [pass[s] EXCEPT !.verified = seen, !.step = next, !.at = place]
<1>1. seen \in {"null", "true", "false"} /\ next \in Positions
  BY <1>0, StepsType DEF Pass, Positions
<1>2. /\ p \in Pass /\ p.at = place /\ p.step = next /\ p.verified = seen
      /\ p.occurrence = pass[s].occurrence /\ p.status = "succeeded"
  <2>1. next \in Nat /\ place \in {"settle", "advance"}
    BY <1>1, StepsType DEF Positions
  <2> HIDE DEF seen, next, place
  <2> QED
    BY <1>0, <1>1, <2>1 DEF Pass
<1>3. pass' = [pass EXCEPT ![s] = p] /\ pass'[s] = p
  BY <1>0 DEF StepDone
<1>4. \A j \in 1..pass[s].step :
        /\ stepOp[pass[s].occurrence][j] = "succeeded"
        /\ Steps[j] = "restart" => seen = "true"
  <2> TAKE j \in 1..pass[s].step
  <2>1. pass[s].step \in Nat /\ (j = pass[s].step \/ j \in 1..(pass[s].step - 1))
    BY <1>0, StepsType DEF Positions
  <2> QED
    BY <1>0, <2>1
<1>5. CASE last
  <2>1. Positions = 1..pass[s].step
    BY <1>5 DEF Positions
  <2> HIDE DEF p, seen
  <2>2. PassInv(s)'
    BY <1>0, <1>2, <1>3, <1>4, <1>5, <2>1 DEF PassInv, PassUndecided, EarlierStepsDone,
                                         AcceptedIsMine, VerdictIsTrue, AtStep
  <2>3. p.at # "queue"
    BY <1>2
  <2> QED
    BY <1>2, <1>3, <2>2, <2>3, PassMovesInv
<1>6. CASE ~last
  <2>1. next - 1 = pass[s].step
    BY <1>0, <1>6, StepsType DEF Positions
  <2>0. place = "advance"
    BY <1>6
  <2> HIDE DEF p, seen, next, place
  <2>2. PassInv(s)'
    BY <1>0, <1>1, <1>2, <1>3, <1>4, <2>0, <2>1 DEF PassInv, PassUndecided, EarlierStepsDone,
                                         AcceptedIsMine, VerdictIsTrue, AtStep
  <2>3. p.at # "queue"
    BY <1>2, <2>0
  <2> QED
    BY <1>2, <1>3, <2>2, <2>3, PassMovesInv
<1> QED
  BY <1>5, <1>6

LEMMA WaitForSettlementInv ==
  ASSUME ScheduleInv, NEW s \in Schedulers, WaitForSettlement(s)
  PROVE  ScheduleInv'
BY StepDoneInv, WaitsOrFailsInv DEF WaitForSettlement

LEMMA FinishRunInv ==
  ASSUME ScheduleInv, NEW s \in Schedulers, FinishRun(s)
  PROVE  ScheduleInv'
<1>0. /\ pass[s] \in Pass /\ VerdictIsTrue(s) /\ pass[s].at = "settle"
      /\ UNCHANGED <<clock, stepOp, toggle, events>>
      /\ TrySettle(pass[s].occurrence, pass[s].status, pass[s].verified, NextRunAfter(clock))
      /\ Idle(s)
  BY PassFacts DEF FinishRun, PassInv
<1>1. /\ pass[s].occurrence \in Occurrences /\ pass[s].status \in SettledRun
      /\ pass[s].verified \in {"null", "true", "false"}
      /\ pass[s].status = "succeeded" =>
            \A j \in Positions : /\ stepOp[pass[s].occurrence][j] = "succeeded"
                                 /\ Steps[j] = "restart" => pass[s].verified = "true"
  BY <1>0 DEF VerdictIsTrue, Pass
<1>2. NextRunAfter(clock) \in Occurrences \cup {Never}
  BY NextRunType
<1>3. /\ run' \in [Occurrences -> Run] /\ schedule' \in Schedule
      /\ DisabledStaysOff' /\ SuccessIsEarned' /\ StepsInOrder'
  BY <1>0, <1>1, <1>2, SettleKeepsRows
<1>4. pass' \in [Schedulers -> Pass] /\ (\A r \in Schedulers : PassInv(r)') /\ LoopsApart'
  BY <1>0, IdleHoldsNothing
<1> QED
  BY <1>0, <1>3, <1>4 DEF ScheduleInv, ScheduleTypeOK, ToggleSound

-----------------------------------------------------------------------------
(* Steps that move an operation.                                              *)

\* An operation that has not succeeded moves on, after all earlier ones.
LEMMA OperationMoves ==
  ASSUME ScheduleInv, NEW o \in Occurrences, NEW i \in Positions, NEW v \in StepOperation,
         stepOp[o][i] # "succeeded",
         \A j \in 1..(i - 1) : stepOp[o][j] = "succeeded",
         stepOp' = [stepOp EXCEPT ![o][i] = v], run' = run
  PROVE  /\ stepOp' \in [Occurrences -> [Positions -> StepOperation]]
         /\ SuccessIsEarned' /\ StepsInOrder'
         /\ \A q \in Occurrences, j \in Positions :
              /\ <<q, j>> # <<o, i>> => stepOp'[q][j] = stepOp[q][j]
              /\ <<q, j>> = <<o, i>> => stepOp'[q][j] = v
              /\ stepOp[q][j] = "succeeded" => stepOp'[q][j] = "succeeded"
<1>1. /\ stepOp \in [Occurrences -> [Positions -> StepOperation]]
      /\ SuccessIsEarned /\ StepsInOrder
  BY DEF ScheduleInv, ScheduleTypeOK
<1>2. stepOp' \in [Occurrences -> [Positions -> StepOperation]]
  BY <1>1
<1>3. \A q \in Occurrences, j \in Positions :
        /\ <<q, j>> # <<o, i>> => stepOp'[q][j] = stepOp[q][j]
        /\ <<q, j>> = <<o, i>> => stepOp'[q][j] = v
  BY <1>1
<1>4. \A q \in Occurrences, j \in Positions :
        stepOp[q][j] = "succeeded" => stepOp'[q][j] = "succeeded"
  BY <1>3
<1>5. SuccessIsEarned'
  BY <1>1, <1>4 DEF SuccessIsEarned
<1>6. ASSUME NEW q \in Occurrences, NEW k \in Positions, stepOp'[q][k] # "none",
             NEW j \in 1..(k - 1)
      PROVE  stepOp'[q][j] = "succeeded"
  <2>1. j \in Positions
    BY StepsType DEF Positions
  <2>2. stepOp[q][j] = "succeeded"
    BY <1>1, <1>3, <1>6 DEF StepsInOrder
  <2> QED
    BY <1>4, <2>1, <2>2
<1>7. StepsInOrder'
  BY <1>6 DEF StepsInOrder
<1> QED
  BY <1>2, <1>3, <1>4, <1>5, <1>7

\* What every other loop has in hand is left as it is.
LEMMA OthersKeep ==
  ASSUME ScheduleInv, NEW r \in Schedulers, pass'[r] = pass[r],
         \A q \in Occurrences, j \in Positions :
            stepOp[q][j] = "succeeded" => stepOp'[q][j] = "succeeded",
         pass[r].at = "queue" =>
            stepOp'[pass[r].occurrence][pass[r].step] = stepOp[pass[r].occurrence][pass[r].step]
  PROVE  PassInv(r)'
<1>1. PassInv(r)
  BY DEF ScheduleInv
<1>2. PassUndecided(r)' /\ AcceptedIsMine(r)'
  BY <1>1 DEF PassInv, PassUndecided, AcceptedIsMine
<1>3. EarlierStepsDone(r)'
  <2> SUFFICES ASSUME AtStep(r)
               PROVE  \A j \in 1..(pass[r].step - 1) :
                        stepOp'[pass[r].occurrence][j] = "succeeded"
    BY <1>1 DEF PassInv, EarlierStepsDone, AtStep
  <2>1. pass[r].occurrence \in Occurrences /\ pass[r].step \in Positions
    BY <1>1 DEF PassInv, EarlierStepsDone
  <2>2. \A j \in 1..(pass[r].step - 1) : j \in Positions
    BY <2>1, StepsType DEF Positions
  <2> QED
    BY <1>1, <2>1, <2>2 DEF PassInv, EarlierStepsDone
<1>4. VerdictIsTrue(r)'
  <2> SUFFICES ASSUME pass[r].at = "settle"
               PROVE  /\ pass[r].occurrence \in Occurrences
                      /\ pass[r].status = "succeeded" =>
                           \A j \in Positions :
                              /\ stepOp'[pass[r].occurrence][j] = "succeeded"
                              /\ Steps[j] = "restart" => pass[r].verified = "true"
    BY DEF VerdictIsTrue
  <2> QED
    BY <1>1 DEF PassInv, VerdictIsTrue
<1> QED
  BY <1>2, <1>3, <1>4 DEF PassInv

LEMMA AcceptStepInv ==
  ASSUME ScheduleInv, NEW s \in Schedulers, AcceptStep(s)
  PROVE  ScheduleInv'
<1> DEFINE o == pass[s].occurrence
           i == pass[s].step
<1>0. /\ pass[s] \in Pass /\ pass[s].at = "accept" /\ EarlierStepsDone(s)
      /\ o \in Occurrences /\ i \in Positions
      /\ pass \in [Schedulers -> Pass] /\ schedule \in Schedule /\ DisabledStaysOff
      /\ UNCHANGED <<clock, schedule, run, toggle, events>>
  BY PassFacts DEF AcceptStep, PassInv, EarlierStepsDone, AtStep
<1>1. CASE /\ stepOp[o][i] = "none"
           /\ stepOp' = [stepOp EXCEPT ![o][i] = "accepted"]
           /\ pass' = [pass EXCEPT ![s].at = "queue"]
  <2> DEFINE p == [pass[s] EXCEPT !.at = "queue"]
  <2>1. /\ p \in Pass /\ p.at = "queue" /\ p.status = pass[s].status /\ p.step = i
        /\ p.occurrence = o /\ p.verified = pass[s].verified
    BY <1>0 DEF Pass
  <2>2. pass' = [pass EXCEPT ![s] = p] /\ pass'[s] = p
    BY <1>0, <1>1
  <2> HIDE DEF p
  <2>3. \A r \in Schedulers : r # s => pass'[r] = pass[r]
    BY <1>0, <2>2
  <2>4. "accepted" \in StepOperation /\ stepOp[o][i] # "succeeded"
    BY <1>1 DEF StepOperation
  <2>5. \A j \in 1..(i - 1) : stepOp[o][j] = "succeeded"
    BY <1>0 DEF EarlierStepsDone, AtStep
  <2>6. /\ stepOp' \in [Occurrences -> [Positions -> StepOperation]]
        /\ SuccessIsEarned' /\ StepsInOrder'
        /\ \A q \in Occurrences, j \in Positions :
              /\ <<q, j>> # <<o, i>> => stepOp'[q][j] = stepOp[q][j]
              /\ <<q, j>> = <<o, i>> => stepOp'[q][j] = "accepted"
              /\ stepOp[q][j] = "succeeded" => stepOp'[q][j] = "succeeded"
    <3>1. /\ o \in Occurrences /\ i \in Positions /\ run' = run
          /\ stepOp' = [stepOp EXCEPT ![o][i] = "accepted"]
      BY <1>0, <1>1
    <3> HIDE DEF o, i
    <3> QED
      BY <2>4, <2>5, <3>1, OperationMoves
  <2>a. stepOp'[o][i] = "accepted"
    BY <1>0, <2>6
  <2>7. ASSUME NEW r \in Schedulers, pass[r].at = "queue"
        PROVE  /\ pass[r].occurrence \in Occurrences /\ pass[r].step \in Positions
               /\ <<pass[r].occurrence, pass[r].step>> # <<o, i>>
    <3>1. PassInv(r)
      BY PassFacts
    <3> QED
      BY <1>1, <2>7, <3>1 DEF PassInv, EarlierStepsDone, AcceptedIsMine, AtStep
  <2>8. ASSUME NEW r \in Schedulers, r # s PROVE PassInv(r)'
    BY <2>3, <2>6, <2>7, <2>8, OthersKeep
  <2>9. PassInv(s)'
    <3>1. EarlierStepsDone(s)'
      <4>1. \A j \in 1..(i - 1) : j \in Positions
        BY <1>0, StepsType DEF Positions
      <4>2. \A j \in 1..(i - 1) : stepOp'[o][j] = "succeeded"
        BY <1>0, <2>5, <2>6, <4>1
      <4> QED
        BY <1>0, <2>1, <2>2, <4>2 DEF EarlierStepsDone, AtStep
    <3>2. AcceptedIsMine(s)' /\ PassUndecided(s)' /\ VerdictIsTrue(s)'
      BY <2>1, <2>2, <2>a DEF AcceptedIsMine, PassUndecided, VerdictIsTrue
    <3> QED
      BY <3>1, <3>2 DEF PassInv
  <2>10. LoopsApart'
    <3>1. LoopsApart
      BY DEF ScheduleInv
    <3> SUFFICES ASSUME NEW r \in Schedulers, NEW t \in Schedulers, r # t,
                        pass'[r].at = "queue", pass'[t].at = "queue",
                        pass'[r].occurrence = pass'[t].occurrence,
                        pass'[r].step = pass'[t].step
                 PROVE  FALSE
      BY DEF LoopsApart
    <3>2. CASE r # s /\ t # s
      BY <2>3, <3>1, <3>2 DEF LoopsApart
    <3>3. CASE r = s
      BY <2>1, <2>2, <2>3, <2>7, <3>3
    <3>4. CASE t = s
      BY <2>1, <2>2, <2>3, <2>7, <3>4
    <3> QED
      BY <3>2, <3>3, <3>4
  <2>11. pass' \in [Schedulers -> Pass]
    BY <1>0, <2>1, <2>2
  <2> QED
    BY <1>0, <2>6, <2>8, <2>9, <2>10, <2>11
       DEF ScheduleInv, ScheduleTypeOK, ToggleSound, DisabledStaysOff
<1>2. CASE (StepWaits(s) \/ StepFailed(s)) /\ UNCHANGED stepOp
  BY <1>0, <1>2, WaitsOrFailsInv
<1> QED
  BY <1>1, <1>2 DEF AcceptStep

LEMMA QueueStepInv ==
  ASSUME ScheduleInv, NEW s \in Schedulers, QueueStep(s)
  PROVE  ScheduleInv'
<1> DEFINE o == pass[s].occurrence
           i == pass[s].step
<1>0. /\ pass[s] \in Pass /\ pass[s].at = "queue" /\ EarlierStepsDone(s)
      /\ o \in Occurrences /\ i \in Positions /\ stepOp[o][i] = "accepted"
      /\ pass \in [Schedulers -> Pass] /\ schedule \in Schedule /\ DisabledStaysOff
      /\ UNCHANGED <<clock, schedule, run, toggle, events>>
      /\ stepOp' = [stepOp EXCEPT ![o][i] = "running"]
  BY PassFacts DEF QueueStep, PassInv, EarlierStepsDone, AcceptedIsMine, AtStep
<1>1. \E p \in Pass :
        /\ pass' = [pass EXCEPT ![s] = p] /\ pass'[s] = p
        /\ p.at \in {"record", "wait"}
        /\ p.occurrence = o /\ p.step = i
        /\ p.status = pass[s].status /\ p.verified = pass[s].verified
  <2>1. CASE pass' = [pass EXCEPT ![s].at = "record"]
    <3> DEFINE p == [pass[s] EXCEPT !.at = "record"]
    <3>1. /\ p \in Pass /\ p.at = "record" /\ p.status = pass[s].status /\ p.step = i
          /\ p.occurrence = o /\ p.verified = pass[s].verified
      BY <1>0 DEF Pass
    <3>2. pass' = [pass EXCEPT ![s] = p] /\ pass'[s] = p
      BY <1>0, <2>1
    <3> HIDE DEF p
    <3> QED
      BY <3>1, <3>2
  <2>2. CASE StepWaits(s)
    <3> DEFINE p == [pass[s] EXCEPT !.at = "wait", !.deadline = clock + SettleTimeout]
    <3>0. clock \in Nat /\ SettleTimeout \in Nat
      BY PassFacts
    <3>1. clock + SettleTimeout \in Nat
      BY <3>0
    <3>2. /\ p \in Pass /\ p.at = "wait" /\ p.status = pass[s].status /\ p.step = i
          /\ p.occurrence = o /\ p.verified = pass[s].verified
      BY <1>0, <3>1 DEF Pass
    <3>3. pass' = [pass EXCEPT ![s] = p] /\ pass'[s] = p
      BY <1>0, <2>2 DEF StepWaits
    <3> HIDE DEF p
    <3> QED
      BY <3>2, <3>3
  <2> QED
    BY <2>1, <2>2 DEF QueueStep
<1>2. PICK p \in Pass :
        /\ pass' = [pass EXCEPT ![s] = p] /\ pass'[s] = p
        /\ p.at \in {"record", "wait"}
        /\ p.occurrence = o /\ p.step = i
        /\ p.status = pass[s].status /\ p.verified = pass[s].verified
  BY <1>1
<1>3. \A r \in Schedulers : r # s => pass'[r] = pass[r]
  BY <1>0, <1>2
<1>4. "running" \in StepOperation /\ stepOp[o][i] # "succeeded"
  BY <1>0 DEF StepOperation
<1>5. \A j \in 1..(i - 1) : stepOp[o][j] = "succeeded"
  BY <1>0 DEF EarlierStepsDone, AtStep
<1>6. /\ stepOp' \in [Occurrences -> [Positions -> StepOperation]]
      /\ SuccessIsEarned' /\ StepsInOrder'
      /\ \A q \in Occurrences, j \in Positions :
            /\ <<q, j>> # <<o, i>> => stepOp'[q][j] = stepOp[q][j]
            /\ <<q, j>> = <<o, i>> => stepOp'[q][j] = "running"
            /\ stepOp[q][j] = "succeeded" => stepOp'[q][j] = "succeeded"
  <2>1. /\ o \in Occurrences /\ i \in Positions /\ run' = run
        /\ stepOp' = [stepOp EXCEPT ![o][i] = "running"]
    BY <1>0
  <2> HIDE DEF o, i
  <2> QED
    BY <1>4, <1>5, <2>1, OperationMoves
<1>7. ASSUME NEW r \in Schedulers, r # s, pass[r].at = "queue"
      PROVE  /\ pass[r].occurrence \in Occurrences /\ pass[r].step \in Positions
             /\ <<pass[r].occurrence, pass[r].step>> # <<o, i>>
  <2>1. PassInv(r) /\ LoopsApart
    BY PassFacts DEF ScheduleInv
  <2> QED
    BY <1>0, <1>7, <2>1 DEF PassInv, EarlierStepsDone, AtStep, LoopsApart
<1>8. ASSUME NEW r \in Schedulers, r # s PROVE PassInv(r)'
  BY <1>3, <1>6, <1>7, <1>8, OthersKeep
<1>9. PassInv(s)'
  <2>1. EarlierStepsDone(s)'
    <3>1. \A j \in 1..(i - 1) : j \in Positions
      BY <1>0, StepsType DEF Positions
    <3>2. \A j \in 1..(i - 1) : stepOp'[o][j] = "succeeded"
      BY <1>0, <1>5, <1>6, <3>1
    <3> QED
      BY <1>0, <1>2, <3>2 DEF EarlierStepsDone, AtStep
  <2>2. AcceptedIsMine(s)' /\ PassUndecided(s)' /\ VerdictIsTrue(s)'
    BY <1>2 DEF AcceptedIsMine, PassUndecided, VerdictIsTrue
  <2> QED
    BY <2>1, <2>2 DEF PassInv
<1>10. LoopsApart'
  <2>1. LoopsApart /\ pass'[s].at # "queue"
    BY <1>2 DEF ScheduleInv
  <2> QED
    BY <1>3, <2>1 DEF LoopsApart
<1>11. pass' \in [Schedulers -> Pass]
  BY <1>0, <1>2
<1> QED
  BY <1>0, <1>6, <1>8, <1>9, <1>10, <1>11
     DEF ScheduleInv, ScheduleTypeOK, ToggleSound, DisabledStaysOff

LEMMA SettleOperationInv ==
  ASSUME ScheduleInv, NEW o \in Occurrences, NEW i \in Positions, SettleOperation(o, i)
  PROVE  ScheduleInv'
<1>0. /\ stepOp[o][i] = "running" /\ StepsInOrder /\ pass \in [Schedulers -> Pass]
      /\ UNCHANGED <<clock, schedule, run, pass, toggle, events>>
  BY DEF SettleOperation, ScheduleInv, ScheduleTypeOK
<1>1. PICK outcome \in {"succeeded", "failed"} : stepOp' = [stepOp EXCEPT ![o][i] = outcome]
  BY DEF SettleOperation
<1>2. outcome \in StepOperation /\ stepOp[o][i] # "succeeded"
  BY <1>0 DEF StepOperation
<1>3. \A j \in 1..(i - 1) : stepOp[o][j] = "succeeded"
  BY <1>0 DEF StepsInOrder
<1>4. /\ stepOp' \in [Occurrences -> [Positions -> StepOperation]]
      /\ SuccessIsEarned' /\ StepsInOrder'
      /\ \A q \in Occurrences, j \in Positions :
            /\ <<q, j>> # <<o, i>> => stepOp'[q][j] = stepOp[q][j]
            /\ <<q, j>> = <<o, i>> => stepOp'[q][j] = outcome
            /\ stepOp[q][j] = "succeeded" => stepOp'[q][j] = "succeeded"
  BY <1>0, <1>1, <1>2, <1>3, OperationMoves
<1>5. ASSUME NEW r \in Schedulers PROVE PassInv(r)'
  <2>1. PassInv(r)
    BY PassFacts
  <2>2. pass[r].at = "queue" =>
          /\ pass[r].occurrence \in Occurrences /\ pass[r].step \in Positions
          /\ <<pass[r].occurrence, pass[r].step>> # <<o, i>>
    BY <1>0, <2>1 DEF PassInv, EarlierStepsDone, AcceptedIsMine, AtStep
  <2> QED
    BY <1>0, <1>4, <2>2, OthersKeep
<1> QED
  BY <1>0, <1>4, <1>5 DEF ScheduleInv, ScheduleTypeOK, ToggleSound, DisabledStaysOff, LoopsApart

-----------------------------------------------------------------------------

\* What happens around the loops leaves runs and passes alone.
LEMMA SurroundingsInv ==
  ASSUME ScheduleInv, UNCHANGED <<run, stepOp, pass>>,
         clock' \in Nat, events' \in Nat, schedule' \in Schedule,
         DisabledStaysOff', ToggleSound',
         toggle' \in [at : {"none", "store"}, enabled : BOOLEAN,
                      nextRunAt : Occurrences \cup {Never}]
  PROVE  ScheduleInv'
<1>1. SuccessIsEarned' /\ StepsInOrder'
  BY RowsKept
<1>2. ASSUME NEW r \in Schedulers PROVE PassInv(r)'
  <2>1. PassInv(r)
    BY PassFacts
  <2> QED
    BY <2>1 DEF PassInv, PassUndecided, EarlierStepsDone, AcceptedIsMine, VerdictIsTrue, AtStep
<1> QED
  BY <1>1, <1>2 DEF ScheduleInv, ScheduleTypeOK, LoopsApart

LEMMA RequestToggleInv ==
  ASSUME ScheduleInv, NEW e \in BOOLEAN, RequestToggle(e)
  PROVE  ScheduleInv'
<1>1. NextRunAfter(clock) \in Occurrences \cup {Never}
  BY NextRunType
<1> DEFINE next == IF e THEN NextRunAfter(clock) ELSE Never
<1>2. toggle' = [at |-> "store", enabled |-> e, nextRunAt |-> next]
  BY DEF RequestToggle
<1>3. next \in Occurrences \cup {Never} /\ (~e => next = Never)
  BY <1>1
<1> HIDE DEF next
<1>4. ToggleSound' /\ toggle' \in [at : {"none", "store"}, enabled : BOOLEAN,
                                   nextRunAt : Occurrences \cup {Never}]
  BY <1>2, <1>3 DEF ToggleSound
<1> QED
  BY <1>4, SurroundingsInv
     DEF RequestToggle, ScheduleInv, ScheduleTypeOK, DisabledStaysOff

LEMMA SetEnabledInv ==
  ASSUME ScheduleInv, SetEnabled
  PROVE  ScheduleInv'
<1>1. schedule' \in Schedule /\ DisabledStaysOff'
  BY DEF ScheduleInv, ScheduleTypeOK, SetEnabled, ToggleSound, Schedule, DisabledStaysOff
<1>2. ToggleSound' /\ toggle' \in [at : {"none", "store"}, enabled : BOOLEAN,
                                   nextRunAt : Occurrences \cup {Never}]
  BY DEF SetEnabled, NoToggle, ToggleSound
<1> QED
  BY <1>1, <1>2, SurroundingsInv DEF SetEnabled, ScheduleInv, ScheduleTypeOK

LEMMA ScheduleTickInv ==
  ASSUME ScheduleInv, ScheduleTick
  PROVE  ScheduleInv'
BY SurroundingsInv DEF ScheduleTick, ScheduleInv, ScheduleTypeOK, DisabledStaysOff, ToggleSound

LEMMA SchedulerDiesInv ==
  ASSUME ScheduleInv, NEW s \in Schedulers, SchedulerDies(s)
  PROVE  ScheduleInv'
<1>1. events' \in Nat
  BY DEF SchedulerDies, ScheduleInv, ScheduleTypeOK
<1> QED
  BY <1>1, IdleInv DEF SchedulerDies

LEMMA ScheduleInitInv == ScheduleInit => ScheduleInv
<1> SUFFICES ASSUME ScheduleInit PROVE ScheduleInv
  OBVIOUS
<1>1. /\ clock = StartTime /\ events = 0 /\ toggle = NoToggle
      /\ run = [o \in Occurrences |-> NoRun]
      /\ stepOp = [o \in Occurrences |-> [i \in Positions |-> "none"]]
      /\ pass = [s \in Schedulers |-> NoPass]
      /\ schedule \in [enabled : {TRUE}, nextRunAt : Occurrences]
                         \cup {[enabled |-> FALSE, nextRunAt |-> Never]}
  BY DEF ScheduleInit
<1>2. NoRun \in Run /\ "none" \in StepOperation /\ NoRun.status = "none"
  BY DEF NoRun, Run, StepOperation
<1>3. schedule \in Schedule /\ DisabledStaysOff
  <2>1. CASE schedule \in [enabled : {TRUE}, nextRunAt : Occurrences]
    BY <2>1 DEF Schedule, DisabledStaysOff
  <2>2. CASE schedule = [enabled |-> FALSE, nextRunAt |-> Never]
    BY <2>2 DEF Schedule, DisabledStaysOff
  <2> QED
    BY <1>1, <2>1, <2>2
<1>4. ToggleSound /\ toggle \in [at : {"none", "store"}, enabled : BOOLEAN,
                                 nextRunAt : Occurrences \cup {Never}]
  BY <1>1 DEF ToggleSound, NoToggle
<1>5. clock \in Nat /\ events \in Nat
  BY <1>1
<1>6. run \in [Occurrences -> Run] /\ SuccessIsEarned
  BY <1>1, <1>2 DEF SuccessIsEarned
<1>7. stepOp \in [Occurrences -> [Positions -> StepOperation]] /\ StepsInOrder
  BY <1>1, <1>2 DEF StepsInOrder
<1>8. pass \in [Schedulers -> Pass] /\ LoopsApart
  BY <1>1, NoPassType DEF LoopsApart, NoPass
<1>9. \A s \in Schedulers : PassInv(s)
  BY <1>1 DEF NoPass, PassInv, PassUndecided, EarlierStepsDone, AcceptedIsMine, VerdictIsTrue,
              AtStep
<1> QED
  BY <1>3, <1>4, <1>5, <1>6, <1>7, <1>8, <1>9 DEF ScheduleInv, ScheduleTypeOK

LEMMA ScheduleNextInv == ScheduleInv /\ [ScheduleNext]_scheduleVars => ScheduleInv'
<1> SUFFICES ASSUME ScheduleInv, [ScheduleNext]_scheduleVars PROVE ScheduleInv'
  OBVIOUS
<1>1. ASSUME NEW s \in Schedulers, PassStep(s) PROVE ScheduleInv'
  BY <1>1, BeginPassInv, RecoverAbandonedInv, ListDueInv, SkipClaimInv, SkipSettleInv,
     ClaimTargetInv, AdvanceInv, AcceptStepInv, QueueStepInv, RecordBackupInv,
     WaitForSettlementInv, FinishRunInv DEF PassStep
<1>2. ASSUME NEW s \in Schedulers, SchedulerDies(s) PROVE ScheduleInv'
  BY <1>2, SchedulerDiesInv
<1>3. ASSUME NEW o \in Occurrences, NEW i \in Positions, SettleOperation(o, i)
      PROVE  ScheduleInv'
  BY <1>3, SettleOperationInv
<1>4. ASSUME NEW e \in BOOLEAN, RequestToggle(e) PROVE ScheduleInv'
  BY <1>4, RequestToggleInv
<1>5. CASE SetEnabled
  BY <1>5, SetEnabledInv
<1>6. CASE ScheduleTick
  BY <1>6, ScheduleTickInv
<1>7. CASE UNCHANGED scheduleVars
  <2>1. UNCHANGED <<clock, schedule, run, stepOp, pass, toggle, events>>
    BY <1>7 DEF scheduleVars
  <2> QED
    BY <2>1, SurroundingsInv DEF ScheduleInv, ScheduleTypeOK, DisabledStaysOff, ToggleSound
<1> QED
  BY <1>1, <1>2, <1>3, <1>4, <1>5, <1>6, <1>7 DEF ScheduleNext

-----------------------------------------------------------------------------

\* Every reachable state of the schedule satisfies the invariant.
THEOREM ScheduleInvariant == ScheduleSpec => []ScheduleInv
<1> QED
  BY ScheduleInitInv, ScheduleNextInv, PTL DEF ScheduleSpec

\* Rows, requests and passes keep their shapes: every next run the loops compute
\* is an instant of the trigger.
THEOREM ScheduleTypeCorrect == ScheduleSpec => []ScheduleTypeOK
<1>1. ScheduleInv => ScheduleTypeOK
  BY DEF ScheduleInv
<1> QED
  BY <1>1, ScheduleInvariant, PTL

\* No settlement gives a schedule that was switched off a next run.
THEOREM DisabledSchedulesStayOff == ScheduleSpec => []DisabledStaysOff
<1>1. ScheduleInv => DisabledStaysOff
  BY DEF ScheduleInv
<1> QED
  BY <1>1, ScheduleInvariant, PTL

\* A run recorded as succeeded did every step, whichever loops acted on it.
THEOREM SuccessesAreEarned == ScheduleSpec => []SuccessIsEarned
<1>1. ScheduleInv => SuccessIsEarned
  BY DEF ScheduleInv
<1> QED
  BY <1>1, ScheduleInvariant, PTL

\* No step is handed over before all earlier ones succeeded.
THEOREM StepsKeepOrder == ScheduleSpec => []StepsInOrder
<1>1. ScheduleInv => StepsInOrder
  BY DEF ScheduleInv
<1> QED
  BY <1>1, ScheduleInvariant, PTL

\* No loop claims, advances or settles a settled run.
THEOREM SettledRunsStaySettled == ScheduleSpec => SettledRunsAreFinal
<1>1. ASSUME ScheduleInv, ScheduleNext, NEW o \in Occurrences, run[o].status \in SettledRun
      PROVE  run'[o] = run[o]
  <2>0. /\ run \in [Occurrences -> Run]
        /\ run[o].status # "none" /\ run[o].status \notin InFlightRun
    BY <1>1 DEF ScheduleInv, ScheduleTypeOK, SettledRun, InFlightRun
  <2>1. ASSUME NEW q, NEW status, NEW verified, NEW next, TrySettle(q, status, verified, next)
        PROVE  run'[o] = run[o]
    BY <2>0, <2>1 DEF TrySettle, SettleRun
  <2>2. ASSUME NEW s, NEW q, NEW t, MayClaim(q, t), ClaimOccurrence(s, q, t)
        PROVE  run'[o] = run[o]
    BY <2>0, <2>2 DEF MayClaim, Lapsed, ClaimOccurrence
  <2>3. ASSUME NEW s \in Schedulers, PassStep(s) PROVE run'[o] = run[o]
    <3>1. CASE RecoverAbandoned(s) \/ SkipSettle(s) \/ FinishRun(s)
      BY <2>1, <3>1 DEF RecoverAbandoned, SkipSettle, FinishRun
    <3>2. CASE SkipClaim(s) \/ ClaimTarget(s)
      BY <2>2, <3>2 DEF SkipClaim, ClaimTarget
    <3>3. CASE Advance(s)
      BY <2>0, <3>3 DEF Advance
    <3>4. CASE \/ BeginPass(s) \/ ListDue(s) \/ AcceptStep(s) \/ QueueStep(s)
               \/ RecordBackup(s) \/ WaitForSettlement(s)
      BY <3>4 DEF BeginPass, ListDue, AcceptStep, QueueStep, RecordBackup, WaitForSettlement
    <3> QED
      BY <2>3, <3>1, <3>2, <3>3, <3>4 DEF PassStep
  <2>4. CASE \/ \E s \in Schedulers : SchedulerDies(s)
             \/ \E q \in Occurrences, i \in Positions : SettleOperation(q, i)
             \/ \E e \in BOOLEAN : RequestToggle(e)
             \/ SetEnabled \/ ScheduleTick
    BY <2>4 DEF SchedulerDies, SettleOperation, RequestToggle, SetEnabled, ScheduleTick
  <2> QED
    BY <1>1, <2>3, <2>4 DEF ScheduleNext
<1>2. ScheduleInv /\ [ScheduleNext]_scheduleVars =>
        [\A o \in Occurrences : run[o].status \in SettledRun => run'[o] = run[o]]_scheduleVars
  BY <1>1
<1> QED
  BY <1>2, ScheduleInvariant, PTL DEF ScheduleSpec, SettledRunsAreFinal

-----------------------------------------------------------------------------
(* The loops carry out the plan. An operation of a step is in flight from its *)
(* acceptance to its end, so that enqueueing it is no step of the plan; a     *)
(* run is open until a settlement finds it in flight.                         *)

LEMMA PlanPositions == 1 .. Len(Steps) = Positions
BY DEF Positions

LEMMA PlanShape ==
  /\ \A o \in Occurrences, i \in Positions : PlanStep[o][i] = Seen(stepOp[o][i])
  /\ \A o \in Occurrences :
        PlanDecision[o] = IF run[o].status \in SettledRun THEN run[o].status ELSE "open"
BY DEF PlanStep, PlanDecision

LEMMA SeenStatus ==
  /\ Seen("none") = "waiting"
  /\ Seen("accepted") = "inFlight" /\ Seen("running") = "inFlight"
  /\ Seen("succeeded") = "succeeded" /\ Seen("failed") = "failed"
  /\ \A status \in StepOperation :
        Seen(status) = "inFlight" => status \in {"accepted", "running"}
BY DEF Seen, StepOperation

\* The plan sees of the operations only which are in flight and how they ended.
LEMMA PlanStepKept ==
  ASSUME stepOp' = stepOp
  PROVE  PlanStep' = PlanStep
BY DEF PlanStep

LEMMA PlanDecisionKept ==
  ASSUME run' = run
  PROVE  PlanDecision' = PlanDecision
BY DEF PlanDecision

\* One operation moves, and the plan sees that step move alone.
LEMMA PlanStepMoves ==
  ASSUME ScheduleInv, NEW o \in Occurrences, NEW i \in Positions, NEW status,
         stepOp' = [stepOp EXCEPT ![o][i] = status]
  PROVE  PlanStep' = [PlanStep EXCEPT ![o][i] = Seen(status)]
<1>1. stepOp \in [Occurrences -> [Positions -> StepOperation]]
  BY DEF ScheduleInv, ScheduleTypeOK
<1>2. \A q \in Occurrences, j \in Positions :
        stepOp'[q][j] = IF q = o /\ j = i THEN status ELSE stepOp[q][j]
  BY <1>1
<1>3. PlanStep' = [q \in Occurrences |-> [j \in Positions |->
                     IF q = o /\ j = i THEN Seen(status) ELSE Seen(stepOp[q][j])]]
  BY <1>2 DEF PlanStep
<1> QED
  BY <1>3 DEF PlanStep

\* A settlement decides the occurrence, or is refused and changes nothing.
LEMMA SettlementDecides ==
  ASSUME ScheduleInv, stepOp' = stepOp,
         NEW o \in Occurrences, NEW status \in SettledRun, NEW verified, NEW next,
         TrySettle(o, status, verified, next),
         status = "succeeded" => \A j \in Positions : stepOp[o][j] = "succeeded"
  PROVE  Plan!PlanNext \/ UNCHANGED <<PlanStep, PlanDecision>>
<1>1. run \in [Occurrences -> Run] /\ PlanStep' = PlanStep
  BY PlanStepKept DEF ScheduleInv, ScheduleTypeOK
<1>2. ASSUME UNCHANGED <<run, schedule>> PROVE UNCHANGED <<PlanStep, PlanDecision>>
  BY <1>1, <1>2, PlanDecisionKept
<1>3. ASSUME run[o].status \in InFlightRun, SettleRun(o, status, verified, next)
      PROVE  Plan!PlanNext
  <2>1. run' = [run EXCEPT ![o].status = status, ![o].verified = verified]
    BY <1>3 DEF SettleRun
  <2>2. /\ run'[o].status = status
        /\ \A q \in Occurrences : q # o => run'[q] = run[q]
    BY <1>1, <2>1 DEF Run
  <2>3. PlanDecision[o] = "open"
    BY <1>3, PlanShape DEF InFlightRun, SettledRun
  <2>4. PlanDecision' = [PlanDecision EXCEPT ![o] = status]
    BY <2>2 DEF PlanDecision
  <2>5. status = "succeeded" => \A j \in 1 .. Len(Steps) : PlanStep[o][j] = "succeeded"
    BY PlanPositions, PlanShape, SeenStatus
  <2>6. Plan!Decide(o, status)
    BY <1>1, <2>3, <2>4, <2>5 DEF Plan!Decide
  <2>7. status \in Plan!Ends \cup {"skipped"}
    BY DEF Plan!Ends, SettledRun
  <2> QED
    BY <2>6, <2>7 DEF Plan!PlanNext
<1> QED
  BY <1>2, <1>3 DEF TrySettle

\* A claim, a take-over or a renewed lease leaves the occurrence open.
LEMMA ClaimDecidesNothing ==
  ASSUME ScheduleInv, stepOp' = stepOp,
         NEW o \in Occurrences, run[o].status \notin SettledRun,
         NEW row \in Run, row.status \in InFlightRun,
         run' = [run EXCEPT ![o] = row]
  PROVE  UNCHANGED <<PlanStep, PlanDecision>>
<1>1. run \in [Occurrences -> Run]
  BY DEF ScheduleInv, ScheduleTypeOK
<1>2. row.status \notin SettledRun
  BY DEF InFlightRun, SettledRun
<1>3. \A q \in Occurrences :
        /\ q # o => run'[q] = run[q]
        /\ q = o => run'[q] = row
  BY <1>1
<1>4. PlanDecision' = PlanDecision
  BY <1>2, <1>3 DEF PlanDecision
<1> QED
  BY <1>4, PlanStepKept

LEMMA AcceptStepHandsOver ==
  ASSUME ScheduleInv, NEW s \in Schedulers, AcceptStep(s)
  PROVE  Plan!PlanNext \/ UNCHANGED <<PlanStep, PlanDecision>>
<1> DEFINE o == pass[s].occurrence
           i == pass[s].step
<1>0. /\ pass[s].at = "accept" /\ EarlierStepsDone(s) /\ run' = run
      /\ o \in Occurrences /\ i \in Positions
  BY PassFacts DEF AcceptStep, PassInv, EarlierStepsDone, AtStep
<1>1. ASSUME stepOp' = stepOp PROVE UNCHANGED <<PlanStep, PlanDecision>>
  BY <1>0, <1>1, PlanStepKept, PlanDecisionKept
<1>2. ASSUME stepOp[o][i] = "none",
             \A q \in Occurrences, j \in Positions : ~OperationOpen(q, j),
             stepOp' = [stepOp EXCEPT ![o][i] = "accepted"]
      PROVE  Plan!PlanNext
  <2>1. PlanStep[o][i] = "waiting"
    BY <1>0, <1>2, PlanShape, SeenStatus
  <2>2. \A j \in 1 .. i - 1 : PlanStep[o][j] = "succeeded"
    <3>1. \A j \in 1 .. i - 1 : j \in Positions
      BY <1>0, StepsType DEF Positions
    <3>2. \A j \in 1 .. i - 1 : stepOp[o][j] = "succeeded"
      BY <1>0 DEF EarlierStepsDone, AtStep
    <3> QED
      BY <1>0, <3>1, <3>2, PlanShape, SeenStatus
  <2>3. \A q \in Occurrences, j \in 1 .. Len(Steps) : PlanStep[q][j] # "inFlight"
    <3>1. stepOp \in [Occurrences -> [Positions -> StepOperation]]
      BY PassFacts
    <3> QED
      BY <1>2, <3>1, PlanPositions, PlanShape, SeenStatus DEF OperationOpen
  <2>4. PlanStep' = [PlanStep EXCEPT ![o][i] = "inFlight"]
    <3>1. o \in Occurrences /\ i \in Positions
      BY <1>0
    <3> HIDE DEF o, i
    <3>2. PlanStep' = [PlanStep EXCEPT ![o][i] = Seen("accepted")]
      BY <1>2, <3>1, PlanStepMoves
    <3> QED
      BY <3>2, SeenStatus
  <2>5. PlanDecision' = PlanDecision
    BY <1>0, PlanDecisionKept
  <2>6. Plan!HandOver(o, i)
    BY <2>1, <2>2, <2>3, <2>4, <2>5 DEF Plan!HandOver
  <2> QED
    BY <1>0, <2>6, PlanPositions DEF Plan!PlanNext
<1> QED
  BY <1>1, <1>2 DEF AcceptStep

LEMMA QueueStepStays ==
  ASSUME ScheduleInv, NEW s \in Schedulers, QueueStep(s)
  PROVE  UNCHANGED <<PlanStep, PlanDecision>>
<1> DEFINE o == pass[s].occurrence
           i == pass[s].step
<1>1. /\ o \in Occurrences /\ i \in Positions /\ stepOp[o][i] = "accepted" /\ run' = run
      /\ stepOp' = [stepOp EXCEPT ![o][i] = "running"]
  BY PassFacts DEF QueueStep, PassInv, EarlierStepsDone, AcceptedIsMine, AtStep
<1> HIDE DEF o, i
<1>2. stepOp \in [Occurrences -> [Positions -> StepOperation]]
  BY PassFacts
<1>3. \A q \in Occurrences, j \in Positions : Seen(stepOp'[q][j]) = Seen(stepOp[q][j])
  BY <1>1, <1>2, SeenStatus
<1>4. PlanStep' = PlanStep
  BY <1>3 DEF PlanStep
<1> QED
  BY <1>1, <1>4, PlanDecisionKept

LEMMA OperationEndFinishes ==
  ASSUME ScheduleInv, NEW o \in Occurrences, NEW i \in Positions, SettleOperation(o, i)
  PROVE  Plan!PlanNext
<1>1. PICK outcome \in {"succeeded", "failed"} : stepOp' = [stepOp EXCEPT ![o][i] = outcome]
  BY DEF SettleOperation
<1>2. outcome \in Plan!Ends /\ Seen(outcome) = outcome
  BY SeenStatus DEF Plan!Ends
<1>3. PlanStep' = [PlanStep EXCEPT ![o][i] = Seen(outcome)]
  BY <1>1, PlanStepMoves
<1>4. PlanStep' = [PlanStep EXCEPT ![o][i] = outcome]
  BY <1>2, <1>3
<1>5. PlanStep[o][i] = "inFlight"
  BY PlanShape, SeenStatus DEF SettleOperation
<1>6. PlanDecision' = PlanDecision
  BY PlanDecisionKept DEF SettleOperation
<1>7. Plan!Finish(o, i)
  BY <1>2, <1>4, <1>5, <1>6 DEF Plan!Finish
<1> QED
  BY <1>7, PlanPositions DEF Plan!PlanNext

\* One step of a loop is one step of the plan, or none.
LEMMA PassStepPlans ==
  ASSUME ScheduleInv, NEW s \in Schedulers, PassStep(s)
  PROVE  Plan!PlanNext \/ UNCHANGED <<PlanStep, PlanDecision>>
<1>0. pass[s] \in Pass /\ PassInv(s) /\ run \in [Occurrences -> Run]
  BY PassFacts
<1>1. ASSUME RecoverAbandoned(s) PROVE Plan!PlanNext \/ UNCHANGED <<PlanStep, PlanDecision>>
  <2>1. PICK o \in pass[s].abandoned : TrySettle(o, "failed", "null", NextRunAfter(pass[s].now))
    BY <1>1 DEF RecoverAbandoned
  <2>2. o \in Occurrences /\ "failed" \in SettledRun /\ stepOp' = stepOp
    BY <1>0, <1>1 DEF Pass, SettledRun, RecoverAbandoned
  <2> QED
    BY <2>1, <2>2, SettlementDecides
<1>2. ASSUME SkipSettle(s) PROVE Plan!PlanNext \/ UNCHANGED <<PlanStep, PlanDecision>>
  <2>1. Min(pass[s].missed) \in Occurrences
    <3>1. pass[s].missed # {} /\ pass[s].missed \subseteq Occurrences
      BY <1>0, <1>2 DEF SkipSettle, PassInv, PassUndecided, Pass
    <3>2. pass[s].missed \in SUBSET Nat
      BY <3>1
    <3> QED
      BY <3>1, <3>2, MinIsThere
  <2>2. /\ TrySettle(Min(pass[s].missed), "skipped", "null", NextRunAfter(pass[s].now))
        /\ "skipped" \in SettledRun /\ stepOp' = stepOp
    BY <1>2 DEF SkipSettle, SettledRun
  <2> QED
    BY <2>1, <2>2, SettlementDecides
<1>3. ASSUME FinishRun(s) PROVE Plan!PlanNext \/ UNCHANGED <<PlanStep, PlanDecision>>
  <2>1. /\ pass[s].occurrence \in Occurrences /\ pass[s].status \in SettledRun
        /\ pass[s].status = "succeeded" =>
              \A j \in Positions : stepOp[pass[s].occurrence][j] = "succeeded"
    BY <1>0, <1>3 DEF FinishRun, PassInv, VerdictIsTrue, Pass
  <2>2. /\ TrySettle(pass[s].occurrence, pass[s].status, pass[s].verified, NextRunAfter(clock))
        /\ stepOp' = stepOp
    BY <1>3 DEF FinishRun
  <2> QED
    BY <2>1, <2>2, SettlementDecides
<1>4. ASSUME NEW o \in Occurrences, NEW t \in Nat, MayClaim(o, t), ClaimOccurrence(s, o, t),
             stepOp' = stepOp
      PROVE  UNCHANGED <<PlanStep, PlanDecision>>
  <2>1. run[o].status \notin SettledRun
    BY <1>4 DEF MayClaim, Lapsed, InFlightRun, SettledRun
  <2>2. PICK row \in Run : row.status \in InFlightRun /\ run' = [run EXCEPT ![o] = row]
    BY <1>4, ClaimRow
  <2> QED
    BY <1>4, <2>1, <2>2, ClaimDecidesNothing
<1>5. ASSUME SkipClaim(s) PROVE UNCHANGED <<PlanStep, PlanDecision>>
  <2>1. Min(pass[s].missed) \in Occurrences /\ pass[s].now \in Nat
    <3>1. pass[s].missed # {} /\ pass[s].missed \subseteq Occurrences
      BY <1>0, <1>5 DEF SkipClaim, Pass
    <3>2. pass[s].missed \in SUBSET Nat
      BY <3>1
    <3> QED
      BY <1>0, <3>1, <3>2, MinIsThere DEF Pass
  <2>2. stepOp' = stepOp
    BY <1>5 DEF SkipClaim
  <2>3. CASE run' = run
    BY <2>2, <2>3, PlanStepKept, PlanDecisionKept
  <2>4. CASE MayClaim(Min(pass[s].missed), pass[s].now)
              /\ ClaimOccurrence(s, Min(pass[s].missed), pass[s].now)
    BY <1>4, <2>1, <2>2, <2>4
  <2> QED
    BY <1>5, <2>3, <2>4 DEF SkipClaim
<1>6. ASSUME ClaimTarget(s) PROVE UNCHANGED <<PlanStep, PlanDecision>>
  <2>1. pass[s].occurrence \in Occurrences /\ pass[s].now \in Nat
    BY <1>0, <1>6 DEF ClaimTarget, PassInv, PassUndecided, Pass
  <2>2. stepOp' = stepOp
    BY <1>6 DEF ClaimTarget
  <2>3. CASE run' = run
    BY <2>2, <2>3, PlanStepKept, PlanDecisionKept
  <2>4. CASE MayClaim(pass[s].occurrence, pass[s].now)
              /\ ClaimOccurrence(s, pass[s].occurrence, pass[s].now)
    BY <1>4, <2>1, <2>2, <2>4
  <2> QED
    BY <1>6, <2>3, <2>4 DEF ClaimTarget
<1>7. ASSUME Advance(s) PROVE UNCHANGED <<PlanStep, PlanDecision>>
  <2> DEFINE o == pass[s].occurrence
             row == [run[o] EXCEPT !.status = "running", !.leaseExpiresAt = clock + LeaseTime]
  <2>1. o \in Occurrences /\ stepOp' = stepOp /\ clock \in Nat
    BY <1>0, <1>7, PassFacts DEF Advance, PassInv, EarlierStepsDone, AtStep
  <2>2. CASE run' = run
    BY <2>1, <2>2, PlanStepKept, PlanDecisionKept
  <2>3. ASSUME run[o].status \in InFlightRun,
               run' = [run EXCEPT ![o].status = "running",
                                  ![o].leaseExpiresAt = clock + LeaseTime]
        PROVE  UNCHANGED <<PlanStep, PlanDecision>>
    <3>1. run[o] \in Run /\ clock + LeaseTime \in Nat
      <4>1. run[o] \in Run
        BY <1>0, <2>1
      <4>2. clock + LeaseTime \in Nat
        BY <2>1
      <4> QED
        BY <4>1, <4>2
    <3>2. row \in Run /\ row.status \in InFlightRun
      BY <3>1 DEF Run, InFlightRun
    <3>3. run' = [run EXCEPT ![o] = row]
      BY <1>0, <2>1, <2>3
    <3>4. run[o].status \notin SettledRun
      BY <2>3 DEF InFlightRun, SettledRun
    <3> HIDE DEF o, row
    <3> QED
      BY <2>1, <3>2, <3>3, <3>4, ClaimDecidesNothing
  <2> QED
    BY <1>7, <2>2, <2>3 DEF Advance
<1>8. ASSUME BeginPass(s) \/ ListDue(s) \/ RecordBackup(s) \/ WaitForSettlement(s)
      PROVE  UNCHANGED <<PlanStep, PlanDecision>>
  <2>1. run' = run /\ stepOp' = stepOp
    BY <1>8 DEF BeginPass, ListDue, RecordBackup, WaitForSettlement
  <2> QED
    BY <2>1, PlanStepKept, PlanDecisionKept
<1> QED
  BY <1>1, <1>2, <1>3, <1>5, <1>6, <1>7, <1>8, AcceptStepHandsOver, QueueStepStays DEF PassStep

\* Whatever the loops claim, lose and take over, the occurrences are carried
\* out as the plan says: one step at a time, each once and after the success of
\* the earlier ones, and what was decided of an occurrence stays.
THEOREM ScheduleImplementsPlan == ScheduleSpec => ImplementsMaintenancePlan
<1>1. ScheduleInit => Plan!PlanInit
  <2> SUFFICES ASSUME ScheduleInit PROVE Plan!PlanInit
    OBVIOUS
  <2>1. PlanStep = [o \in Occurrences |-> [i \in 1 .. Len(Steps) |-> "waiting"]]
    <3>1. \A o \in Occurrences, i \in Positions : stepOp[o][i] = "none"
      BY DEF ScheduleInit
    <3> QED
      BY <3>1, PlanPositions, SeenStatus DEF PlanStep
  <2>2. PlanDecision = [o \in Occurrences |-> "open"]
    BY DEF PlanDecision, ScheduleInit, NoRun, SettledRun
  <2> QED
    BY <2>1, <2>2 DEF Plan!PlanInit
<1>2. ScheduleInv /\ [ScheduleNext]_scheduleVars => [Plan!PlanNext]_(Plan!planVars)
  <2> SUFFICES ASSUME ScheduleInv, [ScheduleNext]_scheduleVars
               PROVE  Plan!PlanNext \/ UNCHANGED <<PlanStep, PlanDecision>>
    BY DEF Plan!planVars
  <2>1. ASSUME NEW s \in Schedulers, PassStep(s)
        PROVE  Plan!PlanNext \/ UNCHANGED <<PlanStep, PlanDecision>>
    BY <2>1, PassStepPlans
  <2>2. ASSUME NEW o \in Occurrences, NEW i \in Positions, SettleOperation(o, i)
        PROVE  Plan!PlanNext
    BY <2>2, OperationEndFinishes
  <2>3. ASSUME \/ \E s \in Schedulers : SchedulerDies(s)
               \/ \E e \in BOOLEAN : RequestToggle(e)
               \/ SetEnabled \/ ScheduleTick
               \/ UNCHANGED scheduleVars
        PROVE  UNCHANGED <<PlanStep, PlanDecision>>
    <3>1. run' = run /\ stepOp' = stepOp
      BY <2>3 DEF SchedulerDies, RequestToggle, SetEnabled, ScheduleTick, scheduleVars
    <3> QED
      BY <3>1, PlanStepKept, PlanDecisionKept
  <2> QED
    BY <2>1, <2>2, <2>3 DEF ScheduleNext
<1> QED
  BY <1>1, <1>2, ScheduleInvariant, PTL DEF ScheduleSpec, ImplementsMaintenancePlan, Plan!PlanSpec

=============================================================================
