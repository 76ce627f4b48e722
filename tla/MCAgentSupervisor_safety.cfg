SPECIFICATION SupervisorSpec
CONSTANTS
  a1 = a1
  a2 = a2
  w1 = w1
  j1 = j1
  j2 = j2
  Agents = {a1, a2}
  Workers = {w1}
  Jobs = {j1, j2}
  Nobody = Nobody
  Serves <- MCServes
  MaxAttempts <- MCMaxAttempts
  Deadline <- MCDeadline
  RequestedLease = 1
  Margin = 1
  MaxLease = 3
  WorkerLeaseTime = 1
  ClaimLimit = 4
  AttemptLimit = 2
  ApiMayCrash = TRUE
  MaxTime = 2
CHECK_DEADLOCK FALSE
INVARIANTS
  LeaseBacksJob
  ReportStillOwnsJob
  ClaimNeverBlocked
  VerdictFromLastLease
  VerdictIsPerformed
  WorkedWithinBudget
  UnreportedIsMine
PROPERTIES
  FinishedIsFinal
