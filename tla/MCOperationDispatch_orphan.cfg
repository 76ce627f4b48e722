SPECIFICATION DispatchSpec
CONSTANTS
  a1 = a1
  a2 = a2
  o1 = o1
  o2 = o2
  p1 = p1
  Agents = {a1, a2}
  Workers = {}
  Jobs = {o1, o2}
  Nobody = Nobody
  Serves <- MCServes
  MaxAttempts <- MCMaxAttempts
  Deadline <- MCDeadline
  RequestedLease = 1
  Margin = 1
  MaxLease = 3
  WorkerLeaseTime = 1
  ClaimLimit = 4
  AttemptLimit = 1
  ApiMayCrash = FALSE
  MaxTime = 2
  Operations = {o1, o2}
  ProcessControl = {o1}
  ServerOf <- MCServerOf
  NoOperation = NoOperation
CHECK_DEADLOCK FALSE
INVARIANTS
  NoOrphanedOperation
