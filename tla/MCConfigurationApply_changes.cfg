CONSTANTS
  c1 = c1  c2 = c2  c3 = c3
  r1 = r1  r2 = r2
  w1 = w1  w2 = w2
  Contents = {c1, c2, c3}
  Requests = {r1, r2}
  Workers = {w1, w2}
  NoRequest = NoRequest
  NoContent = NoContent
  MaxFaults = 2
  MaxStarts = 1
CHECK_DEADLOCK FALSE
SPECIFICATION FairSpec
INVARIANTS RecordedContentIsKept AppliedCanBeUndone
PROPERTIES AppliedIsTrue PreparedIsDecided ImplementsReversibleChange
