SPECIFICATION WindowSpec
CONSTANTS
    r1 = r1
    r2 = r2
    p1 = p1
    i1 = i1
    i2 = i2
    i3 = i3
    Agent = Agent
    NoOwner = NoOwner
    Readers = {}
    Ids <- ThreeIds
    Runs <- TwoRuns
    Jobs = {"start", "backup"}
    LockTerm <- PatientTerms
    WorkTerm = 3
    MaxLooks = 1
    MaxTime = 3
    Overlap = FALSE
    MayCrash <- TwoRuns
    Faults = FALSE
INVARIANTS
    StaysOffline
CHECK_DEADLOCK FALSE
