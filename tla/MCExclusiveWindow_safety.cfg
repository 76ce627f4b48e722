SPECIFICATION WindowSpec
CONSTANTS
    r1 = r1
    r2 = r2
    p1 = p1
    i1 = i1
    i2 = i2
    i3 = i3
    Agent = Agent
    NoOwner = NoOwner
    Runs <- TwoRuns
    Readers <- OneReader
    Ids <- ThreeIds
    Jobs = {"restart", "start", "backup", "apply"}
    LockTerm <- PatientTerms
    WorkTerm = 1
    MaxLooks = 1
    MaxTime = 2
    Overlap = FALSE
    MayCrash <- TwoRuns
    Faults = TRUE
INVARIANTS
    WindowsExclude
    NoJvmUnderLease
SYMMETRY IdSymmetry
CHECK_DEADLOCK FALSE
