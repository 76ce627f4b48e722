SPECIFICATION WindowFairSpec
CONSTANTS
    r1 = r1
    r2 = r2
    p1 = p1
    i1 = i1
    i2 = i2
    i3 = i3
    Agent = Agent
    NoOwner = NoOwner
    Readers <- OneReader
    Ids <- ThreeIds
    Runs <- OneRun
    Jobs = {"start", "stop", "restart", "restore", "backup", "command", "apply", "observe", "install"}
    LockTerm <- CodeTerms
    WorkTerm = 3
    MaxLooks = 2
    MaxTime = 1
    Overlap = FALSE
    MayCrash = {}
    Faults = TRUE
PROPERTIES
    WindowsEnd
CHECK_DEADLOCK FALSE
