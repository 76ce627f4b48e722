SPECIFICATION OwnershipSpec
CONSTANTS
    b1 = b1
    b2 = b2
    Boots <- BothBoots
    Requests = {"start", "stop"}
    Overlap = FALSE
    MayCrash <- BothBoots
    NoBoot = NoBoot
    MaxGenerations = 2
    Attempts = 3
    Faults = TRUE
    PidReuse = TRUE
INVARIANTS
    NoSecondJvm
    PublishedPidIsDurable
PROPERTIES
    ImplementsFence
CHECK_DEADLOCK FALSE
