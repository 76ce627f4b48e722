SPECIFICATION OwnershipFairSpec
CONSTANTS
    b1 = b1
    b2 = b2
    Boots <- BothBoots
    Requests = {"start", "stop"}
    Overlap = FALSE
    MayCrash <- FirstBoot
    NoBoot = NoBoot
    MaxGenerations = 2
    Attempts = 3
    Faults = FALSE
    PidReuse = FALSE
PROPERTIES
    DeadOwnerLeaves
    EffectsFinish
CHECK_DEADLOCK FALSE
