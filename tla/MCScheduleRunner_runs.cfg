SPECIFICATION FairScheduleSpec
CONSTANTS
    s1 = s1
    s2 = s2
    Schedulers = {s1, s2}
    Occurrences = {1, 2, 4}
    Steps <- MCSteps
    LeaseTime = 1
    Grace = 0
    MissedLimit = 8
    SettleTimeout = 0
    StartTime = 2
    MaxTime = 2
    MaxEvents = 1
INVARIANTS
    DisabledStaysOff
    SuccessIsEarned
    StepsInOrder
PROPERTIES
    SettledRunsAreFinal
    DueIsHandled
    ImplementsMaintenancePlan
CHECK_DEADLOCK FALSE
