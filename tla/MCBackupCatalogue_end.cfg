SPECIFICATION FairBackupSpec
CONSTANTS
    b1 = b1
    b2 = b2
    h = h
    tm = tm
    Backups = {b1, b2}
    Existing = {b1}
    Restorable = {b1}
    AskedAgainAfter = {"none", "failed"}
    Tasks = {h, tm}
    Handler = h
    Timer = tm
    KeepLatest = 1
    MaximumAge = 0
    Quotas = {1, 2}
    MaxFaults = 1
INVARIANTS
    BackupTypeOK
    SuccessLeavesResult
    WithinQuota
PROPERTIES
    LatestSurvive
    BackupOperationEnds
    ExpiredIsRemoved
CHECK_DEADLOCK FALSE
