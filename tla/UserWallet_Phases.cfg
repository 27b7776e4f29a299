SPECIFICATION FairSpec
CONSTANTS
    Roles <- AllRoles
    LastPhase = 3
    StopIn <- MCAllStages
    Faults <- MCAllFaults
    MaxFaults = 3
INVARIANT SyncedFirst
PROPERTY UserSendsAgain
CHECK_DEADLOCK FALSE
