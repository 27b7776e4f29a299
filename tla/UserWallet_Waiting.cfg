SPECIFICATION FairSpec
CONSTANTS
    Roles <- MCUser
    LastPhase = 2
    StopIn <- MCWaiting
    Faults <- MCNoFaults
    MaxFaults = 0
PROPERTY EveryUserSends
CHECK_DEADLOCK FALSE
