SPECIFICATION FairSpec
CONSTANTS
    Window = 1
    Start = 1
    Target = 2
    One = 4
    MinD = 2
    MaxD = 8
    Gaps <- MCGaps
    MaxTop = 6
    MaxPops = 1
    Daemons <- MCDaemons
    Waits <- MCWaits
    MaxPolls = 2
    Faults <- MCAllFaults
    MaxFaults = 1
PROPERTIES
    ReplayIsSeries
    FailureHolds
    MinesOn
CHECK_DEADLOCK FALSE
