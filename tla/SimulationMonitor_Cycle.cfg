SPECIFICATION FairSpec
CONSTANTS
    Back = 5
    Ahead = 10
    NDaemons = 2
    MaxTop = 3
    Style <- MCStyle
    Faults <- MCAllFaults
    MaxFaults = 1
INVARIANTS
    CreditIsEarned
PROPERTIES
    SavedMovesForward
    OneLineBlocksCounted
    ScanCatchesUp
