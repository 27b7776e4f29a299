SPECIFICATION FairSpec
CONSTANTS
    m1 = m1
    m2 = m2
    NoMiner = NoMiner
    Miners <- MCMiners
    N = 5
    BatchSize = 2
    MaxRetries = 3
    Fits <- MCFullFits
    Faults <- MCAllFaults
    MaxFaults = 4
INVARIANTS
    OneShareEach
    LoggedAsSent
    NobodySkipped
PROPERTIES
    GivesUpAfterAll
    EveryUserServed
