CONSTANTS
    m1 = m1
    m2 = m2
    Miners <- MCMiners
    NoMiner = NoMiner
    N = 2
    BatchSize = 2
    Threshold = 2
    MaxRetries = 2
    Broken <- MCFirstBroken
    Faults <- MCNoFaults
    MaxFaults = 0
SPECIFICATION FairSpec
PROPERTIES
    FundingCompletes
