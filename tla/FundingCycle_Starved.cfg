SPECIFICATION FairSpec
CONSTANTS
    m1 = m1
    m2 = m2
    NoMiner = NoMiner
    Miners <- MCMiners
    N = 4
    BatchSize = 2
    MaxRetries = 2
    Fits <- MCOneFits
    Faults <- MCNoFaults
    MaxFaults = 0
PROPERTY EveryUserServed
