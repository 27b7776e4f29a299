CONSTANTS
    m1 = m1
    m2 = m2
    Miners <- MCMiners
    NoMiner = NoMiner
    N = 3
    BatchSize = 2
    Threshold = 2
    MaxRetries = 2
    Broken <- MCNoBroken
    Faults <- MCReadableFaults
    MaxFaults = 4
SPECIFICATION FairSpec
INVARIANTS
    CompletedCoversAll
    FundedOrGivenUp
PROPERTIES
    ImplementsLedger
    CompletionStopsPayments
    FundingCompletes
