SPECIFICATION FairSpec
CONSTANTS
    user = user
    md = md
    monitor = monitor
    i1 = i1
    i2 = i2
    i3 = i3
    NoInode = NoInode
    NoWriter = NoWriter
    Writers <- MCWriters
    Readers <- MCReaders
    Inodes <- MCInodes
    MaxAppends = 2
    MaxFaults = 2
INVARIANTS
    ReadersSeeWhole
    AppendsSettled
PROPERTIES
    ReadsMoveForward
    ImplementsAppendLog
    EveryAppendEnds
