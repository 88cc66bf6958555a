CONSTANTS
    Peers = {p1, p2, p3}
    NoPeer = NoPeer
    BatchSize = 3
    InitialHeaders = 1
    Tip = 10
    FirstBlock = 6
    MaxHeaderFailures = 1
    NThreads = 2
    BlocksPerNode = 1
    MaxBlockFailures = 0
    Spends <- MCSpends
SPECIFICATION Spec
INVARIANTS
    OkMeansComplete
CHECK_DEADLOCK FALSE
