CONSTANTS
    Peers = {p1, p2, p3}
    NoPeer = NoPeer
    BatchSize = 3
    InitialHeaders = 1
    Tip = 10
    FirstBlock = 6
    MaxHeaderFailures = 2
    NThreads = 2
    BlocksPerNode = 1
    MaxBlockFailures = 1
    Spends <- MCSpends
SPECIFICATION Spec
INVARIANTS
    WorkConserved
    CompleteIfHeadersNodeSurvives
    NodesNotShared
    UnspentCoinsKept
    IInv
PROPERTIES
    Termination
    ImplementsChainSync
CHECK_DEADLOCK FALSE
