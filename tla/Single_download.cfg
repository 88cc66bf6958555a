CONSTANTS
    Peers = {p1, p2}
    NoPeer = NoPeer
    BatchSize = 3
    InitialHeaders = 1
    Tip = 9
    FirstBlock = 5
    MaxHeaderFailures = 2
    BlocksPerNode = 2
    MaxBlockFailures = 1
    Spends <- MCSpends
SPECIFICATION Spec
INVARIANTS
    OkMeansComplete
    ErrorMeansFailure
