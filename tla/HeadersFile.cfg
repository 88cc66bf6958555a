SPECIFICATION Spec
CONSTANTS
    Peers = {p1, p2}
    NoPeer = NoPeer
    BatchSize = 2
    LongCount = 2
    headers_in_disk = 4
    Tip = 4
    Cuts = {83}
    MaxEmptyLists = 1
    MaxCrashes = 2
    MaxFaults = 2
INVARIANTS LoadedHeadersAreChain PersistedEqualsMemory PanicOnlyIfCut
PROPERTIES Ends
CHECK_DEADLOCK FALSE
