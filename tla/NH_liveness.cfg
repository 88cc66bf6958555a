CONSTANTS
    Peers = {p1, p2}
    Txs = {t1}
    NoTx = NoTx
    NBlocks = 1
    Window = 2
    BlockTxs <- MCBlockTxs
    Spends <- MCSpends
SPECIFICATION Spec
INVARIANTS
    HeadersGetBlocks
PROPERTIES
    AnnouncedGetsStored
CHECK_DEADLOCK FALSE
