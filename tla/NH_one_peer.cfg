CONSTANTS
    Peers = {p1}
    Txs = {t1, t2}
    NoTx = NoTx
    NBlocks = 3
    Window = 1
    BlockTxs <- MCBlockTxs
    Spends <- MCSpends
SPECIFICATION Spec
INVARIANTS
    ChainStateExact
    ConfirmedInBlock
CHECK_DEADLOCK FALSE
