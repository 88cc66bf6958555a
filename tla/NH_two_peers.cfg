CONSTANTS
    Peers = {p1, p2}
    Txs = {}
    NoTx = NoTx
    NBlocks = 2
    Window = 1
    BlockTxs <- MCBlockTxs
    Spends <- MCSpends
SPECIFICATION Spec
SYMMETRY PeerSymmetry
INVARIANTS
    ParentFirst
    TypeOK
    AccountsCurrent
    UnspentCoinsKept
CHECK_DEADLOCK FALSE
