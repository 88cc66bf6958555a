SPECIFICATION Spec
CHECK_DEADLOCK FALSE
CONSTANTS
    public_key <- MCpublic_key
    hash_160 <- MChash_160
    Checksum <- MCChecksum
    signature <- MCsignature
    KeyLen = 1
    PubkeyLen = 1
    HashLen = 2
    Logins <- MCLogins
    Payments <- MCPayments
    Confirmed <- MCConfirmed
    Incoming <- MCIncoming
    AMOUNT_TO_SHOW = 2
    RecentRows = 1
    MaxLogins = 2
    MaxSends = 2
    MaxSelects = 1
    MaxSearches = 1
    MaxBlocks = 1
    MaxBlockTxs = 2
    MaxInputs = 4
INVARIANTS
    BalanceExact
    ShownIsCurrent
    PaymentsValid
    PaidFromShownAccount
    TransactionsTracked
    BlocksTabRight
PROPERTIES
    SpendsUnspentCoins
    ButtonsComeBack
