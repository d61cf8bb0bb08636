SPECIFICATION MCSpec
CONSTANTS
    None = None
    Requests = {r1, r2, r3}
    Legacy = {w}
    NotStarted = NotStarted
    NoCash = NoCash
    NoBalance = NoBalance
    Calls = {c1, c2, c3}
    CashTtl = 2
    Settle = 1
    Memory = 1
    Lag = 1
    CashTime = 2
    Decisions = {d1, d2}
    Ttl = 1
    ReadMax = 2
    CollateralTime = 5
    Wallets = {w1}
    Passes = {p1, p2}
    Chunk = 1
    Catchup = 2
    QueueMax = 1
    MaxBlocks = 3
    Users = {u, v, x}
    Markets = {m}
    Concurrency = 2
    MaxPerTx = 2
    RedeemLosses = FALSE
    Keys = {k1, k2}
    Tasks = {t1, t2, t3}
    Locks = {l1, l2, l3}
    NoLock = NoLock
    Nobody = Nobody
    Followers = {f, g}
    Unset = Unset
    Limit = 2
    Span = 1
    SeenMax = 2
    SeenDrop = 1
    PerSecond = 2
    MaxFills = 3
    MaxTime = 4
SYMMETRY Alike
CONSTRAINT Bounded
INVARIANTS
    ServicesTypeOK
    KeysKept
    OneSigner
    SdkExclusive
    NoOrphanWallet
    SizedAfterTheBet
    BalanceRecent
    CursorCovers
    AnnouncedOnce
    HaltHolds
    NoSecondTransaction
    KeyExclusive
    EntriesInUse
    HandledOnce
    ChainServesEveryFollower
PROPERTIES
    CursorForward
    OnlyProvenRedeemed
    NoRetroCopy
    AgeIsTrue
CHECK_DEADLOCK FALSE
