SPECIFICATION Spec
CONSTANTS
    Tokens = {a, b}
    Ids = {i1, i2}
    None = None
    MaxPerTrade = 2
    MaxTotal = 2
    MaxOpen = 2
    MaxRev = 1
    MaxCrashes = 1
SYMMETRY Symmetry
VIEW View
CONSTRAINT Bounded
INVARIANTS
    TypeOK
    LiveOrderFenced
    UnfencedIsBooked
    OpenRowBacked
    MoneyWithinLimits
    AckedPauseHolds
PROPERTIES
    KeepsBooks
