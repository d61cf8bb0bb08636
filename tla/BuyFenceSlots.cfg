SPECIFICATION Spec
CONSTANTS
    Tokens = {a, b}
    Ids = {i1, i2}
    None = None
    MaxPerTrade = 2
    MaxTotal = 3
    MaxOpen = 1
    MaxRev = 1
    MaxCrashes = 0
SYMMETRY Symmetry
VIEW View
CONSTRAINT NothingWaived
INVARIANTS
    OpenRowsWithinSlots
