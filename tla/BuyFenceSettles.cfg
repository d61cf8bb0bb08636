SPECIFICATION FairSpec
CONSTANTS
    Tokens = {a}
    Ids = {i1}
    None = None
    MaxPerTrade = 2
    MaxTotal = 2
    MaxOpen = 1
    MaxRev = 1
    MaxCrashes = 1
CONSTRAINT NothingWaived
PROPERTIES
    UncertainSettles
