SPECIFICATION Spec
CONSTANTS
    Tokens = {a}
    Settings <- TwoDollars
    Ids = {1, 2, 3, 4, 5, 6}
    None = None
    MaxSize = 2
    Wealth = 2
    Own = 0
    MaxAttempts = 1
    MaxMoves = 2
    MaxFaults = 0
CONSTRAINT NoExternalClose
INVARIANT RowBacked
