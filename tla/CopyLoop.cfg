SPECIFICATION Spec
CONSTANTS
    Tokens = {a, b}
    Settings <- Limits
    MaxSize = 4
    LeaderCash = 1
    Wealth = 4
INVARIANTS
    TypeOK
    PlanWithinLimits
    PlanSettles
