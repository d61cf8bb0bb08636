SPECIFICATION FairSpec
CONSTANTS
    Keys = {k1}
    Owner <- OneOwner
    Taps = {q1, q2}
    None = None
    Brake = 2
    MaxCrashes = 2
PROPERTIES
    InProgressEnds
CHECK_DEADLOCK FALSE
