SPECIFICATION Spec
CONSTANTS
    Keys = {k1, k2}
    Owner <- OneOwner
    Taps = {q1, q2}
    None = None
    Brake = 1
    MaxCrashes = 1
SYMMETRY Symmetry
INVARIANTS
    TypeOK
    ConfirmedIsPaid
PROPERTIES
    KeepsPromise
CHECK_DEADLOCK FALSE
