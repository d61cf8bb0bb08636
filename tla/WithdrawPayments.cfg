SPECIFICATION Spec
CONSTANTS
    Keys = {k1, k2}
    Owner <- EachItsOwn
    Taps = {q1, q2}
    None = None
    Brake = 2
    MaxCrashes = 0
SYMMETRY Symmetry
INVARIANTS
    PaymentsNotShared
CHECK_DEADLOCK FALSE
