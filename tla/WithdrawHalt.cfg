SPECIFICATION Spec
CONSTANTS
    Keys = {k1, k2}
    Owner <- EachItsOwn
    Taps = {q1, q2}
    None = None
    Brake = 2
    MaxCrashes = 0
PROPERTIES
    NoSendOnceHalted
CHECK_DEADLOCK FALSE
