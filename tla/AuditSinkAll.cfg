SPECIFICATION Spec
CONSTANTS
    Events = {e1, e2, e3}
    Serialized = FALSE
    Faults = {"kill", "powerLoss", "tornTail", "failedCall", "shortWrite"}
SYMMETRY EventSymmetry
INVARIANTS
    TypeOK
    VerifiedIsComplete
CHECK_DEADLOCK FALSE
