SPECIFICATION Spec
CONSTANTS
    Events = {e1, e2, e3, e4, e5}
    Serialized = TRUE
    Faults = {"kill", "powerLoss"}
SYMMETRY EventSymmetry
INVARIANTS
    AckedDurable
    ChainVerifies
CHECK_DEADLOCK FALSE
