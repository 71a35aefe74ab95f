SPECIFICATION Spec
CONSTANTS
    Events = {e1, e2, e3}
    Serialized = FALSE
    Faults = {}
SYMMETRY EventSymmetry
INVARIANTS
    ChainVerifies
CHECK_DEADLOCK FALSE
