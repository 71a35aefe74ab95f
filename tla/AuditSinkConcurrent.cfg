SPECIFICATION Spec
CONSTANTS
    Events = {e1, e2, e3, e4}
    Serialized = FALSE
    Faults = {}
SYMMETRY EventSymmetry
INVARIANTS
    NoFork
    NothingDangles
CHECK_DEADLOCK FALSE
