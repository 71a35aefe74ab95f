SPECIFICATION Spec
CONSTANTS
    Events <- MCEvents
    ForeignLines <- MCForeignLines
    MaxEvents = 3
    MaxDamage = 2
INVARIANTS
    SealedIsAuthentic
CHECK_DEADLOCK FALSE
