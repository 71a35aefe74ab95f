SPECIFICATION Spec
CONSTANTS
    MaxManagers = 3
    Calls = {c1}
    Handshake = Handshake
    ServerRequestIds = {9}
    Reliable = {}
    Faults = {"slowStart"}
INVARIANTS
    ReconnectOnlyWhenDown
CHECK_DEADLOCK FALSE
