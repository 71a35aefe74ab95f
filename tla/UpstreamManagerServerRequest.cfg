SPECIFICATION Spec
CONSTANTS
    Managers = {1}
    Calls = {c1, c2}
    Handshake = Handshake
    ServerRequestIds = {1, 2}
INVARIANTS
    AnswersMatch
CHECK_DEADLOCK FALSE
