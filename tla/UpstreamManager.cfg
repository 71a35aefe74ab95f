SPECIFICATION FairSpec
CONSTANTS
    Managers = {1, 2}
    Calls = {c1, c2}
    Handshake = Handshake
    ServerRequestIds = {9}
INVARIANTS
    TypeOK
    AnswersMatch
    TimersGuardEntries
    WaitingIsPending
    DrainedOnExit
PROPERTIES
    ContractHonoured
    CallsSettle
CHECK_DEADLOCK FALSE
