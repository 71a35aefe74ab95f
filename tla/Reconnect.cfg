SPECIFICATION FairSpec
CONSTANTS
    MaxManagers = 4
    Calls = {c1}
    Handshake = Handshake
    ServerRequestIds = {9}
    Reliable = {4}
    Faults = {"slowStart", "brokenPipe", "spawnError"}
INVARIANTS
    TypeOK
    RecoveryPending
    OneAttempt
    BackoffCounts
PROPERTIES
    ManagersBehave
    ServiceResumes
    ShutdownEnds
CHECK_DEADLOCK FALSE
