SPECIFICATION FairSpec
CONSTANTS
    Requests = {r1, r2}
    Deployments <- MCDeployments
    Faults = {"kill", "powerLoss", "failedCall"}
INVARIANTS
    TypeOK
    Mediated
    AnswersAudited
    FailureFollowsDecision
PROPERTIES
    ContractHonoured
    DecisionsHonoured
    CallsSettle
CHECK_DEADLOCK FALSE
