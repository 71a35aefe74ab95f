SPECIFICATION FairSpec
CONSTANTS
    Files <- MCFiles
    RuleFiles <- MCRuleFiles
    Calls <- MCCalls
    TimerMax = 7
    TransportTimeout = 5
    MaxClock = 9
INVARIANTS
    TypeOK
    AllowedByRule
    ExplicitApproval
    ApproverHasTime
    DecisionFresh
PROPERTIES
    CallEnds
    DecisionsHonoured
CHECK_DEADLOCK FALSE
