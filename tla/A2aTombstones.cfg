SPECIFICATION FairSpec
CONSTANTS
    Operations = {f, o1, o2}
    Founder = f
    RetryLimit = 2
    Faults = 1
    Nobody = Nobody
    f = f
    o1 = o1
    o2 = o2
INVARIANTS DeletionIsComplete WorkloadIsOwned DeletedAgentIsEmpty OneInstance
PROPERTIES ReplacementSurvives DeletionHappens
CHECK_DEADLOCK FALSE
