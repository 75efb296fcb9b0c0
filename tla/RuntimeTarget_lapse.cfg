SPECIFICATION FairSpec
CONSTANTS
    Handlers = {h1, h2}
    Creations = {}
    Removals = {}
    Steps = 2
    RetryLimit <- RetryNone
    MaxGeneration = 2
    LeasesLapse = TRUE
    JobsExpire = TRUE
    Nobody = Nobody
    Gone = Gone
INVARIANTS ReadyIsCurrent
PROPERTIES DeletingIsFinal InitializationAttended
CHECK_DEADLOCK FALSE
