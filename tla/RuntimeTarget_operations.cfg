CONSTANTS
    Handlers = {h1, h2}
    Creations = {onboard}
    Removals = {remove}
    Steps = 2
    RetryLimit <- RetryCreations
    MaxGeneration = 1
    LeasesLapse = FALSE
    JobsExpire = FALSE
    Nobody = Nobody
    Gone = Gone
SYMMETRY Symmetry
SPECIFICATION Spec
INVARIANTS OneWorker PurgedStaysGone
PROPERTIES CancelledStaysCancelled EndedOperationsStayEnded
CHECK_DEADLOCK FALSE
