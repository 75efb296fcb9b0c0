\* the cleanup of a deleted Project among late calls
SPECIFICATION FairSpec
CONSTANTS
    Processes = {p1, p2}
    Instances = {i1, i2}
    Existing = {i1}
    Operations = {"create", "detach", "delete", "recall", "drain", "cleanup"}
    Late = 1
    Nobody = Nobody
    p1 = p1
    p2 = p2
    i1 = i1
    i2 = i2
PROPERTY CleanupCompletes
CHECK_DEADLOCK FALSE
