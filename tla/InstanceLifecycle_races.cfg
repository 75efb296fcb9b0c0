SPECIFICATION Spec
CONSTANTS
    Requests = {r1, r2}
    Methods = {"destroy", "refresh", "policies"}
    RetryLimit <- Limits
    Events = 2
    MaxKeys = 3
    Nobody = Nobody
    r1 = r1
    r2 = r2
SYMMETRY Symmetry
INVARIANTS OneLiveKey DeletionIsComplete
PROPERTIES NoKeyBesideRuntime
CHECK_DEADLOCK FALSE
