\* two requests with the same key among every other call
SPECIFICATION Spec
CONSTANTS
    Processes = {p1, p2}
    Instances = {i1, i2}
    Existing = {}
    Operations = {"create", "adopt", "attach", "detach", "delete", "recall", "count", "drain", "retry", "unbind"}
    Late = 0
    Nobody = Nobody
    p1 = p1
    p2 = p2
    i1 = i1
    i2 = i2
SYMMETRY Interchangeable
INVARIANTS UsableHasRef BoundAgentExists
PROPERTIES DecisionsSerialized
CHECK_DEADLOCK FALSE
