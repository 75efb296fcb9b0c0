SPECIFICATION Spec
CONSTANTS
    Tasks = {t1}
    Instances = {i1, i2}
    Users = {owner, guest}
    Owner = owner
    PlanStatuses = {"decision", "deferred"}
    CallLimit = 2
    MaxRuns = 2
    MaxMessages = 2
    NoTask = NoTask
    NoInstance = NoInstance
    NoRun = NoRun
    NoContext = NoContext
SYMMETRY Symmetry
PROPERTIES
    PlansInTurn
