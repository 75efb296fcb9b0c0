SPECIFICATION PlannedSpec
CONSTANTS
    Tasks = {t1, t2}
    Instances = {i1, i2}
    Users = {owner}
    Owner = owner
    PlanStatuses = {"todo", "cancelled"}
    CallLimit = 2
    MaxRuns = 2
    MaxMessages = 1
    NoTask = NoTask
    NoInstance = NoInstance
    NoRun = NoRun
    NoContext = NoContext
SYMMETRY Symmetry
INVARIANTS
    SingleUnresolved
    BoardMatchesRuns
    ClosedMeansNotSent
    DoneIsClosed
    DeliveredMatchesTask
    AuthorizedScopeHolds
    UpstreamHolds
PROPERTIES
    DoneIsFinal
    KeepsPromise
