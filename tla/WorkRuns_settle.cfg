SPECIFICATION PlannedFairSpec
CONSTANTS
    Tasks = {t1}
    Instances = {i1, i2}
    Users = {owner}
    Owner = owner
    PlanStatuses = {"todo"}
    CallLimit = 1
    MaxRuns = 2
    MaxMessages = 1
    NoTask = NoTask
    NoInstance = NoInstance
    NoRun = NoRun
    NoContext = NoContext
INVARIANT CallsWithinBudget
PROPERTIES
    RunsSettle
