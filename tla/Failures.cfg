SPECIFICATION FairSpec
CONSTANTS
    None = None
    Keep = Keep
    Names = {a, b}
    Clients = {c}
    Templates <- TwoPriorities
    Patches <- NoPatches
    ApiOps = {"create"}
    MaxTime = 3
    MaxOps = 2
    MaxCrashes = 0
    MaxFailures = 2
    AsyncSettings = {TRUE, FALSE}
    DiskCanFill = FALSE
    HasCallback = TRUE
    Outcomes = {"success", "failure"}
INVARIANTS
    StoppedIsUnhealthy
PROPERTIES
    QueuedTasksRun
    ResultsSettle
    FailuresRestart
