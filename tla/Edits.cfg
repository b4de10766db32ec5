SPECIFICATION FairSpec
CONSTANTS
    None = None
    Keep = Keep
    Names = {a}
    Clients = {c}
    Templates <- Periodic
    Patches <- Edits
    ApiOps = {"create", "update", "delete", "deleteResult", "stop"}
    MaxTime = 2
    MaxOps = 3
    MaxCrashes = 0
    MaxFailures = 2
    AsyncSettings = {TRUE, FALSE}
    DiskCanFill = FALSE
    HasCallback = FALSE
    Outcomes = {"success"}
INVARIANTS
    ResultsHaveEntries
PROPERTIES
    Recovers
    DueEntriesServed
    StopTakesEffect
