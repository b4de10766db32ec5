SPECIFICATION Spec
CONSTANTS
    None = None
    Keep = Keep
    Names = {a}
    Clients = {c}
    Templates <- Periodic
    Patches <- SwitchOff
    ApiOps = {"create", "update"}
    MaxTime = 2
    MaxOps = 2
    MaxCrashes = 0
    MaxFailures = 2
    AsyncSettings = {TRUE}
    DiskCanFill = FALSE
    HasCallback = FALSE
    Outcomes = {"success"}
PROPERTY
    OnlyRequestsActivate
