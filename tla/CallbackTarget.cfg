SPECIFICATION Spec
CONSTANTS
    None = None
    Keep = Keep
    Names = {a, b}
    Clients = {c}
    Templates <- OneShot
    Patches <- NoPatches
    ApiOps = {"create"}
    MaxTime = 2
    MaxOps = 2
    MaxCrashes = 0
    MaxFailures = 2
    AsyncSettings = {TRUE}
    DiskCanFill = FALSE
    HasCallback = TRUE
    Outcomes = {"success"}
PROPERTY
    CallbackGoesToOwnEntry
