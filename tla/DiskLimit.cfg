SPECIFICATION Spec
CONSTANTS
    None = None
    Recordings = 1
    Limit = 1
    MaxTasks = 4
    MaxDeletes = 0
    MaxCrashes = 0
    MayFailEarly = TRUE
    HasCallback = TRUE
INVARIANTS
    DiskLimited
