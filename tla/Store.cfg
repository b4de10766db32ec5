SPECIFICATION Spec
CONSTANTS
    None = None
    Recordings = 2
    Limit = 1
    MaxTasks = 2
    MaxDeletes = 2
    MaxCrashes = 1
    MayFailEarly = TRUE
    HasCallback = TRUE
INVARIANTS
    TypeOK
    FlagsTrue
    RowsHaveFiles
    FilesHaveRows
    DiskLimitedWhenFull
