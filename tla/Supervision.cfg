SPECIFICATION FairSpec
CONSTANTS
    HealthInterval = 6
    PollInterval = 5
    RestartTimes = {0, 10}
    WorkerTimeout = 30
    Sleep = 60
    ImportTime = 1
    InitTimes = {1, 9}
    MaxRefusals = 2
    MaxTroubles = 3
    MayDie = TRUE
INVARIANT
    TypeOK
PROPERTIES
    RestartedInSleep
    RestartsHaveCause
    FilesRestart
    ServesInTheEnd
