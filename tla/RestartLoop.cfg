SPECIFICATION FairSpec
CONSTANTS
    HealthInterval = 6
    PollInterval = 5
    RestartTimes = {0, 10}
    WorkerTimeout = 30
    Sleep = 60
    ImportTime = 1
    InitTimes = {9}
    MaxRefusals = 0
    MaxTroubles = 1
    MayDie = TRUE
PROPERTY
    DeathHeals
