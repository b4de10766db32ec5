SPECIFICATION Spec
CONSTANTS
    None = None
    Keep = Keep
    Names = {a}
    Clients = {c}
    Templates <- MixedTemplates
    Patches <- NoPatches
    ApiOps = {"create", "deleteResult"}
    MaxTime = 3
    MaxOps = 4
    MaxCrashes = 2
    MaxFailures = 2
    AsyncSettings = {TRUE, FALSE}
    DiskCanFill = TRUE
    HasCallback = TRUE
    Outcomes = {"success", "failure"}
INVARIANTS
    TypeOK
    TaskTimesAdvance
    RunsOnGrid
    IdsAhead
PROPERTIES
    DiesOnlyOfVanishedRows
    OutcomeIsFinal
    ImplementsSchedule
    NoneForgotten
