\* A self-update to a version that does not serve; nothing else goes wrong.
CONSTANTS
    NoId = NoId
    NoProject = NoProject
    NoVersion = NoVersion
    CallerDetail <- EngineDetail
    Id = {o1}
    Project = {own}
    Version = {v1, v2}
    SaveMayFail = FALSE
    OwnService = {own}
    SelfProject = {own}
    Healthy = {v1}
    MaxCrashes = 0
    SystemMayFail = FALSE
    Attempts = 2
    MaxReboots = 0
SPECIFICATION SelfSpec
INVARIANTS
    SuccessMeansHealthy
