\* A self-update and another operation; writes, systemctl and dpkg may fail. With
\* SystemMayFail every systemctl call of an applier can fail, and the agent then
\* stays down for good: such a machine has no next step.
CHECK_DEADLOCK FALSE
CONSTANTS
    NoId = NoId
    NoProject = NoProject
    NoVersion = NoVersion
    CallerDetail <- EngineDetail
    Id = {o1, o2}
    Project = {own}
    Version = {v1, v2}
    SaveMayFail = TRUE
    OwnService = {own}
    SelfProject = {own}
    Healthy = {v1, v2}
    MaxCrashes = 1
    SystemMayFail = TRUE
    Attempts = 2
    MaxReboots = 1
SYMMETRY Symmetry
SPECIFICATION SelfSpec
INVARIANTS
    SelfTypeOK
    ApplierHasWayBack
PROPERTIES
    VerdictNamesTheRunningVersion
    ServesFree
