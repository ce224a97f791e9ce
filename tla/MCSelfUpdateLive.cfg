\* Two operations on a service and on the agent itself, a target version that
\* never serves, two crashes; writes, systemctl and the dpkg of the rollback
\* succeed and the machine stays up.
CONSTANTS
    NoId = NoId
    NoProject = NoProject
    NoVersion = NoVersion
    CallerDetail <- EngineDetail
    Id = {o1, o2}
    Project = {svc, own}
    Version = {v1, v2}
    SaveMayFail = FALSE
    OwnService = {own}
    SelfProject = {own}
    Healthy = {v1}
    MaxCrashes = 2
    SystemMayFail = FALSE
    Attempts = 2
    MaxReboots = 0
SPECIFICATION FairSelfSpec
INVARIANTS
    DelegationIsWatched
    VerdictIsStable
PROPERTIES
    AgentComesBack
    EveryOperationEnds
