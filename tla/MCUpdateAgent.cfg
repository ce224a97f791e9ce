\* Three operations on a service and on the agent's own unit; every write may
\* fail, two crashes.
CONSTANTS
    NoId = NoId
    NoProject = NoProject
    NoVersion = NoVersion
    CallerDetail <- EngineDetail
    Id = {o1, o2, o3}
    Project = {svc, own}
    Version = {v1}
    SaveMayFail = TRUE
    OwnService = {own}
    SelfProject = {}
    Healthy = {v1}
    MaxCrashes = 2
SYMMETRY Symmetry
SPECIFICATION AgentSpec
INVARIANTS
    AgentTypeOK
    HandoverIsClean
    EngineKeepsContract
    AcceptedIsDurable
    NobodyIsOrphan
    SuccessIsReal
