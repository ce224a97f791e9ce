\* Two updates of one service while one upload changes the releases. Nobody
\* owes the engine a third update, so the model may stop.
CONSTANTS
    v1 = v1
    v2 = v2
    c1 = c1
    c2 = c2
    None = None
    Damaged = Damaged
    Installed = Installed
    Version = {v1, v2}
    Commit = {c1, c2}
    Platform = {"linux-amd64", "windows-x86_64"}
    Name = {"deb", "zip"}
    Manifest <- Manifests
    ConfigFile <- Configs
    MaxNest = 1
    MaxPublish = 1
    MaxOperations = 2
    MaxFaults = 1
    MaxKills = 1
SPECIFICATION FairEngineSpec
CHECK_DEADLOCK FALSE
INVARIANTS
    EngineTypeOK
    VerifiedIsRequested
    TreesAreKept
    SuccessIsTheRelease
PROPERTIES
    UpdateEnds
