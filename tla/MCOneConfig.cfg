\* The targets of config/morfupdate.example.json, and nothing that fails by itself.
\* Nobody owes the engine another update, so the model may stop.
CONSTANTS
    v1 = v1
    v2 = v2
    c1 = c1
    c2 = c2
    None = None
    Damaged = Damaged
    Installed = Installed
    Version = {v1, v2}
    Commit = {c1, c2}
    Platform = {"linux-amd64", "windows-x86_64"}
    Name = {"deb", "zip"}
    Manifest <- Manifests
    ConfigFile <- OneConfig
    MaxNest = 1
    MaxPublish = 0
    MaxOperations = 1
    MaxFaults = 0
    MaxKills = 0
SPECIFICATION EngineSpec
CHECK_DEADLOCK FALSE
INVARIANT
    OneConfigWorks
