\* One check, one release, lists of up to two files. Users owe the application
\* nothing and a server may never answer, so the model may stop.
CONSTANTS
    Os <- TwoOs
    Cpu <- BothCpus
    Ext <- SomeExt
    OsWord <- SomeOsWords
    CpuWord <- BothCpuWords
    Lists <- FileLists
    Check = {k1}
    Silent = {k1}
    Release <- Published
    Tag <- Tags
    NoCheck = NoCheck
    MaxReleases = 1
SPECIFICATION CheckSpec
CHECK_DEADLOCK FALSE
INVARIANT
    NeverForeign
