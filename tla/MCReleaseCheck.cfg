\* A check at the start and one from the menu, two releases, lists of up to two
\* files. Users owe the application nothing and a server may never answer, so
\* the model may stop.
CONSTANTS
    Os <- TwoOs
    Cpu <- BothCpus
    Ext <- SomeExt
    OsWord <- SomeOsWords
    CpuWord <- BothCpuWords
    Lists <- FileLists
    Check = {k1, k2}
    Silent = {k1}
    Release <- Published
    Tag <- Tags
    NoCheck = NoCheck
    MaxReleases = 2
SPECIFICATION FairCheckSpec
CHECK_DEADLOCK FALSE
INVARIANTS
    CheckTypeOK
    ToldIsTrue
    OwnMachineWins
PROPERTIES
    NeverOlder
    AnswerIsTold
