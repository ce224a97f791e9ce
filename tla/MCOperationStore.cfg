\* Two operations, every write may fail, any order of calls.
CONSTANTS
    Id = {o1, o2}
    NoId = NoId
    Project = {svc}
    NoProject = NoProject
    Version = {v1}
    NoVersion = NoVersion
    CallerDetail <- OneDetail
    SaveMayFail = TRUE
SYMMETRY Symmetry
SPECIFICATION StoreSpec
INVARIANTS
    StoreTypeOK
    ActiveIsTheLiveOne
    JournalHasOneLive
    JournalNotAhead
PROPERTY JournalSpec
