\* Three versions, one of which does not work; mv, cp and dpkg fail as they
\* please, rm, systemctl and the mv of the rollback once, and the helper is
\* killed twice.
CONSTANTS
    Tree = {t1, t2, t3}
    Works = {t1, t2}
    Nothing = Nothing
    Partial = Partial
    Verbs <- AllVerbs
    Attempts = 4
    MaxFaults = 1
    MaxKills = 2
SPECIFICATION FairSpec
INVARIANTS
    HelperTypeOK
    NoStaleBackup
PROPERTIES
    PreviousIsKept
    RefusalRestores
    ExitZeroIsInstalled
    EveryCallEnds
