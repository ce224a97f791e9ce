\* A service installed from bundles, one kill; only cp fails.
CONSTANTS
    Tree = {t1, t2}
    Works = {t1, t2}
    Nothing = Nothing
    Partial = Partial
    Verbs <- BundleOnly
    Attempts = 4
    MaxFaults = 0
    MaxKills = 1
SPECIFICATION Spec
INVARIANTS
    OneTreeSurvives
