SPECIFICATION FairSpec
CONSTANTS
    Ops = {a, b}
    RetryOps = {a}
    PageOps = {b}
    DrainOps = {a}
    Slots = 1
    CacheMax = 1
    FinishTries = 2
    MaxGen = 2
    MaxVersion = 2
    MaxIds = 2
    MaxNet = 1
    MaxCrashes = 1
    MaxModeChanges = 1
CONSTRAINT AloneOrShared
INVARIANT ExecutedOnce
INVARIANT ResultIsTheAgents
PROPERTY SettledForGood
