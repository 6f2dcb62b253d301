CONSTANTS
    Computes = {a, b}
    Archives = {s}
    Home = a
    Reported = {b}
    Draining = {}
    Paths = {p}
    Versions = {v1, v2}
    None = none
    MaxWorkers = 2
    Contents <- Few
    MaxMishaps = 1
    MaxCap = 6
    MaxRestarts = 1
    MaxAttempts = 2
    MaxTries = 1
    a = a
    b = b
    s = s
    p = p
    v1 = v1
    v2 = v2
    none = none
SPECIFICATION FairSpec
CONSTRAINT MishapsKeepAll
INVARIANTS ChoicesAgree NothingLost
PROPERTIES LiveHomeKept ResolutionEnds
CHECK_DEADLOCK FALSE
