SPECIFICATION FairSpec
CONSTANTS
    Peers = {p1, p2}
    p1 = p1
    p2 = p2
    UnreachableAfter = 1
    IndependentAfter = 2
    MinFailures = 2
    CompletionAttempts = 2
    SnapshotAttempts = 2
    MaxWrites = 2
    MaxLogins = 2
    MaxFailures = 7
    MaxAdapterOutages = 2
    MaxWorkFailures = 1
    MaxPromotions = 1
    HomeMayMove = TRUE
CONSTRAINT WritesOrMishaps
INVARIANT NoWriteForgotten
INVARIANT GenerationNamesMode
PROPERTY ReturnsDrained
PROPERTY NodeReturns
