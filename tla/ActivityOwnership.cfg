SPECIFICATION Spec
CONSTANTS
    Nodes = {n1, n2, n3}
    n1 = n1
    n2 = n2
    n3 = n3
    Ops = {o1, o2}
    o1 = o1
    o2 = o2
    NoOp = NoOp
    MaxTerm = 1
    MaxSeq = 1
    MaxAttempts = 4
    MaxCrashes = 1
    MaxFailedSaves = 0
    JournalMayFill = TRUE
SYMMETRY Symmetry
CONSTRAINT LastMeetsOne
CHECK_DEADLOCK FALSE
INVARIANT OneWinnerPerRank
INVARIANT DecisionsSeeWinners
INVARIANT WinnersAreDurable
