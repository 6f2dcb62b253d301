SPECIFICATION FairSpec
CONSTANTS
    Nodes = {n1, n2}
    n1 = n1
    n2 = n2
    First = n1
    MaxGen = 2
    MaxVersion = 2
    MaxLosses = 1
    MaxExpiries = 1
    MaxModeChanges = 1
    MaxOutages = 1
CONSTRAINT OneFaultOneRenewal
INVARIANT NothingRunsAhead
INVARIANT NotLockedOut
PROPERTY NodesReturn
PROPERTY GateReopens
