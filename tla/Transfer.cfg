SPECIFICATION Spec
CONSTANTS
    Workers = {w1, w2}
    w1 = w1
    w2 = w2
    NoWorker = NoWorker
    RetryMax = 2
    MaxCap = 3
    MaxGen = 2
    MaxWrites = 1
    MaxFaults = 1
SYMMETRY Symmetry
CONSTRAINT ThirdCapabilityAlone
INVARIANT ReceiptIsDisk
PROPERTY ImplementsReplica
CHECK_DEADLOCK FALSE
