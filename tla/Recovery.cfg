SPECIFICATION RecoveryFairSpec
CONSTANTS
  Computes = {a, b}
  Storage = s
  First = a
  Nobody = nobody
  MaxWrites = 1
  MaxLogins = 2
  MaxMishaps = 1
  MaxFaults = 1
  MaxRestores = 2
  MaxBackups = 1
  RetryMax = 2
INVARIANTS WriterAtHome GateMatchesFault
PROPERTIES RestoreLandsAsAcknowledged FaultSettles RestoreEnds
CHECK_DEADLOCK FALSE
