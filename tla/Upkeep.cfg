CONSTANTS
  h = h
  s = s
  a = a
  b = b
  Compute <- MCCompute
  Storage <- MCStorage
  First = h
  Standby = s
  Archive = a
  Retiring = {a, h}
  MaxSnap = 6
  MaxBackup = 4
  MaxOps = 2
  MaxMishaps = 1
SPECIFICATION FairSpec
CONSTRAINT DrainedWithIdentities ChecksApart
CHECK_DEADLOCK FALSE
INVARIANT NewestArchiveKept ReadyIsOnDisk RetiredIsEmpty
 
