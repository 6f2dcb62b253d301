CONSTANTS
  Archives = {1, 2, 3}
  Protocols = {TRUE, FALSE}
  Parts = 2
  RetryMax = 2
  Evidence = {TRUE, FALSE}
  MaxRun = 3
  MaxCall = 3
  MaxEpoch = 2
  MaxFaults = 1
SPECIFICATION RelayFairSpec
CHECK_DEADLOCK FALSE
INVARIANT StoredIsConsistent
PROPERTY SpoolDrains RelayEnds
CONSTRAINT ArchivesNamed WholeUploads
