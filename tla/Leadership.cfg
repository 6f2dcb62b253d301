CONSTANTS
  a = a
  b = b
  standby = standby
  NoProc = NoProc
  Procs <- MCProcs
  Passive <- MCPassive
  Explicit = {}
  ResumeWindow = 0
  MaxNow = 1
SPECIFICATION LeadershipFairSpec
CHECK_DEADLOCK FALSE
INVARIANT NoSharedGeneration
INVARIANT NoResumeAfterUncleanStop
PROPERTY DeposedLeaderStops
PROPERTY PassiveTakesOver
