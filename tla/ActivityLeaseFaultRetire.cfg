CONSTANTS
  n1 = n1
  n2 = n2
  o1 = o1
  o2 = o2
  Nodes = {n1, n2}
  FirstHome = n1
  Logins = {o1, o2}
  NoLogin = NoLogin
  Retiring = {n1}
  Statuses = {"page"}
  MaxFaults = 1
  MaxWorks = 1
  LeaseTTL = 1
  TicketTTL = 1
  ReportAge = 1
  MaxGen = 0
  MaxMsgs = 2
  MaxNow = 2
SYMMETRY LoginSymmetry
SPECIFICATION Spec
CHECK_DEADLOCK FALSE
INVARIANT SingleWriter
