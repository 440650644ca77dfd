SPECIFICATION Spec
CONSTANTS
  p1 = p1
  p2 = p2
  p3 = p3
  p4 = p4
  p5 = p5
  Procs = {p1, p2, p3, p4, p5}
  Program <- MCMixed
  NumRecords = 1
  BusyErrno = "EACCES"
  MAXTRIES = 1
  MaxRaises = 1
INVARIANT NoLostUpdate
INVARIANT TotalConsistent
INVARIANT UpgradeKeepsRecord
PROPERTY OnlyMutualUpgradesFail
CHECK_DEADLOCK FALSE
