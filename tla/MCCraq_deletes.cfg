SPECIFICATION FairSpec
CONSTANTS
  R = 2
  Value = {v1}
  Absent = Absent
  Transports = 1
  MaxChainVer = 2
  MaxWaiting = 1
  Orphans = FALSE
PROPERTIES CommitMonotone  LockReleased
CHECK_DEADLOCK FALSE
