SPECIFICATION RSpec
CONSTANTS
  R = 3
  Value = {v1, v2}
  Absent = Absent
  Transports = 1
  MaxChainVer = 2
  MaxWaiting = 1
  Orphans = TRUE
SYMMETRY Symmetry
INVARIANTS CommitOrder AckedEverywhere
 
CHECK_DEADLOCK FALSE
