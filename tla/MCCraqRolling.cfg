SPECIFICATION RSpec
CONSTANTS
  R = 2
  Value = {v1}
  Absent = Absent
  Transports = 1
  MaxChainVer = 1
  MaxWaiting = 1
  Orphans = FALSE
  MaxRestarts = 2
VIEW View
INVARIANTS SomeCopy
CHECK_DEADLOCK FALSE
