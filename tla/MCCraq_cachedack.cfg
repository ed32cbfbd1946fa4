SPECIFICATION WriteSpec
CONSTANTS
  R = 2
  Value = {v1, v2}
  Absent = Absent
  Transports = 2
  MaxChainVer = 2
  MaxWaiting = 1
  Orphans = FALSE
PROPERTIES
  AckedPutStored
CHECK_DEADLOCK FALSE
