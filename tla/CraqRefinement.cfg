SPECIFICATION WriteSpec
CONSTANTS
  R = 3
  Value = {v1, v2}
  Absent = Absent
  Transports = 2
  MaxChainVer = 2
  MaxWaiting = 1
  Orphans = FALSE
INVARIANTS TypeOK VersionsAgree
PROPERTIES ImplementsCommittedChunk
CHECK_DEADLOCK FALSE
