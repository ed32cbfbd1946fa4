SPECIFICATION FairSpec
CONSTANTS
  n0 = n0
  n1 = n1
  Node = {n0, n1}
  Boot = n0
  Movable = {n1}
  MaxAddr = 2
  MaxLosses = 1
  MaxRemoves = 1
INVARIANTS TypeOK RegisteredAreVoters JoinedAreMembers
 
CHECK_DEADLOCK FALSE
