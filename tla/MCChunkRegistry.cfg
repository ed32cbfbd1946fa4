SPECIFICATION MCFairSpec
CONSTANTS
  Node = {head, tail}
  HEAD = head
  MaxPuts = 2
  MaxDeletes = 1
  MaxFaults = 2
  MaxChainVer = 2
  Part = {"registry", "path"}
  Request = {"a", "b", "d"}
  Slots = 1
  Server = {1, 2, 3}
  Route <- Routes
  Options <- Writes
  MaxFailures = 1
INVARIANTS TypesOK UnindexedHasJob SlotsHeld HealthyPutsSucceed OkEverywhere
PROPERTIES AckedIndexed OrphansCollected EveryPutEnds
CHECK_DEADLOCK FALSE
