SPECIFICATION FairSpec
CONSTANTS
  Node = {1, 2, 3}
  Boot = {1, 2}
  Urls <- TwoUrls
  ReplicaFactor <- DifferentRF
  MountRF = 2
  Hash = {0, 5}
  Op = {"create", "unlink", "lookup"}
  Bounds <- MembershipOrCalls
INVARIANTS TypeOK RoutingAgrees AtMostOnce
PROPERTIES SuccessCommitted ReadAnswered ViewsConverge PinFollowsLeader
CHECK_DEADLOCK FALSE
