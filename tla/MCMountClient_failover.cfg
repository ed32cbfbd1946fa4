SPECIFICATION FairSpec
CONSTANTS
  Node = {1, 2, 3}
  Boot = {1, 2, 3}
  Urls <- TwoUrls
  ReplicaFactor <- DifferentRF
  MountRF = 2
  Hash = {0}
  Op = {"create"}
  Bounds <- OneFault
PROPERTIES FailoverFollowed
CHECK_DEADLOCK FALSE
