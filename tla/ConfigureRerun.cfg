SPECIFICATION MCFairSpec
CONSTANTS
  mate = mate
  former = former
  NoName = NoName
  a1 = a1
  a2 = a2
  VPNs <- ThreeVPNs
  Listed <- TwoListed
  ActiveHere <- SecondActive
  Addrs <- MCAddrs
  Names <- MCNames
  MateName = mate
  MateAddrs <- MCMateAddrs
  QueueTracksRole = TRUE
  MaxRefusals = 1
  MaxFaults = 1
  MaxOrphans = 0
  MaxOutside = 0
PROPERTY RerunsSucceed
CHECK_DEADLOCK FALSE
