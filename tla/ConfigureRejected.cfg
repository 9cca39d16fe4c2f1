SPECIFICATION MCSpec
CONSTANTS
  mate = mate
  former = former
  NoName = NoName
  a1 = a1
  a2 = a2
  VPNs <- ThreeVPNs
  Listed <- TwoListed
  ActiveHere <- SecondActive
  Addrs <- MCAddrs
  Names <- MCNames
  MateName = mate
  MateAddrs <- MCMateAddrs
  QueueTracksRole = FALSE
  MaxRefusals = 1
  MaxFaults = 0
  MaxOrphans = 0
  MaxOutside = 0
PROPERTY RestIsShutDown
CHECK_DEADLOCK FALSE
