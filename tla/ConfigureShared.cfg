SPECIFICATION MCSpec
CONSTANTS
  mate = mate
  former = former
  NoName = NoName
  a1 = a1
  a2 = a2
  VPNs <- TwoVPNs
  Listed <- OneListed
  ActiveHere <- FirstActive
  Addrs <- MCAddrs
  Names <- MCNames
  MateName = mate
  MateAddrs <- MCMateAddrs
  QueueTracksRole = FALSE
  MaxRefusals = 0
  MaxFaults = 1
  MaxOrphans = 1
  MaxOutside = 1
INVARIANTS AppliedIsTrue PlanAccepted
PROPERTIES MatchingMateStopsNothing ComesUpInRole
CHECK_DEADLOCK FALSE
