SPECIFICATION WatchedSpec
CONSTANTS
  east = east
  west = west
  r1 = r1
  r2 = r2
  r3 = r3
  Sites <- TheSites
  VPNs <- TwoVPNs
  Runs <- OneRun
  Files <- CrossedFile
  ViaCLI <- LocalCLI
  Overlap = FALSE
  Lingering = FALSE
  MaxFaults = 0
  MaxOutside = 1
PROPERTY RereadBeforeEachPromotion
CHECK_DEADLOCK FALSE
