SPECIFICATION HealthySpec
CONSTANTS
  east = east
  west = west
  r1 = r1
  r2 = r2
  r3 = r3
  Sites <- TheSites
  VPNs <- OneVPN
  Runs <- ThreeRuns
  Files <- AnyFile
  ViaCLI <- AllCLI
  Overlap = TRUE
  Lingering = TRUE
  MaxFaults = 1
  MaxOutside = 0
INVARIANT SplitBrainReported
CHECK_DEADLOCK FALSE
