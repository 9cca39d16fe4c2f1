SPECIFICATION ServingSpec
CONSTANTS
  east = east
  west = west
  r1 = r1
  r2 = r2
  r3 = r3
  Sites <- TheSites
  VPNs <- TwoVPNs
  Runs <- TwoRuns
  Files <- TwoFiles
  ViaCLI <- LocalCLI
  Overlap = FALSE
  Lingering = FALSE
  MaxFaults = 1
  MaxOutside = 1
INVARIANT RerunConverges
PROPERTIES SuccessIsTrue VerifyCatches RunsEnd
CHECK_DEADLOCK FALSE
