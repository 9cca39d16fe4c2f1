SPECIFICATION Spec
CONSTANTS
  east = east
  west = west
  r1 = r1
  r2 = r2
  r3 = r3
  Sites <- TheSites
  VPNs <- TwoVPNs
  Runs <- TwoRuns
  Files <- CrossedFile
  ViaCLI <- AllCLI
  Overlap = TRUE
  Lingering = TRUE
  MaxFaults = 3
  MaxOutside = 0
INVARIANT NeverTwoActives
PROPERTIES ImplementsRolePair PlacedStays
CHECK_DEADLOCK FALSE
