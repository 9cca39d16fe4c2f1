SPECIFICATION Spec
CONSTANTS
  s1 = s1
  s2 = s2
  p1 = p1
  p2 = p2
  c1 = c1
  c2 = c2
  None = None
  Specs <- TwoSpecs
  Creds <- OneCred
  Certs <- TwoCerts
  UpSeesLabel = TRUE
  MaxEdits = 1
  MaxFaults = 0
  MaxOutside = 0
PROPERTY NothingMeansCurrent
CHECK_DEADLOCK FALSE
