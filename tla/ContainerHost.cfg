SPECIFICATION Spec
CONSTANTS
  s1 = s1
  s2 = s2
  p1 = p1
  p2 = p2
  c1 = c1
  c2 = c2
  None = None
  Specs <- OneSpec
  Creds <- OneCred
  Certs <- TwoCerts
  UpSeesLabel = TRUE
  MaxEdits = 3
  MaxFaults = 2
  MaxOutside = 1
PROPERTIES NoUnapprovedBounce AppliedIsCurrent NothingToDoIsTrue TeardownStopsFirst RemovedIsGone
CHECK_DEADLOCK FALSE
