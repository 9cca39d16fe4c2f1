CONSTANTS
  backup = backup
  primary = primary
  none = none
  leaving = leaving
  RestartOrder <- InRestartOrder
  Primary = primary
  Custom <- Mounted
  None = none
  Leaving = leaving
  Identities <- Someone
  MaxCert = 2
  MaxCommands = 3
  MaxFaults = 1
  MaxGenerated = 2
  MaxOthers = 1
SPECIFICATION Spec
INVARIANT PasswordIsHeld
PROPERTIES CertServed NoRefusalHalfway RemovedIsGone NamespaceTakesNothingSeen
CHECK_DEADLOCK FALSE
