SPECIFICATION Spec
CONSTANTS
  Runs <- OneRun
  Attempts = 2
  MaxFaults = 1
  MaxOutside = 0
PROPERTY RerunIsNotRefused
CHECK_DEADLOCK FALSE
