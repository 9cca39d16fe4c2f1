SPECIFICATION FairSpec
CONSTANTS
  Runs <- TwoRuns
  Attempts = 2
  MaxFaults = 1
  MaxOutside = 1
PROPERTIES SuccessMeansFailover SuccessIsHome RevertFindsPrimaryReady RunsEnd
CHECK_DEADLOCK FALSE
