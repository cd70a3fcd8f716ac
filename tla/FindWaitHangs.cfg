SPECIFICATION CliFairSpec
CONSTANTS
  Mode = {"smoke", "full"}
  MaxBreaks = 3
CHECK_DEADLOCK FALSE
PROPERTY WaitReturns
