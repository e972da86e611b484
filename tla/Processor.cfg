SPECIFICATION FairSpec
CONSTANTS
  ConfigData <- MCConfigData
  Blank = Blank
  None = None
  MaxErrorCount = 1
  MaxRequests = 3
  MaxRestarts = 2
  MaxBreaks = 2
INVARIANTS
  TypeOK
  StoredApplies
  ToldIsTrue
PROPERTIES
  PumpKept
  PumpSwitches
  Persisted
CHECK_DEADLOCK FALSE
