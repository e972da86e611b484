SPECIFICATION FairSpec
CONSTANTS
  Valve = {v1}
  UnitCount = 2
  TimeRange = 64
  Interval = 10
  ActiveInterval = 1
  AvailableFailureCount = 1
  ActiveRetryCount = 1
  MaxFailCount = 2
  UnitTimeout = 9
  MaxRequests = 2
  MaxFaults = 1
  BeginLimit = 9
  Subject = {1}
  Indeterminate = Indeterminate
  None = None
INVARIANTS
  TypeOK
  ReportedIsTrue
  Told
  NotForgotten
PROPERTIES
  ChangeSettles
  CommandKept
  ExpiresOnlyUnheard
CHECK_DEADLOCK FALSE
