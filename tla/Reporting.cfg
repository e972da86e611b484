SPECIFICATION FairSpec
CONSTANTS
  EventCapacity = 4
  BatchCapacity = 4
  QueueCapacity = 2
  None = None
  MaxTime = 1
  Scenarios <- MCScenarios
  MaxReports = 2
INVARIANTS
  TypeOK
  ValueSettles
  DeviceSettles
  ViewFollows
PROPERTIES
  AlwaysSettles
CHECK_DEADLOCK FALSE
