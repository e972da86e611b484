SPECIFICATION FairSpec
CONSTANTS
  Property = {p1}
  MessageId = {1, 2, 3, 4, 5, 6, 7}
  NoId = 0
  Worker = {w1, w2}
  Client = {c1}
  Reset = {r1}
  Schedules <- MCSchedules
  SetTimeLimit = 2
  AbortTimeLimit = 3
  ExpiredLimit = 1
  EvaluateDelay = 1
  ClearEntryDelay = 1
  BatchSize = 1
  MaxReceiveCount = 2
  MinDelay = 1
  MaxDelay = 3
  RetryDelay = 2
  VisibilityTimeout = 2
  LambdaTimeout = 0
  DeliveryLatency = 0
  MaxFailures = 1
  MaxTime = 14
PROPERTIES
  ImplementsLifecycle
  AbortSettles
