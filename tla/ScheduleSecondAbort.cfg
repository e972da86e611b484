SPECIFICATION Spec
CONSTANTS
  Property = {p1}
  MessageId = {1, 2, 3, 4, 5, 6, 7}
  NoId = 0
  Worker = {w1, w2}
  Client = {c1}
  Reset = {}
  Schedules <- MCSchedules
  SetTimeLimit = 3
  AbortTimeLimit = 4
  ExpiredLimit = 0
  EvaluateDelay = 2
  ClearEntryDelay = 1
  BatchSize = 1
  MaxReceiveCount = 2
  MinDelay = 1
  MaxDelay = 4
  RetryDelay = 3
  VisibilityTimeout = 3
  LambdaTimeout = 1
  DeliveryLatency = 7
  MaxFailures = 0
  MaxTime = 14
SYMMETRY Interchangeable
INVARIANT AbortKeepsEvaluating
