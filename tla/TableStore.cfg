SPECIFICATION Spec
CONSTANTS
  DeviceId <- MCDeviceId
  ConnectionId <- MCName
  Endpoint <- MCName
  ControllerId = {0}
  PropertyId <- MCPropertyId
  Second <- MCSecond
  Column = {con, sts}
  Value = {v1, v2}
  None = None
  MaxRows = 2
INVARIANTS
  TypeOK
  QueriesAgree
PROPERTY
  ImplementsDataStore
