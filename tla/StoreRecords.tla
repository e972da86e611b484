---------------------------- MODULE StoreRecords ----------------------------
(* The records that the cloud's data store takes and returns.              *)
EXTENDS Integers, Sequences, FiniteSets

CONSTANTS
  DeviceId, ConnectionId, Endpoint,   \* texts, as their UTF-8 bytes
  ControllerId, PropertyId,
  Second,      \* times in seconds
  Column,      \* what a device or a schedule has: connected, status, entries...
  Value,       \* what a column, a property or a record can hold
  None         \* undefined

\* No text holds a NUL, and numbers fit the width they have in keys: identifiers
\* come from messages in that width, and seconds are cut to 32 bits with a sign
\* ("| 0"), which lasts until the year 2038.
MaxUint16 == 65535
MaxTime == 2147483647
ASSUME StoreAssumption ==
  /\ DeviceId \cup ConnectionId \cup Endpoint \subseteq Seq(1 .. 255)
  /\ ControllerId \subseteq 0 .. 255
  /\ PropertyId \subseteq 0 .. MaxUint16
  /\ Second \subseteq 0 .. MaxTime
  /\ None \notin Value

Columns == [Column -> Value \cup {None}]

Device == [deviceId : DeviceId, lastUpdated : Second, columns : Columns]
Property ==
  [deviceId : DeviceId, controllerId : ControllerId, propertyId : PropertyId,
   isDesiredValue : BOOLEAN, lastUpdated : Second, value : Value]
Past ==
  [deviceId : DeviceId, controllerId : ControllerId, propertyId : PropertyId,
   time : Second, value : Value]
Client == [connectionId : ConnectionId, deviceIds : Value]
Subscription == [endpoint : Endpoint, subscription : Value]
Schedule == [deviceId : DeviceId, columns : Columns]
SavedSchedules == [deviceId : DeviceId, schedules : Value \cup {None}]

\* "Only specified attributes are updated."
Merged(known, given) ==
  [c \in Column |-> IF given[c] = None THEN known[c] ELSE given[c]]

Nothing == [c \in Column |-> None]

\* The columns of the one record there is in a set, if there is one.
Known(records) ==
  IF records = {} THEN Nothing ELSE (CHOOSE x \in records : TRUE).columns

=============================================================================
