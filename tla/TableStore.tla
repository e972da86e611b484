----------------------------- MODULE TableStore -----------------------------
(***************************************************************************)
(* The one DynamoDB table behind IrrigationDataStore: rows under binary    *)
(* keys, a partition key and a sort key, built from the identifiers of     *)
(* what they hold.  Devices of several kinds share partitions and are told *)
(* apart by prefixes of their keys.                                        *)
(***************************************************************************)
EXTENDS StoreRecords

CONSTANT MaxRows    \* bound: rows in the table

VARIABLE table      \* set of rows

------------------------------------------------------------------------------
(* Binary keys.                                                             *)

\* The bytes of a part of a key; a number is cut to the width it is given.
Bytes(type, value) ==
  CASE type = "uint8"    -> <<value % 256>>
    [] type = "uint16le" -> <<value % 256, (value \div 256) % 256>>
    [] type = "uint32be" ->
         LET high == (value \div 256) \div 256
         IN  <<(high \div 256) % 256, high % 256, (value \div 256) % 256, value % 256>>
    [] type = "utf8"     -> value \o <<0>>

\* Where a text that begins at an offset ends, which is 0 if it does not.
TextEnd(key, from) ==
  IF \E i \in from .. Len(key) : key[i] = 0
  THEN CHOOSE i \in from .. Len(key) :
         key[i] = 0 /\ \A j \in from .. i - 1 : key[j] # 0
  ELSE 0

\* Partition keys and sort keys.
StatePk == <<0, 1>>
DeviceSk(d) == <<0>> \o Bytes("utf8", d)
PropertySk_Narrow(d, c, p, desired) ==
  <<1>> \o Bytes("utf8", d) \o Bytes("uint8", c) \o Bytes("uint8", p)
    \o Bytes("uint8", IF desired THEN 1 ELSE 0)
PropertySk(d, c, p, desired) ==
  <<1>> \o Bytes("utf8", d) \o Bytes("uint8", c) \o Bytes("uint16le", p)
    \o Bytes("uint8", IF desired THEN 1 ELSE 0)
DeviceHistoryPk(d) == <<0, 2>> \o Bytes("utf8", d)
PropertyHistoryPk(d, c, p) ==
  <<0, 2>> \o Bytes("utf8", d) \o Bytes("uint8", c) \o Bytes("uint16le", p)
TimeSk(t) == Bytes("uint32be", t)
SchedulePk == <<0, 3>>
SavedPk == <<0, 4>>
ClientPk == <<0, 16>>
SubscriptionPk == <<0, 17>>
NameSk(name) == Bytes("utf8", name)

\* What is read from keys again, and whether it can be.
ParsesDevice(sk) == TextEnd(sk, 2) # 0
DeviceIn(sk) == SubSeq(sk, 2, TextEnd(sk, 2) - 1)
ParsesProperty(sk) ==
  ParsesDevice(sk) /\ sk[1] = 1 /\ Len(sk) >= TextEnd(sk, 2) + 4
ControllerIn(sk) == sk[TextEnd(sk, 2) + 1]
PropertyIn(sk) == sk[TextEnd(sk, 2) + 2] + 256 * sk[TextEnd(sk, 2) + 3]
DesiredIn(sk) == sk[TextEnd(sk, 2) + 4] = 1
ParsesTime(sk) == Len(sk) >= 4
TimeIn(sk) == 256 * (256 * (256 * sk[1] + sk[2]) + sk[3]) + sk[4]
ParsesName(sk) == TextEnd(sk, 1) # 0
NameIn(sk) == SubSeq(sk, 1, TextEnd(sk, 1) - 1)

------------------------------------------------------------------------------
(* The database: rows and conditions on keys.                               *)

At(pk, sk) == {r \in table : r.pk = pk /\ r.sk = sk}
Partition(pk) == {r \in table : r.pk = pk}

Put(pk, sk, exp, item) ==
  /\ table' = (table \ At(pk, sk)) \cup
                {[pk |-> pk, sk |-> sk, exp |-> exp, item |-> item]}
  /\ Cardinality(table') <= MaxRows

Delete(pk, sk) == table' = table \ At(pk, sk)

BeginsWith(key, prefix) ==
  Len(prefix) <= Len(key) /\ \A i \in 1 .. Len(prefix) : key[i] = prefix[i]

\* The order of keys, byte by byte from the left.
Below(a, b) ==
  \/ \E i \in 1 .. Len(a) :
       /\ i <= Len(b) /\ a[i] < b[i]
       /\ \A j \in 1 .. i - 1 : a[j] = b[j]
  \/ Len(a) < Len(b) /\ BeginsWith(b, a)
Between(sk, from, to) == ~Below(sk, from) /\ ~Below(to, sk)

------------------------------------------------------------------------------
(* Queries.                                                                 *)

\* getDeviceState, for all devices, of a type, or of a type and a device.
RowsOfType(type) ==
  {r \in Partition(StatePk) : BeginsWith(r.sk, Bytes("uint8", type))}
RowsOfDevice_Unterminated(type, d) ==
  {r \in Partition(StatePk) : BeginsWith(r.sk, Bytes("uint8", type) \o d)}
RowsOfDevice(type, d) ==
  {r \in Partition(StatePk) :
     BeginsWith(r.sk, Bytes("uint8", type) \o Bytes("utf8", d))}
DevicesOf(rows) ==
  {[deviceId |-> DeviceIn(r.sk), lastUpdated |-> r.item.upd,
    columns |-> r.item.columns] : r \in {x \in rows : x.sk[1] = 0}}
PropertiesOf(rows) ==
  {[deviceId |-> DeviceIn(r.sk), controllerId |-> ControllerIn(r.sk),
    propertyId |-> PropertyIn(r.sk), isDesiredValue |-> DesiredIn(r.sk),
    lastUpdated |-> r.item.upd, value |-> r.item.value] :
     r \in {x \in rows : x.sk[1] # 0}}

\* getPropertyHistory
HistoryRows(d, c, p, from, to) ==
  {r \in Partition(PropertyHistoryPk(d, c, p)) :
     Between(r.sk, TimeSk(from), TimeSk(to))}
HistoryOf(d, c, p, from, to) ==
  {[deviceId |-> d, controllerId |-> c, propertyId |-> p,
    time |-> TimeIn(r.sk), value |-> r.item.value] :
     r \in HistoryRows(d, c, p, from, to)}

\* listWebSocketClients, listPushNotificationSubscriptions
ListClients ==
  {[connectionId |-> NameIn(r.sk), deviceIds |-> r.item.value] :
     r \in Partition(ClientPk)}
SubscriptionsOf(rows) ==
  {[endpoint |-> NameIn(r.sk), subscription |-> r.item.value] : r \in rows}

\* getSchedule, getSavedSchedules
GetSchedule(d) ==
  [deviceId |-> d, columns |-> Known({r.item : r \in At(SchedulePk, NameSk(d))})]
GetSavedSchedules(d) ==
  LET rows == At(SavedPk, NameSk(d))
  IN  [deviceId |-> d,
       schedules |-> IF rows = {} THEN None
                     ELSE (CHOOSE r \in rows : TRUE).item.value]

------------------------------------------------------------------------------
(* Updates.                                                                 *)

Expires(rows) == \E r \in rows : r.exp

\* An update older than what is stored is skipped.
IsNews_Always(rows, t) == TRUE
IsNews(rows, t) == \A r \in rows : t >= r.item.upd

UpdateDeviceState(d, t, given) ==
  LET old == At(StatePk, DeviceSk(d))
  IN  /\ IsNews(old, t)
      /\ Put(StatePk, DeviceSk(d), Expires(old),
             [upd |-> t, columns |-> Merged(Known({r.item : r \in old}), given)])

UpdatePropertyState(d, c, p, desired, t, v) ==
  /\ IsNews(At(StatePk, PropertySk(d, c, p, desired)), t)
  /\ Put(StatePk, PropertySk(d, c, p, desired), FALSE, [upd |-> t, value |-> v])

\* "Only track updates to connected state in history": v is not undefined.
AddDeviceHistory(d, t, v) ==
  Put(DeviceHistoryPk(d), TimeSk(t), TRUE, [value |-> v])

AddPropertyHistory(d, c, p, t, v) ==
  Put(PropertyHistoryPk(d, c, p), TimeSk(t), TRUE, [value |-> v])

AddWebSocketClient(id, v) == Put(ClientPk, NameSk(id), TRUE, [value |-> v])

RemoveWebSocketClient(id) == Delete(ClientPk, NameSk(id))

AddPushNotificationSubscription(endpoint, v) ==
  Put(SubscriptionPk, NameSk(endpoint), FALSE, [value |-> v])

RemovePushNotificationSubscription(endpoint) ==
  Delete(SubscriptionPk, NameSk(endpoint))

UpdateSchedule(d, given) ==
  LET old == At(SchedulePk, NameSk(d))
  IN  Put(SchedulePk, NameSk(d), Expires(old),
          [columns |-> Merged(Known({r.item : r \in old}), given)])

SetSavedSchedules(d, v) ==
  Put(SavedPk, NameSk(d), Expires(At(SavedPk, NameSk(d))), [value |-> v])

\* The database removes rows whose time has come.
Expire == \E r \in table : r.exp /\ table' = table \ {r}

Init == table = {}

Next ==
  \/ \E d \in DeviceId, t \in Second, given \in Columns :
       UpdateDeviceState(d, t, given)
  \/ \E d \in DeviceId, c \in ControllerId, p \in PropertyId,
        desired \in BOOLEAN, t \in Second, v \in Value :
       UpdatePropertyState(d, c, p, desired, t, v)
  \/ \E d \in DeviceId, t \in Second, v \in Value : AddDeviceHistory(d, t, v)
  \/ \E d \in DeviceId, c \in ControllerId, p \in PropertyId,
        t \in Second, v \in Value :
       AddPropertyHistory(d, c, p, t, v)
  \/ \E id \in ConnectionId, v \in Value : AddWebSocketClient(id, v)
  \/ \E id \in ConnectionId : RemoveWebSocketClient(id)
  \/ \E endpoint \in Endpoint, v \in Value :
       AddPushNotificationSubscription(endpoint, v)
  \/ \E endpoint \in Endpoint : RemovePushNotificationSubscription(endpoint)
  \/ \E d \in DeviceId, given \in Columns : UpdateSchedule(d, given)
  \/ \E d \in DeviceId, v \in Value : SetSavedSchedules(d, v)
  \/ Expire

Spec == Init /\ [][Next]_table

------------------------------------------------------------------------------
(* Properties.                                                              *)

Devices == DevicesOf(Partition(StatePk))
Properties == PropertiesOf(Partition(StatePk))
History ==
  UNION {HistoryOf(d, c, p, 0, MaxTime) :
           d \in DeviceId, c \in ControllerId, p \in PropertyId}
Subscriptions == SubscriptionsOf(Partition(SubscriptionPk))

\* No query ever fails on a key ("Invalid sk"), and what queries return speaks
\* of devices, properties, clients... that were stored.
EveryKeyParses ==
  \A r \in table :
    /\ r.pk = StatePk =>
         ParsesDevice(r.sk) /\ (r.sk[1] # 0 => ParsesProperty(r.sk))
    /\ r.pk \in {ClientPk, SubscriptionPk} => ParsesName(r.sk)
    /\ \A d \in DeviceId, c \in ControllerId, p \in PropertyId :
         r.pk = PropertyHistoryPk(d, c, p) => ParsesTime(r.sk)
TypeOK ==
  /\ IsFiniteSet(table)
  /\ \A r, s \in table : r.pk = s.pk /\ r.sk = s.sk => r = s
  /\ EveryKeyParses
  /\ Devices \subseteq Device /\ Properties \subseteq Property
  /\ History \subseteq Past
  /\ ListClients \subseteq Client /\ Subscriptions \subseteq Subscription

\* A query by a prefix of keys returns the records of that type and device, all
\* of them and no other's, also when one identifier begins with another.
PrefixesAgree ==
  \A d \in DeviceId :
    /\ DevicesOf(RowsOfType(0)) = Devices /\ PropertiesOf(RowsOfType(0)) = {}
    /\ PropertiesOf(RowsOfType(1)) = Properties /\ DevicesOf(RowsOfType(1)) = {}
    /\ DevicesOf(RowsOfDevice(0, d)) = {x \in Devices : x.deviceId = d}
    /\ PropertiesOf(RowsOfDevice(1, d)) = {x \in Properties : x.deviceId = d}
    /\ \A e \in Endpoint :
         SubscriptionsOf(At(SubscriptionPk, NameSk(e)))
           = {x \in Subscriptions : x.endpoint = e}

\* The history of a property between two times is what was recorded between
\* them, and its rows are in the order of time, which is that of their keys.
HistoryInRange ==
  \A d \in DeviceId, c \in ControllerId, p \in PropertyId,
     from \in Second, to \in Second :
    /\ HistoryOf(d, c, p, from, to) =
         {x \in History : /\ x.deviceId = d /\ x.controllerId = c
                          /\ x.propertyId = p
                          /\ from <= x.time /\ x.time <= to}
    /\ \A r, s \in HistoryRows(d, c, p, from, to) :
         Below(r.sk, s.sk) <=> TimeIn(r.sk) < TimeIn(s.sk)

\* Queries by prefix and by range are exact, whatever bytes identifiers and
\* numbers have.
QueriesAgree == PrefixesAgree /\ HistoryInRange

\* What the queries return changes as the records of DataStore do: an update
\* changes the record it is about, by its columns and unless something newer
\* is known, and no other record of any kind.
Records == INSTANCE DataStore WITH
  devices <- Devices, properties <- Properties, history <- History,
  clients <- ListClients, subscriptions <- Subscriptions,
  schedules <- {GetSchedule(d) : d \in DeviceId},
  saved <- {GetSavedSchedules(d) : d \in DeviceId}
ImplementsDataStore == Records!Spec

==============================================================================
