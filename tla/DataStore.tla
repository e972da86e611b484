------------------------------ MODULE DataStore ------------------------------
(***************************************************************************)
(* What the cloud's data store promises to its callers, without keys and   *)
(* rows: a record of each device, property, client..., replaced as a whole *)
(* or column by column, where the time of the record allows it; and no     *)
(* record is ever touched by what is done to another.                      *)
(***************************************************************************)
EXTENDS StoreRecords

VARIABLES
  devices, properties, history, clients, subscriptions, schedules, saved

vars == <<devices, properties, history, clients, subscriptions, schedules, saved>>

Init ==
  /\ devices = {} /\ properties = {} /\ history = {}
  /\ clients = {} /\ subscriptions = {}
  /\ schedules = {[deviceId |-> d, columns |-> Nothing] : d \in DeviceId}
  /\ saved = {[deviceId |-> d, schedules |-> None] : d \in DeviceId}

\* A device is told of, unless something newer is known of it.
UpdateDevice(d, t, given) ==
  LET old == {x \in devices : x.deviceId = d}
  IN  /\ \A x \in old : x.lastUpdated <= t
      /\ devices' = (devices \ old) \cup
           {[deviceId |-> d, lastUpdated |-> t,
             columns |-> Merged(Known(old), given)]}
      /\ UNCHANGED <<properties, history, clients, subscriptions, schedules, saved>>

\* A property is told of, likewise.
UpdateProperty(new) ==
  LET old == {x \in properties : /\ x.deviceId = new.deviceId
                                 /\ x.controllerId = new.controllerId
                                 /\ x.propertyId = new.propertyId
                                 /\ x.isDesiredValue = new.isDesiredValue}
  IN  /\ \A x \in old : x.lastUpdated <= new.lastUpdated
      /\ properties' = (properties \ old) \cup {new}
      /\ UNCHANGED <<devices, history, clients, subscriptions, schedules, saved>>

\* The history has one value of a property for each second.
AddHistory(new) ==
  LET old == {x \in history : /\ x.deviceId = new.deviceId
                              /\ x.controllerId = new.controllerId
                              /\ x.propertyId = new.propertyId
                              /\ x.time = new.time}
  IN  /\ history' = (history \ old) \cup {new}
      /\ UNCHANGED <<devices, properties, clients, subscriptions, schedules, saved>>

AddClient(new) ==
  /\ clients' = {x \in clients : x.connectionId # new.connectionId} \cup {new}
  /\ UNCHANGED <<devices, properties, history, subscriptions, schedules, saved>>

RemoveClient(id) ==
  /\ clients' = {x \in clients : x.connectionId # id}
  /\ UNCHANGED <<devices, properties, history, subscriptions, schedules, saved>>

Subscribe(new) ==
  /\ subscriptions' = {x \in subscriptions : x.endpoint # new.endpoint} \cup {new}
  /\ UNCHANGED <<devices, properties, history, clients, schedules, saved>>

Unsubscribe(endpoint) ==
  /\ subscriptions' = {x \in subscriptions : x.endpoint # endpoint}
  /\ UNCHANGED <<devices, properties, history, clients, schedules, saved>>

UpdateSchedule(d, given) ==
  LET old == {x \in schedules : x.deviceId = d}
  IN  /\ schedules' = (schedules \ old) \cup
           {[deviceId |-> d, columns |-> Merged(Known(old), given)]}
      /\ UNCHANGED <<devices, properties, history, clients, subscriptions, saved>>

SetSaved(new) ==
  /\ saved' = {x \in saved : x.deviceId # new.deviceId} \cup {new}
  /\ UNCHANGED <<devices, properties, history, clients, subscriptions, schedules>>

\* Only the history and the clients expire.
Expire ==
  /\ \/ /\ \E x \in history : history' = history \ {x}
        /\ UNCHANGED clients
     \/ /\ \E x \in clients : clients' = clients \ {x}
        /\ UNCHANGED history
  /\ UNCHANGED <<devices, properties, subscriptions, schedules, saved>>

Next ==
  \/ \E d \in DeviceId, t \in Second, given \in Columns : UpdateDevice(d, t, given)
  \/ \E new \in Property : UpdateProperty(new)
  \/ \E new \in Past : AddHistory(new)
  \/ \E new \in Client : AddClient(new)
  \/ \E id \in ConnectionId : RemoveClient(id)
  \/ \E new \in Subscription : Subscribe(new)
  \/ \E endpoint \in Endpoint : Unsubscribe(endpoint)
  \/ \E d \in DeviceId, given \in Columns : UpdateSchedule(d, given)
  \/ \E d \in DeviceId, v \in Value :
       SetSaved([deviceId |-> d, schedules |-> v])
  \/ Expire

Spec == Init /\ [][Next]_vars

==============================================================================
