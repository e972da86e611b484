------------------------------ MODULE Reporting -------------------------------
(***************************************************************************)
(* How the state of a device gets to the people who watch it: the device's *)
(* event buffer and publisher, its queue of incoming messages, the broker, *)
(* the concurrent invocations of handleDeviceMessage with their writes to  *)
(* the store, the pushes to websocket clients, and a client that           *)
(* subscribes.                                                             *)
(*                                                                         *)
(* One property and the status of one device stand for all (module         *)
(* Processor has the device in detail).  A report has the time of the      *)
(* broker in seconds, and its number `n` in the order of publication, which*)
(* the code does not have.  No query of the store asks for a consistent    *)
(* read: each may be answered by a replica that is behind.                 *)
(***************************************************************************)
EXTENDS Integers, FiniteSets, Sequences, SequencesExt

CONSTANTS
  EventCapacity,   \* EVENT_BUFFER_CAPACITY
  BatchCapacity,   \* MAX_EVENT_BATCH_SIZE
  QueueCapacity,   \* MESSAGE_QUEUE_SIZE
  None,
  MaxTime,         \* bound: the last second
  Scenarios,       \* bound: how often each of the incidents may happen
  MaxReports       \* bound: reports that are not handled yet

Status == {"Unconfigured", "Initializing", "Ready"}

ASSUME ReportingAssumption ==
  /\ {EventCapacity, BatchCapacity, QueueCapacity} \subseteq Nat \ {0, 1}
  /\ MaxTime \in Nat /\ MaxReports \in Nat
  /\ Scenarios \subseteq
       [{"change", "restart", "failure", "disconnection", "visit", "stale"} -> Nat]
  /\ None \notin BOOLEAN /\ None \notin Status

\* What is known of a device: the value of its property in one row of the
\* store, its status and whether it is connected in another.
Attribute == {"value", "status", "connected"}
Row == {"property", "device"}
Columns(row) == IF row = "property" THEN {"value"} ELSE {"status", "connected"}
Nothing == [a \in Attribute |-> None]

VARIABLES
  \* The device, in RAM but for `online`:
  on, status,
  events,     \* EventBuffer
  batch,      \* EventPublisher.publishBuffer
  inbound,    \* MqttClient.messageQueue
  handled,    \* how many of them the loop has handled
  online,     \* connected to the broker
  \* The broker:
  now,        \* its clock
  requests,   \* for the device, kept by its persistent session
  reports,    \* published, not yet handled
  \* The cloud:
  running,    \* invocations of handleDeviceMessage
  store,      \* each attribute
  updated,    \* lastUpdated of each row
  replica,    \* an earlier version of the rows, which a query may still return
  \* The client:
  subscribed,
  asking,     \* has subscribed and not been answered
  pushes,     \* under way to the client
  view,
  left,       \* the incidents that may still happen
  \* Observations:
  sent,       \* number of reports so far
  by, newest, \* the report each attribute is from, or was confirmed by, and
              \* the newest handled
  overtaken,  \* attributes an older report, or value read, prevailed for
  lost,       \* attributes a report of which was lost, "view" for an update that
              \* the client was not told of
  seen,       \* the newest report shown to the client
  back        \* attributes shown from an older report than one shown before

deviceVars == <<on, status, events, batch, inbound, handled, online>>
brokerVars == <<now, requests, reports, sent>>
cloudVars == <<running, store, updated, replica, by, newest, overtaken>>
clientVars == <<subscribed, asking, pushes, view, seen, back>>
vars == <<deviceVars, brokerVars, cloudVars, clientVars, left, lost>>

Happens(incident) == left[incident] > 0 /\ left' = [left EXCEPT ![incident] = @ - 1]

\* A step that may fail, as often as the model lets it.
Succeeds == UNCHANGED <<left, lost>>
FailsAs(attributes) == Happens("failure") /\ lost' = lost \cup attributes

------------------------------------------------------------------------------
(* The device: events *)

ValueChanged(b) == [Nothing EXCEPT !["value"] = b]
StatusIs(s) == [Nothing EXCEPT !["status"] = s]

\* Where a queue of events tells of an attribute.
Telling(queue, a) == {k \in DOMAIN queue : queue[k][a] # None}

\* Events with a payload take more of the buffers than those without.
Size(queue) == Len(queue) + Cardinality(Telling(queue, "value"))

\* Mutant: the payload is not counted.
Fits_Header(queue, e, capacity) == Len(Append(queue, e)) <= capacity

Fits(queue, e, capacity) == Size(Append(queue, e)) <= capacity

\* handleEvent: without room the event is dropped.
Buffered(queue, e) ==
  IF Fits(queue, e, EventCapacity) THEN Append(queue, e) ELSE queue

\* What is not told when an event is dropped; a Ready event asks for a refresh.
About(e) == IF e["value"] # None THEN {"value"} ELSE {"value", "status"}

Raise(e) ==
  /\ events' = Buffered(events, e)
  /\ lost' = IF events' = events THEN lost \cup About(e) ELSE lost

\* The loop is not in the middle of the queue of incoming messages.
Free == handled = 0

\* Controllers: a property changes; nothing is told of an unchanged one.
Change(b) ==
  /\ on' = b
  /\ IF b # on THEN Raise(ValueChanged(b)) ELSE UNCHANGED <<events, lost>>

ValueChanges ==
  /\ Free /\ status = "Ready" /\ Happens("change")
  /\ Change(~on)
  /\ UNCHANGED <<status, batch, inbound, handled, online, brokerVars, cloudVars,
                 clientVars>>

SetStatus(s) ==
  /\ status' = s
  /\ Raise(StatusIs(s))
  /\ UNCHANGED <<on, batch, inbound, handled, online, brokerVars, cloudVars,
                 clientVars>>

\* Controllers::configStart for a new configuration, configEnd, and loop once
\* the controllers have begun.
ConfigStart ==
  Free /\ status # "Unconfigured" /\ Happens("restart") /\ SetStatus("Unconfigured")
ConfigEnd ==
  Free /\ status = "Unconfigured" /\ SetStatus("Initializing") /\ UNCHANGED left
BeginControllers ==
  Free /\ status = "Initializing" /\ SetStatus("Ready") /\ UNCHANGED left

------------------------------------------------------------------------------
(* The device: messages *)

\* A report as the broker passes it on.
Report(type, sets, ready) ==
  [n |-> sent + 1, time |-> now, type |-> type, sets |-> sets, ready |-> ready]

Publish(report) ==
  /\ Cardinality(reports) + Cardinality(running) < MaxReports
  /\ sent' = sent + 1 /\ reports' = reports \cup {report}

\* Whether EventPublisher::loop moves the first k events to its buffer: those
\* that fit.
Moves(k) ==
  /\ Size(batch \o SubSeq(events, 1, k)) <= BatchCapacity
  /\ k < Len(events) =>
       ~Fits(batch \o SubSeq(events, 1, k), events[k + 1], BatchCapacity)

\* Mutant: the first of several events counts.
Said_First(queue) ==
  [a \in Attribute |-> IF Telling(queue, a) = {} THEN None
                       ELSE queue[Min(Telling(queue, a))][a]]

\* What a batch says: of several events, the last one counts.
Said(queue) ==
  [a \in Attribute |-> IF Telling(queue, a) = {} THEN None
                       ELSE queue[Max(Telling(queue, a))][a]]

\* Mutant: a batch is published when there are new events.
Unpublished_New == events # <<>>

\* batchSize > 0, after the events have been moved.
Unpublished == events # <<>> \/ batch # <<>>

\* EventPublisher::loop: what is not published is kept for the next time.  A
\* publish that fails may have got through nevertheless, so that the events are
\* repeated.
PublishEvents ==
  /\ Free /\ online /\ Unpublished
  /\ \E k \in 0 .. Len(events) :
       LET all == batch \o SubSeq(events, 1, k)
           report == Report("event", Said(all), Contains(all, StatusIs("Ready")))
       IN  /\ Moves(k)
           /\ events' = SubSeq(events, k + 1, Len(events))
           /\ \/ batch' = <<>> /\ Publish(report) /\ Succeeds
              \/ /\ batch' = all /\ FailsAs({})
                 /\ Publish(report) \/ UNCHANGED <<sent, reports>>
  /\ UNCHANGED <<on, status, inbound, handled, online, now, requests, cloudVars,
                 clientVars>>

\* queueMessage, also while the loop waits for an acknowledgement: a message
\* there is no room for is lost, although the broker thinks it was received.
Receive ==
  /\ online /\ requests # <<>>
  /\ requests' = Tail(requests)
  /\ IF Len(inbound) < QueueCapacity
       THEN inbound' = Append(inbound, Head(requests)) /\ UNCHANGED lost
       ELSE /\ inbound' = inbound
            /\ lost' = IF Head(requests) = "getProperties"
                         THEN lost \cup {"value"} ELSE lost
  /\ UNCHANGED <<on, status, events, batch, handled, online, now, reports, sent,
                 cloudVars, clientVars, left>>

\* A refresh tells what older events did not, unless there are some to come.
Refreshed == IF events = <<>> /\ batch = <<>> THEN lost \ {"value"} ELSE lost

\* An answer that is not published: there is no second attempt.
Unsent(attributes) ==
  /\ UNCHANGED <<sent, reports>>
  /\ IF online THEN FailsAs(attributes)
               ELSE lost' = lost \cup attributes /\ UNCHANGED left

\* handleMessage.  While unconfigured no property has a value.
Answer(request) ==
  \/ /\ request = "getProperties" /\ status # "Unconfigured"
     /\ LET report == Report("properties", ValueChanged(on), FALSE)
        IN  \/ online /\ Publish(report) /\ lost' = Refreshed /\ UNCHANGED left
            \/ online /\ Publish(report) /\ FailsAs({})
            \/ Unsent({"value"})
     /\ UNCHANGED <<on, events>>
  \/ /\ request = "getConfig"
     /\ \/ online /\ Publish(Report("config", Nothing, FALSE)) /\ Succeeds
        \/ Unsent({})
     /\ UNCHANGED <<on, events>>
  \/ /\ request \in {"turnOn", "turnOff"} /\ status # "Unconfigured"
     /\ Change(request = "turnOn")
     /\ UNCHANGED <<sent, reports, left>>
  \/ /\ status = "Unconfigured" /\ request # "getConfig"
     /\ UNCHANGED <<on, events, sent, reports, left, lost>>

HandleMessage ==
  /\ handled < Len(inbound)
  /\ handled' = handled + 1
  /\ Answer(inbound[handled'])
  /\ UNCHANGED <<status, batch, inbound, online, now, requests, cloudVars,
                 clientVars>>

\* The room in the queue is free again once all of it is handled.
EmptyQueue ==
  /\ inbound # <<>> /\ handled = Len(inbound)
  /\ inbound' = <<>> /\ handled' = 0
  /\ UNCHANGED <<on, status, events, batch, online, brokerVars, cloudVars,
                 clientVars, left, lost>>

\* The broker reports that the connection is lost, or made.
ConnectionIs(b) ==
  /\ online' = b
  /\ Publish(Report("presence", [Nothing EXCEPT !["connected"] = b], FALSE))

\* A restart forgets all that is in RAM.  The session of the broker persists.
Restart ==
  /\ Happens("restart")
  /\ on' = FALSE /\ status' = "Unconfigured"
  /\ events' = <<StatusIs("Unconfigured")>>
  /\ batch' = <<>> /\ inbound' = <<>> /\ handled' = 0
  /\ lost' = lost \ {"status"}
  /\ IF online THEN ConnectionIs(FALSE) ELSE UNCHANGED <<online, reports, sent>>
  /\ UNCHANGED <<now, requests, cloudVars, clientVars>>

Disconnect ==
  /\ online /\ Happens("disconnection")
  /\ ConnectionIs(FALSE)
  /\ UNCHANGED <<on, status, events, batch, inbound, handled, now, requests,
                 cloudVars, clientVars, lost>>

Connect ==
  /\ Free /\ ~online
  /\ ConnectionIs(TRUE)
  /\ UNCHANGED <<on, status, events, batch, inbound, handled, now, requests,
                 cloudVars, clientVars, left, lost>>

------------------------------------------------------------------------------
(* The cloud: handleDeviceMessage.  Its parts run concurrently, each one a step *)

\* What a query finds in the rows it reads of the store or, as often as the model
\* lets it, of a replica that is behind.
Stored == [sets |-> store, from |-> by]
Version(behind) ==
  LET Of(old, new) == [a \in Attribute |->
                         IF \E row \in behind : a \in Columns(row) THEN old[a] ELSE new[a]]
  IN  [sets |-> Of(replica.sets, store), from |-> Of(replica.from, by)]
Stale(behind) ==
  \/ behind = {} /\ UNCHANGED left
  \/ behind # {} /\ Version(behind) # Stored /\ Happens("stale")

\* updateStateStore reads the properties and decides what to write: a value
\* of a "properties" message only if it differs from that read.
Writes(m, value) ==
  {row \in Row :
     \/ row = "property" /\ m.type = "event" /\ m.sets["value"] # None
     \/ row = "property" /\ m.type = "properties" /\ m.sets["value"] # value
     \/ row = "device" /\ m.type \in {"config", "presence"}
     \/ row = "device" /\ m.sets["status"] # None}

\* What a report says that is not written, as the value read is the same.
Unwritten(m, value) ==
  {a \in {"value"} : m.type = "properties" /\ Writes(m, value) = {} /\ m.n > newest[a]}

\* Mutant: the requests for the state are not awaited.
Unfinished_Asks(i) == IF i.writes = {} /\ ~i.pushes THEN {} ELSE {i}

\* An invocation ends when nothing is left for it to do.
Unfinished(i) == IF i.writes = {} /\ ~i.asks /\ ~i.pushes THEN {} ELSE {i}

\* A value that is the same is not pushed, even if the client was told another
\* since; one that is the same as what was read of a replica is lost.
Start(m) ==
  /\ reports' = reports \ {m}
  /\ \E behind \in SUBSET {row \in {"property"} : m.type = "properties"} :
       LET value == Version(behind).sets["value"]
           writes == Writes(m, value)
           unwritten == Unwritten(m, value)
           confirmed == IF value = store["value"] THEN unwritten ELSE {}
       IN  /\ Stale(behind)
           /\ running' = running \cup
                Unfinished([report |-> m, writes |-> writes, asks |-> m.ready,
                            pushes |-> writes # {}])
           /\ newest' = [a \in Attribute |-> IF a \in unwritten THEN m.n ELSE newest[a]]
           /\ by' = [a \in Attribute |-> IF a \in confirmed THEN m.n ELSE by[a]]
           /\ overtaken' = (overtaken \ confirmed) \cup (unwritten \ confirmed)
           /\ lost' = IF confirmed \cap overtaken # {} THEN lost \cup {"view"} ELSE lost
  /\ UNCHANGED <<deviceVars, now, requests, sent, store, updated, replica, clientVars>>

Continues(i, j) == running' = (running \ {i}) \cup Unfinished(j)

\* A replica keeps its version of a row, or has the one that is replaced now: it is
\* followed as long as a query may still read it.
Replicate(row) ==
  \/ UNCHANGED replica
  \/ left["stale"] > 0 /\ replica' = Version(Row \ {row})

\* updateDeviceState and updatePropertyState: on condition that the row was
\* not updated at a later second.
UpdateRow(m, row) ==
  LET set == {a \in Columns(row) : m.sets[a] # None}
      applied == m.time >= updated[row]
      newer == {a \in set : m.n >= newest[a]}
  IN  IF applied
        THEN /\ Replicate(row)
             /\ store' = [a \in Attribute |-> IF a \in set THEN m.sets[a] ELSE store[a]]
             /\ by' = [a \in Attribute |-> IF a \in set THEN m.n ELSE by[a]]
             /\ updated' = [updated EXCEPT ![row] = m.time]
             /\ newest' = [a \in Attribute |-> IF a \in newer THEN m.n ELSE newest[a]]
             /\ overtaken' = (overtaken \ newer) \cup (set \ newer)
        ELSE /\ newest' = [a \in Attribute |-> IF a \in newer THEN m.n ELSE newest[a]]
             /\ overtaken' = overtaken \cup newer
             /\ UNCHANGED <<store, by, updated, replica>>

\* A write that fails is logged, and there is no push then, not of what another
\* write may still change either.  It is that of the row or of its history.
Write(i, row) ==
  /\ row \in i.writes
  /\ \/ /\ UpdateRow(i.report, row)
        /\ Succeeds
        /\ Continues(i, [i EXCEPT !.writes = @ \ {row}])
     \/ /\ Continues(i, [i EXCEPT !.writes = @ \ {row}, !.pushes = FALSE])
        /\ \/ /\ UNCHANGED <<store, by, updated, replica, newest, overtaken>>
              /\ FailsAs(Columns(row) \cup {"view"})
           \/ UpdateRow(i.report, row) /\ FailsAs({"view"})
  /\ UNCHANGED <<deviceVars, brokerVars, clientVars>>

\* requestDeviceState, after a Ready event.
RequestDeviceState(i) ==
  /\ i.asks
  /\ \/ /\ \/ requests' = requests \o <<"getConfig", "getProperties">>
           \/ requests' = requests \o <<"getProperties", "getConfig">>
        /\ Succeeds
     \/ FailsAs({"value"}) /\ UNCHANGED requests
  /\ Continues(i, [i EXCEPT !.asks = FALSE])
  /\ UNCHANGED <<deviceVars, now, reports, sent, store, updated, replica, by,
                 newest, overtaken, clientVars>>

\* Mutant: the push does not wait for the writes.
MayPush_Early(i) == i.pushes

\* await Promise.all(promises)
MayPush(i) == i.pushes /\ i.writes = {}

\* The client has been or will be told of an attribute as of report n, or later.
Reaches(a, n, invocations) ==
  \/ n \in 1 .. seen[a]
  \/ \E p \in pushes : p.sets[a] # None /\ p.from[a] >= n
  \/ \E i \in invocations : i.pushes /\ i.report.sets[a] # None /\ i.report.n >= n

\* The list of clients that is read does not have the client yet.  That is made
\* up for if the state is still to be read for it.
Misses(i) ==
  /\ subscribed /\ Happens("stale")
  /\ lost' = IF asking \/ \A a \in Attribute : i.report.sets[a] # None =>
                               Reaches(a, i.report.n, running \ {i})
               THEN lost ELSE lost \cup {"view"}

\* A device/update event with what the report said, written or not, for those
\* who have subscribed.
Push(i) ==
  /\ MayPush(i)
  /\ \/ /\ pushes' = IF subscribed
                       THEN pushes \cup {[sets |-> i.report.sets,
                                          from |-> [a \in Attribute |-> i.report.n]]}
                       ELSE pushes
        /\ Succeeds
     \/ subscribed /\ FailsAs({"view"}) /\ UNCHANGED pushes
     \/ Misses(i) /\ UNCHANGED pushes
  /\ Continues(i, [i EXCEPT !.pushes = FALSE])
  /\ UNCHANGED <<deviceVars, brokerVars, store, updated, replica, by, newest,
                 overtaken, subscribed, asking, view, seen, back>>

------------------------------------------------------------------------------
(* The client *)

\* device/subscribe: the client is recorded, and then the state read for it.
Subscribe ==
  /\ ~subscribed /\ Happens("visit")
  /\ subscribed' = TRUE /\ asking' = TRUE
  /\ seen' = [a \in Attribute |-> 0]
  /\ UNCHANGED <<deviceVars, brokerVars, cloudVars, pushes, view, back, lost>>

\* What may still be written without a push, after another write has failed.
Unannounced(i) == i.writes # {} /\ ~i.pushes

\* The answer is behind, and no push makes up for it.
LeftBehind(answer) ==
  \E a \in Attribute : answer.from[a] < by[a] /\ ~Reaches(a, by[a], running)

Respond ==
  /\ asking
  /\ asking' = FALSE
  /\ \E behind \in SUBSET Row :
       LET answer == Version(behind)
       IN  /\ Stale(behind)
           /\ pushes' = pushes \cup {answer}
           /\ lost' = IF LeftBehind(answer) THEN lost \cup {"view"}
                       ELSE IF \E i \in running : Unannounced(i) THEN lost
                       ELSE lost \ {"view"}
  /\ UNCHANGED <<deviceVars, brokerVars, cloudVars, subscribed, view, seen, back>>

\* handleJsonMessage: what it is told, whatever the time it is from.
Show(push) ==
  LET told == {a \in Attribute : push.sets[a] # None}
      newer == {a \in told : push.from[a] >= seen[a]}
  IN  /\ pushes' = pushes \ {push}
      /\ view' = [a \in Attribute |-> IF a \in told THEN push.sets[a] ELSE view[a]]
      /\ seen' = [a \in Attribute |-> IF a \in newer THEN push.from[a] ELSE seen[a]]
      /\ back' = (back \ newer) \cup (told \ newer)
      /\ UNCHANGED <<deviceVars, brokerVars, cloudVars, subscribed, asking, left,
                     lost>>

\* The connection ends; the view stays as it is.
Leave ==
  /\ subscribed
  /\ subscribed' = FALSE /\ asking' = FALSE /\ pushes' = {}
  /\ UNCHANGED <<deviceVars, brokerVars, cloudVars, view, seen, back, left, lost>>

\* property/set.
SetProperty(request) ==
  /\ Happens("change")
  /\ requests' = Append(requests, request)
  /\ UNCHANGED <<deviceVars, now, reports, sent, cloudVars, clientVars, lost>>

------------------------------------------------------------------------------
Tick ==
  /\ now < MaxTime
  /\ now' = now + 1
  /\ UNCHANGED <<deviceVars, requests, reports, sent, cloudVars, clientVars,
                 left, lost>>

\* A device that is in use, and known to the store.
Init ==
  /\ on = FALSE /\ status = "Ready"
  /\ events = <<>> /\ batch = <<>>
  /\ inbound = <<>> /\ handled = 0 /\ online = TRUE
  /\ now = 0 /\ requests = <<>> /\ reports = {} /\ sent = 0
  /\ running = {}
  /\ store = [Nothing EXCEPT !["value"] = FALSE, !["status"] = "Ready",
                             !["connected"] = TRUE]
  /\ updated = [row \in Row |-> 0]
  /\ by = [a \in Attribute |-> 0] /\ newest = by /\ overtaken = {}
  /\ replica = Stored
  /\ subscribed = FALSE /\ asking = FALSE /\ pushes = {} /\ view = Nothing
  /\ seen = by /\ back = {}
  /\ left \in Scenarios
  /\ lost = {}

Device == ConfigEnd \/ BeginControllers \/ PublishEvents \/ HandleMessage \/ EmptyQueue
Broker == Receive \/ Connect
Invocation(i) == (\E row \in Row : Write(i, row)) \/ RequestDeviceState(i) \/ Push(i)
Cloud == (\E m \in reports : Start(m)) \/ \E i \in running : Invocation(i)

Next ==
  \/ Device \/ ValueChanges \/ ConfigStart \/ Restart
  \/ Broker \/ Disconnect \/ Tick
  \/ Cloud
  \/ Subscribe \/ Respond \/ (\E push \in pushes : Show(push)) \/ Leave
  \/ \E request \in {"turnOn", "turnOff"} : SetProperty(request)

Spec == Init /\ [][Next]_vars

\* The loop runs, the connection comes back, and what is in the cloud is
\* handled: as long as one of them has something to do, something is done.
FairSpec == Spec /\ WF_vars(Device \/ Broker \/ Cloud)

------------------------------------------------------------------------------
(* Properties *)

TypeOK ==
  /\ on \in BOOLEAN /\ online \in BOOLEAN /\ status \in Status
  /\ Size(events) <= EventCapacity /\ Size(batch) <= BatchCapacity
  /\ Len(inbound) <= QueueCapacity /\ handled \in 0 .. Len(inbound)
  /\ now \in 0 .. MaxTime
  /\ \A m \in reports : m.n \in 1 .. sent /\ m.time \in 0 .. now
  /\ \A i \in running : i.writes \subseteq Row
  /\ store["value"] \in BOOLEAN /\ store["status"] \in Status
  /\ store["connected"] \in BOOLEAN
  /\ updated \in [Row -> 0 .. now]
  /\ subscribed \in BOOLEAN /\ asking \in BOOLEAN
  /\ replica.sets["value"] \in BOOLEAN
  /\ overtaken \subseteq Attribute /\ back \subseteq Attribute
  /\ lost \subseteq Attribute \cup {"view"}

\* All that was to be told has been told.
Settled ==
  /\ events = <<>> /\ batch = <<>> /\ inbound = <<>> /\ requests = <<>>
  /\ reports = {} /\ running = {}

Missing(a) == a \in lost \cup overtaken

\* Once all is settled, the store has the value the device has, through
\* restarts that forget events, publications that are repeated and reports
\* handled in any order: the refresh after each start makes up for it.  Not so
\* when a report was lost since, an older one of the same second prevailed
\* (store.ts, "Table updated more recently, ignore"), or a refresh was not written
\* because a query that is behind said that it is no news.
ValueSettles ==
  Settled /\ status = "Ready" => store["value"] = on \/ Missing("value")

\* The same holds of the status and the connection, which nothing refreshes.
\* They share their time of update, so that a later report of one, or of the
\* configuration, makes the store ignore the other.
DeviceSettles ==
  Settled => /\ store["status"] = status \/ Missing("status")
             /\ store["connected"] = online \/ Missing("connected")

\* A client sees what the store has ("consistency issue for updates happening
\* at subscription time?", handleWebSocketEvent.ts).  Queries that are behind
\* are the one way an update falls between subscribing and reading the state: a
\* list of clients without the client is made up for by the answer, and an
\* answer from a replica by a push, but neither is when the other is behind too or
\* over ("view" in lost).  Pushes are shown as they come, and that of a report the
\* store ignored too.  Nor is there a push of a value that a refresh only confirms,
\* though the client was told another, nor of what one invocation still writes
\* after another of its writes has failed.
ViewFollows ==
  Settled /\ subscribed /\ ~asking /\ pushes = {} /\ "view" \notin lost =>
    \A a \in Attribute : view[a] = store[a] \/ a \in back \cup overtaken

\* Whatever fails on the way, what is to be told is told in the end, and the
\* refresh does not cause another.
AlwaysSettles == []<>(Settled /\ status = "Ready")
===============================================================================
