# Verification of the irrigation system

Models of the irrigation system in TLA+, the TLC configurations that check them on small instances, and TLAPS proofs
of their main properties for every value of their constants. Paths are relative to the repository root, `src/` being
that root.

## 1. The system

A *control processor* (ESP32) at the site drives valves and pumps through *controllers*: a radio controller that talks
to battery powered *remote units* (AVR, solenoid valves), a VACON pump drive over Modbus, and a fertigation relay. It
reports events and takes commands over MQTT. The *cloud* side (AWS Lambda, DynamoDB, SQS, IoT) keeps the last known
state, runs the irrigation *schedule* and serves the *web UI* over websockets.

| component | source | state it keeps | operations |
|---|---|---|---|
| schedule evaluation | `web/aws/src/lib/schedule.ts` | none (pure) | `evaluateSchedule`, `sendMessage`, `generateMessageId` |
| scheduler service | `web/aws/src/handleScheduleMessage.ts`, `serverless.yaml` | SQS messages, running invocations | receive, read, evaluate, send, store, publish; redelivery, dead letters |
| setSchedule requests | `web/aws/src/handleWebSocketEvent.ts` | requests in progress | update the row and send a message, concurrently |
| abort after a restart | `web/aws/src/handleDeviceMessage.ts` | calls in progress | read, send, update |
| schedule row | `web/aws/src/lib/store.ts` | entries, property states, abort, messageId | `getSchedule`, `updateSchedule` |
| device and property state | `web/aws/src/handleDeviceMessage.ts`, `lib/store.ts` | last reported and desired values, connected, status, config | `updateStateStore`, `requestDeviceState`, conditional updates |
| websocket clients, push notices | `web/aws/src/lib/*` | connections, subscriptions | connect, subscribe, notify |
| control processor | `software/src/control-processor/*` | configuration, controllers, error state | main loop, configure, get and set properties, reset |
| event buffer, publisher, MQTT queue | `software/lib/control-processor/event-buffer.cpp`, `event-publisher.cpp`, `mqtt-client.cpp` | event ring, batch, queue of incoming messages | push, pop, publish, retry, enqueue, dispatch |
| remote unit controller | `software/src/control-processor/controllers/remote-unit-controller.cpp` | per unit: desired and reported valves, failures, next update | choose, request, response, backoff |
| remote unit | `software/src/remote-unit/*` | configuration in RAM and EEPROM, valves, faults, battery, watchdog counts | wake, receive, command, timeout, sleep |
| VACON, fertigation | `software/src/control-processor/controllers/*` | registers, desired speed, relay | read, write, retry |
| data store, binary keys | `web/aws/src/lib/store.ts`, `lib/binaryKey.ts` | the rows of one table | conditional updates, queries by prefix and by range of times, expiry |
| web UI: states and updates | `web/ui2/src/legacy/irrigation/store.ts` | requests waiting, subscriptions, last known state | connect, request, update |
| web UI: schedule pages | `components/App.tsx`, `ScheduleEntryEditor.tsx`, `ScheduleList.tsx`, `SavedSchedules.tsx`, `irrigation/store.ts` in `web/ui2/src/legacy` | open page, chosen schedule and entry, fields of the editor, copies of both lists | open, choose, edit, save, start |
| codecs, drivers, tools | `web/aws/src/lib/deviceMessage`, `software/lib/*`, `tools` | none, or registers | encode, decode, read, write |

Interaction: a client's `device/setSchedule` writes the row and sends an SQS message. The message triggers an
evaluation, which reads the row and the reported property values, sends the message of the next evaluation, stores what
it decided and publishes `setProperty` to the device over MQTT. The device routes it to a controller, which sends it on
to a unit; the unit's answer changes a value, which goes into the event buffer, is published in a batch and updates
the property state in the cloud, where the next evaluation sees it. A restarted device publishes a `started` event,
which aborts the schedule.

### What is hard

- **The chain of evaluations.** There is no timer: each evaluation must send the message of the next. The row names
  the one message that may evaluate it (`messageId`), and three writers replace that name, each with a send before,
  after or beside the write. One step lost in the wrong order and a valve stays open.
- **Concurrency.** Two invocations may run at once, on eventually consistent reads and unconditional writes.
- **Failure.** Invocations fail or time out at any await and their messages come again; publications are lost after
  the row was stored; unanswered properties expire, too many of them abort the schedule, and an abort gives up.
- **Asynchronous truth.** A reported value may be older than the last command.
- **Whole lists.** A client changes a schedule by sending it again, from a copy that others, and its own requests, may
  have made old; what an index means is decided when the page is drawn.
- **One table.** Records of eight kinds share a table under keys put together from bytes, which have to stay apart,
  in order and readable.
- **On the device**: interrupts against the main loop, timeouts on both ends of a radio link, bounded buffers, RAM
  and EEPROM copies that differ, retries with backoff.

### What makes each component correct

- *Evaluation*: a property that runs is set, one that does not run is closed before it is forgotten; an evaluation
  never throws; a pending change is looked at again soon.
- *Scheduler*: the chain never breaks while there is something to do; whatever was switched on is known to be on; an
  abort closes everything and ends; what a client removed stays removed.
- *Remote unit*: what it reports of its valves is the truth; it does not sleep on with open valves or an unsaved
  configuration when nobody talks to it; it closes valves for no other reason than a command or real silence; a packet
  announced to it in its sleep is read; it gets back to sleep.
- *Remote unit controller*: what it reports of a unit is what the unit is; a command is kept until it is applied or
  refused, and is applied; no unit is forgotten for longer than the longest delay, and none with open valves is left to
  expire without several attempts to reach it.
- *Control processor*: only a configuration that can be applied is stored, and a valid one that was sent is stored in
  the end; the pump is switched as asked, and never by anything else; what was told of it is what it is.
- *Events, messages and the cloud's state*: whatever buffer overflows, publication fails or report is overtaken, in the
  end the store has the state of the device and a watching client that of the store.
- *Data store*: a query returns the records it asks for, all of them and no others, and a write changes the one record
  it is about, unless something newer is known.
- *Schedule pages*: what is edited is what is stored, with the client's own last change; an open editor is for the
  entry it shows; no page waits for an answer that nobody will send.

## 2. Modules

| module | contents |
|---|---|
| `ScheduleEvaluation` | the pure algorithm of `evaluateSchedule`, as operators |
| `ScheduleLifecycle` | abstract specification: each property goes rest, opening, open, closing, rest; commands fit the phase |
| `IrrigationSchedule` | the scheduler of one device: row, queue, invocations, requests, restarts; properties |
| `MCIrrigationSchedule` | instances for TLC |
| `IrrigationScheduleProofs` | lemmas on the evaluation, type correctness; the invariants of one evaluation at a time and of the chain of evaluations, and the theorems that rest on them |
| `SolenoidValves`, `SolenoidValvesProofs` | the state byte of a unit's latching valves and the pulses that drive them; used by the next two |
| `RemoteUnit`, `MCRemoteUnit`, `RemoteUnitProofs` | the firmware of one remote unit with its interrupts |
| `RadioLink`, `RadioLinkProofs` | the remote unit controller, the radio, and units reduced to their valves and timeout |
| `Processor`, `MCProcessor`, `ProcessorProofs` | the control processor: configuration, status of the controllers, VACON drive |
| `Reporting`, `MCReporting`, `ReportingProofs` | event buffer, publisher, broker, `handleDeviceMessage`, store, pushes, client |
| `StoreRecords` | the records of the data store, and what an update of some of their columns does |
| `DataStore` | abstract specification: sets of records, each write about one of them |
| `TableStore`, `MCTableStore`, `TableStoreProofs` | one table of rows under binary keys, its queries and updates; it implements `DataStore` |
| `ScheduleEditing`, `MCScheduleEditing`, `ScheduleEditingProofs` | the schedule pages of one client, its requests, and the lists in the cloud |

The modules meet as the components do. `SolenoidValves` is what both ends of the radio agree on. `RadioLink` has the
controller in full and takes from `RemoteUnit` that a unit executes a request, may refuse to open, closes its valves
after its timeout and may restart not knowing its valves; `RemoteUnit` takes any packet at any time from the radio.
`Processor` says what is told of a device and when, `Reporting` what becomes of it. `IrrigationSchedule` takes any
reported value at any evaluation, so that nothing the other modules say can invalidate it. `TableStore` says what
the operations of the store are that `IrrigationSchedule`, `Reporting` and `ScheduleEditing` take for granted: to these,
a row is a variable. `ScheduleEditing` is where the requests come from that are any requests in `IrrigationSchedule`;
what evaluations remove from a schedule is, to it, a write of others.

### State and actions of `IrrigationSchedule`

`row` is the DynamoDB item (`entries`, `state`, `abort`, `messageId`); `prev` is its version before the last write,
which a read may still return until the next unit of time. `queue` holds SQS messages with the time they become
visible. Each `Worker` is a slot for one invocation of `handleScheduleMessage`: `pc` says which awaits are behind it,
`batch` and `msg` are its records, `start` its `Date.now()`, `result` what it decided. `client` and `reset` are
`setSchedule` requests and `abortScheduleOnReset` calls.

| action | code |
|---|---|
| `Receive` | the invocation starts with a batch; it looks at `Records[0]` |
| `Evaluate` | row and properties are read, `messageId` matches: `evaluateSchedule`, once more with `abort` when it asks for one |
| `Superseded` | `messageId` does not match: the retry of young messages, not awaited |
| `SendNext`, `UpdateSchedule`, `Publish`, `Finish` | the awaits in their order; publications are concurrent |
| `Fail` | an await throws, or the invocation times out: its messages return or are dead-lettered |
| `SetSchedule`, `StoreEntries`, `SendEvaluate`, `Respond`, `FailRequest` | `device/setSchedule`; the update and the send are two branches of a `Promise.all` |
| `ReadOnReset`, `SendAbort`, `StoreAbort`, `FailReset` | `abortScheduleOnReset` |
| `Tick` | time passes, unless an invocation or a waiting message would exceed its bound |

`commanded`, `raced`, `lostOff` and `lost` are observations that no action's guard reads. `Horizon` lets the model
stop at its last instant without a deadlock; all other deadlocks are errors in every run.

### State and actions of `RemoteUnit`

`pc` says where the one thread of the firmware is: in `setup()` ("boot"), in `handleSerialData` ("execute", "persist"),
or at one of the points of `loop()` between which an interrupt makes a difference. `handle`, `dataPending`, `counts`,
`last`, `config`, `isChanged`, `state`, `faults`, `voltage`, `sensor`, `serial` and `rfAwake` are variables of the code
or levels of its pins; `eeprom`, `rf` and `open` outlive a loss of power. `air` is a packet that the RF module has
announced and not yet written.

| action | code |
|---|---|
| `Setup` | `setup()`: load the configuration, configure the RF module |
| `Top` | `loop()` up to the packet: takes over `dataPending`; without data, battery and sensor are updated |
| `Receive` | `receivePacket` and the checks of `handlePacket` |
| `ExecuteCommand`, `FinishPersist` | `handleCommand`, one command a step; the EEPROM is invalid while it is written |
| `Respond` | the answer is written and the time of communication noted, by a read of `counts` that a tick may tear |
| `CheckTimeout` | the communication timeout: revert the configuration, shut the valves |
| `Settle`, `CheckPending`, `Sleep` | the delay after a packet, the check of `dataPending`, the way into sleep |
| `RfInterrupt`, `Watchdog` | the two interrupt handlers, at any point |
| `Output`, `PowerLoss` | the RF module writes the packet to the serial port; the unit starts again |

### State and actions of `RadioLink`

`remote[u]` is the controller's `RemoteUnitState` of a unit, `overdue[u]` its `now - nextUpdateTime` with the wrap of
the code's 16 bits, `waiting` the exchange it is blocked in. `air`, `reply` and `input` are the request, the answer and
the serial buffer, which nothing empties before a request.

| action | code |
|---|---|
| `Reset`, `Begin` | `reset()`, `begin()` with `applyRfConfig`, which may fail and is then tried again |
| `SetDesired` | `setPropertyDesiredValue` |
| `Update` | `update()` to the request: choice of the unit, what is asked of it |
| `ReadAnswer`, `Timeout` | `updateRemoteUnit` and the second half of `update()`: answer taken or failure, next update |
| `RunCommand`, `EndCommand`, `ReadSignal` | a client's command to a unit, and whatever is read as its answer; a question to the RF module, which empties the serial buffer |
| `Hear`, `Expire`, `UnitRestart` | the unit executes, perhaps refuses; shuts its valves after silence; restarts |
| `Arrive`, `Lose`, `Tick` | the radio and time |

### State and actions of `Processor`

| action | code |
|---|---|
| `BeginControllers`, `UpdateControllers` | `Controllers::loop`; the update is that of the VACON drive, to its relay |
| `ReadConfig`, `ApplyConfig`, `WriteConfig` | `Config::loop` with its three flags |
| `SetConfig`, `SetProperty`, `GetProperties` | `handleMessage` |
| `Restart` | power loss, firmware update, or the restart after a long disconnection |
| `Due`, `Break` | a periodic task falls due; the drive or the RF module falls silent or comes back |

### State and actions of `Reporting`

| action | code |
|---|---|
| `ValueChanges`, `ConfigStart`, `ConfigEnd`, `BeginControllers` | what raises events |
| `PublishEvents` | `EventPublisher::loop`: fill the batch, publish, keep it on failure |
| `Receive`, `HandleMessage`, `EmptyQueue` | `MqttClient`: queue, dispatch to `handleMessage`, clear |
| `Restart`, `Disconnect`, `Connect` | the device and its connection; the broker reports presence and keeps the session |
| `Start`, `Write`, `RequestDeviceState`, `Push` | an invocation of `handleDeviceMessage`, its parts concurrent as in the code; the previous value and the list of clients may be read from a replica that is behind |
| `Subscribe`, `Respond`, `Leave`, `SetProperty` | `handleWebSocketEvent`; the state in the answer may be behind, too |
| `Show` | `handleJsonMessage` of the web UI |
| `Tick` | the next second of the broker's clock |

### State and actions of `TableStore`

`table` is the set of rows; a row has the two keys `pk` and `sk` as sequences of bytes, `exp`, if it expires, and
`item`, its columns. Keys are put together and read by `Bytes` and the operators named after `tableKeys`; queries are
operators of the table.

| action | code |
|---|---|
| `UpdateDeviceState`, `UpdatePropertyState` | the updates of the columns given, on condition that `lastUpdated` is not newer |
| `AddDeviceHistory`, `AddPropertyHistory` | a row for each time, with its expiry |
| `AddWebSocketClient`, `RemoveWebSocketClient`, `AddPushNotificationSubscription`, `RemovePushNotificationSubscription` | rows that are there or not |
| `UpdateSchedule`, `SetSavedSchedules` | the update of the columns given; the whole list |
| `Expire` | the time to live of the table: a row that has one goes, at any time |
| `DevicesOf`, `PropertiesOf`, `HistoryOf`, `ListClients`, `SubscriptionsOf`, `GetSchedule`, `GetSavedSchedules` | the queries, from the rows to the records read out of their keys and columns |

`DataStore` has the same writes on sets of records. The data of a row is an abstract `Value`. A query returns all rows
at once, although DynamoDB divides what is longer than 1 MB into pages, of which the code reads the first, and reads are
of the present table: `IrrigationSchedule` and `ScheduleEditing` have stale ones. Times are in seconds;
the start of a history query may have a fraction in the code, which its key drops.

### State and actions of `ScheduleEditing`

`stored` has the two lists of the cloud, `previous` what a read that is not consistent may still return; `requests`
and `answers` are the messages of this client. `shown` and `loaded` are the copies in the client's store, and the other
variables those of `App` and of a mounted `ScheduleEntryEditor`. `own[k]` observes the last change of list `k` that this
client has sent: the list, how many there were, if anything else has been stored after it (`disturbed`), and if what is
shown was read too early to have it (`behind`). `lost` observes lists whose answer will not come.

| action | code |
|---|---|
| `OpenScheduleList`, `OpenSavedSchedules`, `CloseEntries`, `CloseSaved` | the pages; opening one asks for its lists |
| `ChooseEntry`, `ChooseSaved` | what `onEditEntry`, `onNewEntry` and `onEdit` set |
| `SaveEntry`, `DeleteEntry`, `CancelEditing` | the three ways out of the editor |
| `RenameSaved`, `DeleteSaved`, `NewSaved`, `StartSaved` | saved schedules, and starting one, which adds its entries to the active schedule |
| `HandleGet`, `HandleSet`, `Fail`, `Lose` | `handleWebSocketEvent` on messages in any order, its failures, and lost answers |
| `HandleJsonMessage` | the client takes over an answer |
| `OthersWrite`, `Tick` | other clients and evaluations; time |

Every step of the page ends with `Render`, by which an editor is mounted, kept or dropped as React would: it keeps its
state while it is in the same place, whatever its properties become. Indices count from 1, and `New` stands for the -1
of the code. Changes of the fields of an editor are part of `SaveEntry`, which takes any of their values, since nothing
else reads them. Formatting, the sorting for display and the warnings of the lists are left out. The identifiers of
properties in entries pass through a conversion that loses nothing of properties that can be scheduled.

### Abstractions of the scheduler

- A property's state is kept by the code only while `set || seen`; here every property has a state and `Absent`
  stands for none. A value is a Boolean. What a property reports is arbitrary at every evaluation: no assumption is
  made about devices, so stale, lost and wrong reports are all included.
- Time is counted in units; `Date.now()` is read at the start of an invocation and the clock does not run backwards.
- `generateMessageId` never repeats an identity that is still around (52 random bits).
- `lastEvaluated`, logging, the contents of push notices and websocket updates are left out; a failure of those awaits
  is a `Fail` after the last publication, which is also how a message that SQS delivers again after success appears.
- SQS giving one message to two invocations *at the same time* is not modelled; it would be one more way for
  evaluations to overlap, which `raced` stands for.
- The schedule of one device is modelled. Devices share only the queue, hence the batches: a batch that mixes devices
  loses messages in the same way as one that mixes messages of one device.

### Abstractions of the other modules

- *Observations.* Variables under that heading, and the fields `late` and `refused` of a message, are read by no code.
  They name what the code does not handle, so that a property can except exactly that: a read of a counter torn by an
  interrupt (`torn`), an unsaved configuration set twice (`twice`), a coil that did not follow (`dud`), a packet lost
  (`missed`), what came between the controller's value and the unit (`drift`), a report lost (`lost`), overtaken by an
  older one (`overtaken`) or shown after a newer one (`back`).
- `RemoteUnit`: the interval between battery readings is left open and a voltage is "low" or "ok"; the sensor is
  reduced to its flags, and falls due by itself, at any pass, once the shortest interval of 64 ticks may be over
  (the run has fewer ticks, so that there only the first update is by a command; the proofs cover the rest); a packet is
  a sequence of commands that is valid or not. The counter has `CountRange` values of `Byte`-sized parts. Ticks come at
  most `MaxTicks` times in a pass of the loop (8 s each; a pass takes seconds), else a packet that is executed for ever
  would defer the timeout for ever.
- `RadioLink`: battery, faults and sensor values are taken over from an answer as they are and left out. Time is the
  code's unit of 2^14 ms; an exchange takes less than one (`REMOTE_UNIT_TIMEOUT` is 8 s), a choice no time. One
  message is under way in each direction. Time also passes while `begin()` has not succeeded, for `BeginLimit` at most;
  the code has no limit, and the units need no longer to expire.
- `Processor`: time is reduced to whether a task is due. A configuration is valid, has a packet of invalid length, or
  one for a controller that does not exist, for which `getController` returns a null pointer that `configAdd` does not
  check: taken to end in a restart. The two values read from the drive are one; a read of them raises no event for
  `motorOn`, as the code's loop over the properties skips index 0, so that the relay is the only place that tells it. A
  Modbus client that does not start changes nothing but that `begin()` is tried again; that it starts in the end is part
  of the fairness.
- `Reporting`: one property and the status of one device stand for all. A report has the broker's time in seconds, as
  the code has it. No query of the store is consistent: `replica` keeps one earlier version of each row, for as long as
  a query may still read it, which may be any time, and a query is answered from it or from the store, for each row
  separately. The list of clients may lack one that has subscribed, again for any time. How often a query is behind is
  bounded ("stale"). The queries of `getDeviceState` are one step. A failed write is that of a row or of its history,
  and no push follows it. An answer of the device that cannot be published is not repeated. Sizes of events are counted
  in units, those with a payload as two.

Operators named `X_...` beside an `X` are mutants: plausible mistakes in the code that X stands for. Nothing uses them;
replacing X by one must break the property listed for it in `PROJECT.json`.

## 3. Runs

| run | question | result |
|---|---|---|
| `ScheduleChain` | one request, one restart, one failure, messages late without bound, invocations longer than the shortest delay | passes, 1.0 M states |
| `ScheduleAbort` | refinement of `ScheduleLifecycle`; does every abort come to its end? | passes, 126 k states |
| `ScheduleSecondAbort` | does an abort keep evaluating until it gives up? | violated |
| `ScheduleOverlap` | is every switched on property tracked, overlapping evaluations included? | violated |
| `ScheduleBatch` | is every message of a batch handled? | violated |
| `ScheduleRestored` | do only clients add entries? | violated |
| `RemoteUnit` | interrupts at every point of the loop, torn reads, every kind of packet, a loss of power, a coil that fails | passes, 3.3 M states |
| `RadioLink` | two units, one of them disturbed by commands, resets, restarts, refusals, lost and late messages, and a `begin()` that fails | passes, 2.1 M states |
| `Processor` | configurations valid, invalid and harmful, restarts between any two steps, a drive and an RF module that fall silent | passes, 215 k states |
| `Reporting` | full buffers, repeated and reordered reports, failures, restarts, disconnections, queries that are behind, a client coming and going | passes, 2.0 M states |
| `TableStore` | identifiers of which one begins with another, numbers whose bytes could be confused | passes, 7 k states |
| `ScheduleEditing` | requests overtaken, answered late or lost, and lists that others change while they are edited | passes, 3.0 M states |

### Properties

**Scheduler.** `ChainAlive`: while a property is tracked or an entry has not ended, the message that the row waits for
is in the queue, in an invocation, or about to be sent by a request. It was checked with the message overtaking the row
update, with stale reads, with retries of mismatches, and with failures between any two awaits. What the code does not
handle is named in the property: dead letters, a request that stored the row but failed to send, the retry that is not
awaited, and entries restored by an overlapping clean-up. `PendingSoon`: while a change is pending that message is due
within the longest of the three short delays, never at the next entry. `Tracked`: a property last told to switch on is
in the stored state, unless evaluations overlapped or the off command was stored and then lost. `NeverThrows`: no
reachable row lets an evaluation throw "expected empty property schedule state". `FollowsLifecycle` and
`ImplementsLifecycle`: the scheduler refines `ScheduleLifecycle` under `phase[p] = PhaseOf(row.state[p])`.
`AbortSettles`: an abort ends, with everything that was on switched off or given up after its time limit, where no more
than `ExpiredLimit` properties exist; with more, a second abort may stop the chain first (finding 1).

**Remote unit.** `StateIsTruth`: a state byte without the force flag is the position of every valve that followed its
last pulse, across losses of power which the valves do not notice. `OpenValvesExpire` and `RevertsUnsaved`: a unit does
not go to sleep with open valves, or with a configuration that was not saved, after more silence than its timeout,
unless a read of the counter was torn; a torn read that was kept as the time of the last communication misleads every
check up to the next response, not only the one it was made for.
`ClosesOnlyWhenSilent` is the converse: valves close on a command or after real silence. `AsleepHears`: packets that are
lost were announced while the unit was awake. `SleepsAgain`: it always gets back to sleep.

**Radio link.** `ReportedIsTrue`: the controller's value of a unit is the unit's, unless `drift` says what came
between. `Told`: events have told that value. `CommandKept`: an exchange replaces a desired value only when the unit
refused it or the answer is a late one. `ChangeSettles`: a change to apply is applied or dropped in the end.
`NotForgotten`: no unit is further from its next update than the longest delay, for all shifting and wrapping.
`ExpiresOnlyUnheard`: a unit that shuts open valves by itself has missed `Attempts` heartbeats, the number that the
intervals and the backoff leave time for (two in the run). Not so where the controller takes the valves for shut
(a client's command, a late answer), nor where time passed before `begin()` succeeded ("unbegun" in `drift`): with an RF
module that does not answer, the controllers are not updated at all (`controllers.cpp:44`), and units expire without a
heartbeat having been tried.

**Control processor.** `StoredApplies`: only what could be applied is in the EEPROM. `Persisted`: a valid configuration
that was sent is stored in the end, in whatever order it came with the reading of the old one. `PumpKept`: the relay
changes to what was asked for last, or to off by a restart. `PumpSwitches`: it does so in the end, except while the
drive is mute, when `update()` returns before the relay, which goes for switching off, too. `ToldIsTrue`: every change
of the drive raises its event.

**Reporting.** `ValueSettles`, `DeviceSettles`: once all is told, the store has what the device has, or a report is
named that was lost, overtaken within one second, or skipped as the value read to compare it with was not that of the
store any more. `ViewFollows`: a subscribed client has what the store has, unless pushes were overtaken or not made.
They are not made after a write of the invocation has failed, though its other writes go on, nor for a value that a
refresh finds unchanged in the store, though the client was shown another meanwhile. To the question of
`handleWebSocketEvent.ts:94`, if updates at subscription time are a problem, the answer is that they are, as no query is
consistent: a list of clients without the new one is made up for by the answer, when that is read later, and an answer
that is behind by a push, when that is made later; but neither is when the other is behind as well, or was made before,
and nothing tells the client. `Misses` and `LeftBehind` say when that is, and with either of them left out TLC finds the
client behind. `AlwaysSettles`: everything comes to rest, and the refresh that a `ready` event asks for causes no other.

**Data store.** `TypeOK`: rows are told apart by their keys, and every key can be read again. `QueriesAgree`: queries by
a prefix return the records of that type and device and no other's, and queries by a range of times what was recorded
between them, in order. `ImplementsDataStore`: what the queries return changes as the records of `DataStore` do, so
that no write reaches a record it is not about.

**Schedule pages.** `ShowsOwnChanges`: a list that can be changed is what this client has last sent, and what is
stored, so that the next change, which replaces the list, undoes nothing; unless others wrote, a request failed, or the
list was read before that change was stored, which the client cannot see, as answers name no request.
`EditorShowsEntry`: "Update" and "Cancel" are for the entry the editor shows, and an update without a change stores that
entry again. `NeverStuck`: a page that cannot be used yet waits for an answer that is on its way, unless one was lost,
for which there is no timeout.

The model shows some behaviour of the pages that is odd without contradicting anything the repository says:
- Renaming, deleting or starting a saved schedule while a list is not up to date does nothing, and says nothing.
- A chosen entry stays chosen when the page is closed before the list is up to date, and the editor is then open on the
  next page that is.
- An entry of a saved schedule that starts at 0 loses its run time when it is edited (`ScheduleEntryEditor.tsx:225`):
  the editor begins with the default of a new one.
- "After last" takes the first entry into account even when it is the one being edited (`App.tsx:466`).

### Bounds

**Scheduler.** Delays are scaled so that their order is the code's: shortest delay (1 s) < evaluation delay (20 s) <
retry and visibility (30 s) < abort limit (300 s), entries shorter and longer than each. `LambdaTimeout = 1` is the
length at which an invocation may still run when the message it sent is delivered (6 s against 1 s in production);
`DeliveryLatency = 7`, the horizon, means that messages may be late without bound. Seven identities are enough for every
message these horizons allow: `FreshIds # {}` never blocks a step that matters, since a step out of identities would
leave an invocation unable to end in time and stop the clock, which the deadlock check reports. Two invocations are
`maximumConcurrency: 2`. One property suffices for the chain, as evaluation treats properties alike; what depends on
several, which of them are expired, is proved for any number of them. `ScheduleAbort` has shorter delays and invocations
that take no time, so that an abort within the first units of its horizon of 14 can wait, be retried after a failure and
must have ended. `ExpiredLimit = 1` there with one property, as any smaller limit lets an abort be asked for again
before `AbortTimeLimit` (240 s < 300 s); `AbortSettles` therefore speaks of the aborts of a restart. It only speaks of
aborts early enough before the horizon; that premise is met, as the mutant that breaks it shows.

**Remote unit.** One valve, as pulses of valves do not depend on one another; two configurations with different
timeouts, 0 and 1 tick; two packets, which is one on its way while another is executed; one restart; one failing coil.
`MaxCounts = 4` ticks pass both timeouts with two ticks during a pass, and cross the border of a byte
(`Byte = 4`), where a read can be torn. The counter itself does not wrap: 2^32 ticks
of 8 s are a thousand years (`MaxCounts < CountRange` in `UnitAssumption`).

**Radio link.** Two units, so that they take turns and an answer of one can be taken for that of the other; `Subject`
restricts commands and faults to one of them, the other is to be served regardless. Two requests and one fault, the
fault being a lost or late message or a restart; with two faults the safety properties were checked as well (14.4 M
states, beyond a run). `Interval = 10`, `ActiveInterval = 1` and `UnitTimeout = 9` keep the order of the code's 73 and
11 (2^14 ms each) and of a unit's timeout between them, and leave time for two attempts to reach a unit, the second
after a backoff (`Attempts = 2`). `BeginLimit = 9` lets `begin()` fail for as long as a unit takes to expire; `TimeRange
= 64` wraps within the run, and `MaxFailCount = 2` reaches the cap of the backoff.

**Control processor.** `MaxErrorCount = 1`: the limit is crossed by the second failure. Three requests are a
configuration, another that replaces it while it is applied, and a command. A configuration that crashes is tried
until `MaxRestarts` are used up. Two breaks let the drive fall silent and come back.

**Reporting.** Buffers hold two events with a payload, the queue two messages, one second passes; the six scenarios
of `MCScenarios` say which incidents happen in one behaviour: a change with a restart, a restart with a failure, two
changes with a failure and a disconnection, three changes with a visit and two queries that are behind, a change with
a visit, a disconnection and one such query, a restart with one. Two queries behind are a list of clients and an answer,
or the value a report is compared with. A change with a restart and a query behind has 4.9 M states, too many for
the run; its safety properties were checked. Three events overflow the buffer, and
the two requests of a refresh with a command overflow the queue.

**Data store.** Two identifiers, of which one begins with the other, since this is what a missing terminator confuses;
property numbers 1 and 256, and times 100 and 256, whose bytes are in another order than they. Two rows at a time
(`MaxRows = 2`): a query or a write concerns one row and what else there is.

**Schedule pages.** Two messages under way, as two are what overtakes; two visits of pages, since what is left behind by
one shows on the next; two events, that is changes of this client, writes of others, failures and losses. Lists have
entries that start at once and later, and that end within a minute of the start of another or after more; a change may
make them no longer than two. Two units of time let an entry end while it is shown.

**Symmetry** permutes invocations, requests, messages and properties, and is used for safety only.

### Fairness

- `IrrigationSchedule!FairSpec`: weak fairness of the steps of an invocation, of a request and of a restart's abort
  separately, and of time: Lambda runs what it has started and SQS delivers what is visible. Nobody is obliged to make
  a request, no device to restart, and a failure is never forced.
- `RemoteUnit!FairSpec`: the processor runs (`Loop`) and the RF module writes what it has announced (`Output`). The
  watchdog owes nothing: the unit sleeps without it.
- `RadioLink!FairSpec`: the controller's loop runs, the RF module answers `begin()` in the end, the radio delivers or
  loses, time passes, and a unit's timeout elapses (shown to be so by `OpenValvesExpire`).
- `Processor!FairSpec`: the loop calls `Controllers::loop` and `Config::loop` each time, hence one condition for each.
- `Reporting!FairSpec`: the device's loop, the broker and the invocations go on, and the connection comes back. One
  condition for all of them is enough: as long as one of them has something to do, something is done.

## 4. Findings

1. **A second abort ends the chain** (`ScheduleSecondAbort`, `schedule.ts:213`). More than `EXPIRED_LIMIT` properties
   that do not close within `SET_TIME_LIMIT` make the evaluation of an *aborted* schedule ask for an abort again; the
   handler then does nothing at all. The switch-off is never repeated and `ABORT_TIME_LIMIT` never reached.
2. **Overlapping evaluations leave a property untracked** (`ScheduleOverlap`, `handleScheduleMessage.ts:104`). Two
   requests within seconds: the evaluation of the first opens a valve after the evaluation of the second has stored
   that nothing is open. Nothing closes it.
3. **A batch loses messages** (`ScheduleBatch`, `handleScheduleMessage.ts:59` with `batchSize: 10`).
4. **Removed entries come back** (`ScheduleRestored`, `handleScheduleMessage.ts:88`). A clean-up that overlaps with a
   request writes the old entries over the new ones; they will run. If that evaluation belongs to an aborted schedule
   the message of the request may be spent already, and then they never do: the last exception of `ChainAlive`.

## 5. Proofs

The theorems hold for every value of the constants: any sets of properties, messages, invocations and schedules, any
number of valves and units, any packets and configurations, any delays, limits and sizes of counters. They assume
only the `ASSUME`s of the modules, which say that numbers are naturals (positive, where the code divides by them or
counts modulo them), that reserved values are none of the ordinary ones, and what commands and configurations look like.
One assumption says more: `RetryAssumption`, which the chain needs, that the delay of a retry is longer than an
invocation runs and one that SQS can be asked for. In the code it is 30 s (`handleScheduleMessage.ts`), and
`serverless.yaml` leaves the timeout of the function at 6 s. With a timeout of more than 30 s a message could come, be
sent again, and come again to be dropped, all before the row names it.

**Scheduler** (`IrrigationScheduleProofs`)

- `TypeCorrect`: `Spec => []TypeOK`.
- `SetIffRuns`, `NewStateMoves`: one evaluation of one property leaves it set exactly when an entry runs, moves it along
  the lifecycle, and publishes only what fits its new phase.
- `EvaluationNeverThrows`, `NeverThrowsCorrect`: what is set and seen belongs to an entry that runs, whose end is still
  to come, so `Upcoming` is not empty. `TypeOK` is enough as the invariant.
- `OneEvaluationCorrect`: the invariant behind the next two. `Tracked` alone is not inductive: that nothing switched on
  is forgotten depends on what the invocation between its awaits has decided (`DecisionFits`), which stays valid
  because it is the only one that has evaluated, and on the off command it has yet to publish (`SwitchedOnIsKnown`).
- `TrackedCorrect`, `LifecycleCorrect`: until evaluations overlap, every property told to switch on is in the stored
  state, and every step is a step of `ScheduleLifecycle` or a stutter.

**The chain of evaluations** (`IrrigationScheduleProofs`)

- `ChainInvCorrect`, `ChainAliveCorrect`: the argument follows the *writers*, those who will still store a message
  identity in the row: requests and restarts' aborts before their update, invocations between send and update. `OwnIds`
  says that their identities are their own, `WritersHeard` that a message that was sent is still there when it is named,
  as it is dropped only after a second arrival and that is later than any writer lives (`WritersWait`, `OnTime`).
  `RetriesCatchUp` covers eventually consistent reads: while the previous row may be read, a message of the present one
  is young enough to be sent again. `RestIsRest` and `PrevCovers` say that an invocation that sends nothing has left
  nothing to do, also when it decided on the row before the last write. `ChainAliveCorrect` adds two causes to the
  exceptions of `ChainAlive`, both of them findings of section 4: a second abort, and the rest of a batch.
- `PendingSoonCorrect` from the same invariant (`RowSoon`).

**Remote unit** (`SolenoidValvesProofs`, `RemoteUnitProofs`)

- `UnitTypeCorrect`: in particular the configuration in use is always one with a valid CRC, and a unit is never left
  with `persist` to finish and no command.
- `StateIsTruthCorrect`, from lemmas on which valves `setState` pulses: a valve that is not pulsed is already where it
  is asked to be, also when the force flag makes the unit assume the opposite.
- `AsleepHearsCorrect`: inductive with `AirInv` and `InputInv`. A packet announced to a sleeping unit has woken it, and
  as long as it is on its way the loop is between the wake-up and its reading, so that neither the end of the serial
  port nor a question to the RF module can swallow it.
- `ClosesOnlyWhenSilentCorrect`: inductive with `ClockInv`, by which `silence` is the difference of the counters unless
  the read that was kept was torn; the difference then exceeds the timeout only after that much silence.
- `OpenValvesExpireCorrect`, `RevertsUnsavedCorrect`: inductive with `ExpiryInv`, that after the check of the timeout
  the silence exceeds it by no more than the ticks since, or else the unit has done what the timeout asks for. The proof
  showed that a torn read excuses more than the check it was made for (`torn = {}` in both properties).

**Radio link** (`RadioLinkProofs`)

- `LinkTypeCorrect`, `ReportedIsTrueCorrect`, `CommandKeptCorrect`. The invariant `LinkInv` relates what is on its way
  to what the controller waits for: `RequestInv` says that a request that is not late is that of the exchange and asks
  for what is desired, `AnswerInv` that an answer that is not late tells the state of its unit unless `drift` says
  otherwise, and that it is what is desired unless the unit refused.
- `ToldCorrect`: inductive with `ToldInv`, which covers units not heard yet, whose desired value may have been told.
- `NotForgottenCorrect`: `Spec /\ []~PassedOver => []NotForgotten`. The property is false for some values of the
  constants: with a range of time that is small against the number of units, a unit that is due can be passed over until
  its age wraps and it is not due any more, which is `PassedOver`. That is all that can go wrong: ages are counted
  modulo `TimeRange`, and the theorem shows that a unit that is not due is never further from it than the longest delay,
  for every sequence of backoffs. The delays, which are powers of two by a recursive function, are bounded by induction
  over the naturals, in the form that a set which has 0 and with each number the next has all. `LinkAssumption` says for
  this that the interval of an active unit is no longer than that of the others.

**Control processor** (`ProcessorProofs`)

- `ProcessorTypeCorrect`, with the range of the error count; `StoredAppliesCorrect` and `SentKeptCorrect` from
  `ConfigInv`: a configuration that cannot be applied still waits to be, and after one was sent nothing waits to be
  read.
- `PumpKeptCorrect`: inductive with `DesiredInv`, that what is desired is what was asked last or what the relay is.
- `ToldIsTrueCorrect`.

**Reporting** (`ReportingProofs`)

- `ReportingTypeCorrect`: the buffers and the queue never hold more than they have room for, whatever fails.
- `ValueSettlesCorrect`, `DeviceSettlesCorrect`: nothing of what is said on settling is inductive. `SettlingInv` follows
  each attribute through all places it can be in, the later ones counting: the last event in the buffer or the batch
  that tells of it; else the newest report that is published or has yet to be written; else the store, unless that
  report was overtaken. For the value there is one more, the refresh: from the restart to the event of being ready, on
  with its report and the invocation that handles it, and to the request for the properties, a refresh is still to come
  (`RefreshComing`), which is what makes up for the events that a restart forgets.
- `ViewFollowsCorrect`: `ViewInv` names for each attribute the last number that the client will have been shown, with
  its value, and says that it is the store's or that of a report yet to be written. It needs that all who tell of
  one report tell the same (`OneVoice`), that numbers and times agree (`TimeInv`), that what is pushed has been written
  (`HandledInv`) and that a push that was given up is not forgotten before the invocation has ended (`UnannouncedInv`).
  An earlier version of a row in `replica` is one more place that tells of a report; where an answer or a list is
  behind, `ViewInv` follows the push or the answer that makes up for it (`Reaches`). Nothing is assumed about how long a
  replica lags, nor how often a query is behind.
  Two cases in which the client stays behind came out of this proof, and are now named in the property: a push that a
  failed write prevents while another write goes on, and a refresh that confirms an older value.

**Data store** (`TableStoreProofs`)

- For any sets of identifiers and numbers that keep to the widths of keys (`StoreAssumption`: texts without NULs,
  controller and property numbers of 8 and 16 bits, and seconds up to 2038, as `handleDeviceMessage` cuts them to 32
  bits with a sign). The lemmas on keys come first: what is read from one is what it was built from, none is another's,
  a prefix of a key is matched by the keys of one device only, and the order of the bytes of times is that of times.
- `TypeCorrect` and `QueriesAgreeCorrect`, from the invariant `RowsInv`: every row is that of one record of the right
  kind, under its own keys.
- `ImplementsDataStoreCorrect`: a refinement with mappings that are queries. For each write there is what it does
  to the one record, and that it spares all others, which the lemmas on keys give for every kind of record once
  (`Spares`).

**Schedule pages** (`ScheduleEditingProofs`)

- `TypeCorrect`: whatever is chosen on the pages, what they send are entries that run something for some time, and no
  step gives a list of one kind to the other. `EditingAssumption` says what the lists of others look like.
- `ShowsOwnChangesCorrect`, from `ListsInv`, which follows the last change: it waits in a request, or it is what is
  stored unless it was disturbed (`Stores`); an answer that is not behind has it (`Answered`), and so has what is shown
  (`Shows`). Changes are told apart by how many there were before them (`Sent`).
- `EditorShowsEntryCorrect`, from `EditorInv`: when no answer is under way as an editor opens, none can come before it
  closes, since asking takes a step that closes it, so that the list and the index stay as they were.
- `NeverStuckCorrect`: whatever makes a list out of date has asked for it (`Waiting`), and a page needs only the lists
  it has asked for (`Needs`).

**Only model-checked**, and why:

- All liveness (`ChangeSettles`, `SleepsAgain`, `PumpSwitches`, `Persisted`, `AlwaysSettles`,
  `AbortSettles`), which rests on fairness and on time and is beyond the proof system.
- `ImplementsLifecycle`, that every step is one of `ScheduleLifecycle`, which promises no progress. It is
  `LifecycleCorrect` until evaluations overlap; that they never do needs an invocation to take less than half the
  shortest delay, which the code does not ensure (6 s against 1 s), so that only the run `ScheduleAbort` assumes it.
- `ExpiresOnlyUnheard`: it weighs the sum of the delays between attempts, and the time that exchanges with other units
  take, against the timeout of a unit. That is a statement about the numbers chosen rather than about all constants.

## 6. Not modelled

- The fertigation controller: a pulse counter that is read and reset in one place.
- The VACON variant without a relay: it declares `motorOn` twice (`vacon-100-controller.cpp:219` and `:266`) and does
  not compile; both hardware revisions define `VACON_RELAY_CONTROL_PIN`. Raw register commands of the drive.
- Alerts and web push notices to people.
- Controller commands share their identifiers between clients (`web/ui2/src/legacy/irrigation/store.ts:269`), so that
  one client's answer may reach another's request; the commands themselves are in `RadioLink`.
- In the web UI the configuration editor, the tools for drives and units, charts and logs.
- Encodings of messages and packets, and message lengths, which unit tests cover; the Modbus and radio drivers,
  which are vendored or address registers; rendering of the web UI; tools; authentication and deployment.

## 7. What is left to do

1. Proofs: how long a due unit of `RadioLink` can be passed over, which is the premise of `NotForgottenCorrect`; that
   evaluations do not overlap when an invocation is shorter than half the shortest delay, for `ImplementsLifecycle`.
2. `Reporting` with the lengths of messages: a configuration of 255 or 256 bytes does
   not fit the device's buffer.
3. Larger instances: two valves in `RemoteUnit`, two disturbed units in `RadioLink`, two properties in `Reporting`.
