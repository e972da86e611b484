------------------------------ MODULE RemoteUnit ------------------------------
(***************************************************************************)
(* The firmware of a remote unit: the loop of main.cpp, its two interrupt  *)
(* handlers, the commands a packet can carry, the latching solenoid        *)
(* valves, and the configuration in RAM and EEPROM.                        *)
(*                                                                         *)
(* The loop is a process with one action per stretch of code between two   *)
(* points where an interrupt makes a difference; the interrupts and a loss *)
(* of power may come between any two of them.  A packet is executed        *)
(* command by command, as its valve pulses and delays take time.           *)
(*                                                                         *)
(* External to the code: the RF module, which announces a packet on the    *)
(* interrupt pin and then writes it to the serial port, and the valves.    *)
(***************************************************************************)
EXTENDS Integers, Sequences, FiniteSets, Functions, SolenoidValves

CONSTANTS
  Config,        \* configurations, [timeout : Nat, rf : ...]
  Default,       \* the one load() falls back on
  Corrupt,       \* EEPROM content with a bad CRC
  Packet,        \* packets that may arrive
  NoPacket,
  Byte,          \* number of values of a byte of the counter (256)
  CountRange,    \* number of values of the counter (2^32)
  MaxTicks,      \* ticks during one pass of the loop
  MaxCounts, MaxPackets, MaxRestarts, MaxDuds  \* bounds of the model

Command == UNION {Range(packet.commands) : packet \in Packet}

\* Where the loop can be: "boot" is setup(), "execute" and "persist" are in
\* handleSerialData, the others are stretches of loop().
Place == {"boot", "top", "receive", "execute", "persist", "timeout", "settle",
          "check", "sleeping", "asleep"}

\* A packet, and where the loop was when it was announced.
Heard == [data : Packet, heard : Place]

ASSUME UnitAssumption ==
  /\ Config \subseteq [timeout : Nat, rf : Nat] /\ Default \in Config
  /\ Corrupt \notin Config /\ NoPacket \notin Heard
  /\ \A packet \in Packet :
       packet.valid \in BOOLEAN /\ packet.commands \in Seq(Command)
  /\ \A c \in Command :
       /\ c.name \in {"SetSolenoidState", "ClearFaults", "GetBatteryRaw",
                      "SetConfig", "ApplyRfConfig", "PersistConfig",
                      "GetSensorValue", "GetSignalStrength", "Get", "TooLarge"}
       /\ c.name = "SetSolenoidState" => c.arg \in SolenoidState
       /\ c.name = "SetConfig" => c.arg \in Config
       /\ c.name = "GetSensorValue" => c.arg \in BOOLEAN
  /\ {Byte, CountRange} \subseteq Nat \ {0}
  /\ {MaxTicks, MaxCounts, MaxPackets, MaxRestarts, MaxDuds} \subseteq Nat
  /\ MaxCounts < CountRange

Fault == {"SolenoidTimeoutOccurred", "SolenoidNotActivated",
          "BatteryVoltageError", "ConfigReadFailed",
          "ConfigureRfModuleFailed", "SolenoidLowCurrent"}

NoReading == [pending |-> FALSE, scheduled |-> FALSE, unread |-> FALSE]
SerialOff == [on |-> FALSE, input |-> <<>>]

VARIABLES
  pc,          \* where the loop is
  handle,      \* handleSerialData
  dataPending, \* set by the RF interrupt
  counts,      \* watchdog ticks, multiples of 8 seconds
  last,        \* lastSuccessfulCommunicationCounts
  config,      \* RemoteUnitConfig: the configuration in RAM
  isChanged,
  state,       \* Solenoids: what the unit takes the valves to be
  faults,
  voltage,     \* RemoteUnitBattery.lastVoltage: "none", "low" or "ok"
  sensor,      \* RemoteUnitSensor
  eeprom,      \* survives a restart
  rf,          \* configuration of the RF module, survives a restart
  open,        \* valves that are open, survives a restart
  rfAwake,     \* level of the enable pin of the RF module
  serial,      \* the serial port: whether it is on, and its input
  air,         \* a packet announced and not yet written to the serial port
  todo,        \* commands of the current packet still to execute
  \* Bounded by the model:
  packets, restarts,
  \* Observations, read by no code:
  silence,     \* ticks since the last success or start
  ticks,       \* ticks in this pass of the loop
  torn,        \* reads of counts that were torn by a tick: the one kept in
               \* `last`, that of the last check of the timeout
  twice,       \* a configuration equal to the unsaved one was set
  dud,         \* valves that did not follow the last pulse
  missed       \* where the loop was when packets were announced that were lost

loopVars == <<pc, handle, todo>>
ramVars == <<config, isChanged, state, faults, voltage, sensor>>
lastingVars == <<eeprom, rf, open, dud>>
portVars == <<rfAwake, serial, air, missed>>
radioVars == <<dataPending, packets, portVars>>
clockVars == <<counts, last, silence, torn, ticks>>
vars == <<loopVars, ramVars, lastingVars, radioVars, clockVars, restarts, twice>>

\* Without a valid EEPROM the unit works with the default configuration.
Stored == IF eeprom = Corrupt THEN Default ELSE eeprom

------------------------------------------------------------------------------
(* Commands *)

\* RemoteUnitBattery::shouldDisable: 0 until the first reading.
ShouldDisable == voltage # "ok"

\* RemoteUnitRfModule::applyConfig; the module may not answer.  `other` are
\* the faults that are set besides.
ApplyRf(c, other) ==
  \/ rf' = c.rf /\ faults' = other
  \/ rf' = rf /\ faults' = other \cup {"ConfigureRfModuleFailed"}

\* A question to the RF module, which wakes it.  What is in the serial port, or
\* gets there meanwhile, is read for the answer: a packet is lost.
AskRfModule ==
  /\ rfAwake' = TRUE
  /\ serial' = [on |-> TRUE, input |-> <<>>]
  /\ air' \in {air, NoPacket}
  /\ missed' = missed \cup
       {m.heard : m \in Range(serial.input) \cup ({air} \ {air'})}

\* solenoids.setState(asked): one pulse for each valve to switch.  A valve
\* whose coil is disconnected does not move, which the current sense notes.
Drive(asked) ==
  \E fail \in SUBSET Pulsed(state, asked) :
    /\ Cardinality(dud \cup fail) <= MaxDuds
    /\ state' = Driven(state, asked)
    /\ open' = (open \cup (TurnOn(state, asked) \ fail))
               \ (TurnOff(state, asked) \ fail)
    /\ dud' = (dud \ Pulsed(state, asked)) \cup fail

Refused(asked) == ShouldDisable /\ asked # Closed

SetSolenoidState(asked) ==
  /\ Drive(IF Refused(asked) THEN Closed ELSE asked)
  /\ faults' = faults \cup (IF Refused(asked) THEN {"SolenoidNotActivated"} ELSE {})
                      \cup (IF dud' \cap Pulsed(state, IF Refused(asked)
                                                THEN Closed ELSE asked) # {}
                              THEN {"SolenoidLowCurrent"} ELSE {})
  /\ UNCHANGED <<config, isChanged, voltage, sensor, eeprom, rf, twice>>

ClearFaults ==
  /\ faults' = {}
  /\ UNCHANGED <<config, isChanged, state, voltage, sensor, lastingVars, twice>>

GetBatteryRaw ==
  /\ voltage' \in {"low", "ok"}
  /\ UNCHANGED <<config, isChanged, state, faults, sensor, lastingVars, twice>>

\* Mutant: compares after copying.
SetConfig_After(c) ==
  /\ isChanged' = FALSE
  /\ config' = c
  /\ twice' = (config = c /\ c # Stored)
  /\ UNCHANGED <<state, faults, voltage, sensor, lastingVars>>

\* setRaw compares with the configuration in RAM.
SetConfig(c) ==
  /\ isChanged' = (config # c)
  /\ config' = c
  /\ twice' = (config = c /\ c # Stored)
  /\ UNCHANGED <<state, faults, voltage, sensor, lastingVars>>

ApplyRfConfig ==
  /\ ApplyRf(config, faults)
  /\ UNCHANGED <<config, isChanged, state, voltage, sensor, eeprom, open, dud,
                 twice>>

\* The reading is returned and no longer unread, even if no answer gets
\* through; bit 7 of the identifier asks for another reading.
GetSensorValue(schedule) ==
  /\ sensor' = [pending |-> sensor.pending, unread |-> FALSE,
                 scheduled |-> sensor.scheduled \/ schedule]
  /\ UNCHANGED <<config, isChanged, state, faults, voltage, lastingVars, twice>>

\* GetSolenoidState, GetBatteryVoltage, GetFaults, GetConfig, GetTimer, ...
Get == UNCHANGED <<ramVars, lastingVars, twice>>

\* handleCommand, for all commands but PersistConfig.
Execute(command) ==
  CASE command.name = "SetSolenoidState" -> SetSolenoidState(command.arg)
    [] command.name = "ClearFaults" -> ClearFaults
    [] command.name = "GetBatteryRaw" -> GetBatteryRaw
    [] command.name = "SetConfig" -> SetConfig(command.arg)
    [] command.name = "ApplyRfConfig" -> ApplyRfConfig
    [] command.name = "GetSensorValue" -> GetSensorValue(command.arg)
    [] command.name \in {"GetSignalStrength", "Get"} -> Get

------------------------------------------------------------------------------
(* The loop *)

\* Mutant: what was read is copied before its CRC is checked.
LoadConfig_BeforeCheck(other) ==
  /\ config' = eeprom
  /\ isChanged' = (isChanged /\ eeprom = Corrupt)
  /\ twice' = FALSE
  /\ ApplyRf(Stored, other)

\* config.load and rfModule.applyConfig, in setup() and after a timeout.
LoadConfig(other) ==
  /\ config' = Stored
  /\ isChanged' = (isChanged /\ eeprom = Corrupt)
  /\ twice' = FALSE
  /\ ApplyRf(Stored, other \cup (IF eeprom = Corrupt
                                   THEN {"ConfigReadFailed"} ELSE {}))

Setup ==
  /\ pc = "boot"
  /\ pc' = "top"
  /\ LoadConfig(faults)
  /\ serial' = [serial EXCEPT !.on = TRUE]
  /\ rfAwake' = TRUE
  /\ UNCHANGED <<handle, todo, state, voltage, sensor, eeprom, open, dud,
                 dataPending, air, packets, missed, clockVars, restarts>>

\* RemoteUnitBattery::update.  The interval between readings is left open, "low"
\* is below every threshold, and that a voltage which is too high is a fault,
\* too, is left out.
UpdateBattery ==
  /\ \/ voltage' \in {"low", "ok"}
     \/ voltage # "none" /\ voltage' = voltage
  /\ faults' = faults \cup (IF voltage' = "low" THEN {"BatteryVoltageError"}
                                               ELSE {})

\* intervalCounts of the shortest interval, and whether one may be over.
SensorInterval == 64
SensorDue == {FALSE, counts > SensorInterval}

\* RemoteUnitSensor::update: switched on at one pass, as scheduled or when the
\* interval is over, and read at the next.
UpdateSensor ==
  \E due \in SensorDue :
    sensor' = IF sensor.pending
                THEN [pending |-> FALSE, scheduled |-> sensor.scheduled,
                      unread |-> TRUE]
                ELSE [pending |-> sensor.scheduled \/ due, scheduled |-> FALSE,
                      unread |-> sensor.unread]

Top ==
  /\ pc = "top"
  /\ handle' = dataPending
  /\ \/ /\ dataPending
        /\ pc' = "receive"
        /\ rfAwake' = TRUE
        /\ serial' = [serial EXCEPT !.on = TRUE]
        /\ UNCHANGED ramVars
     \/ /\ ~dataPending
        /\ pc' = "timeout"
        /\ UpdateBattery
        /\ UpdateSensor
        /\ UNCHANGED <<config, isChanged, state, rfAwake, serial>>
  /\ ticks' = 0
  /\ UNCHANGED <<todo, lastingVars, dataPending, air, packets, missed, counts,
                 last, silence, torn, restarts, twice>>

\* receivePacket and the checks of handlePacket.  It waits long enough for an
\* announced packet; without one it gives up.  Of the packets that are not
\* executed, those in error are answered and none counts as communication.
Receive ==
  /\ pc = "receive"
  /\ \/ /\ serial.input # <<>>
        /\ serial' = [serial EXCEPT !.input = Tail(@)]
        /\ LET packet == Head(serial.input).data
           IN  IF packet.valid
                 THEN pc' = "execute" /\ todo' = packet.commands
                 ELSE pc' = "timeout" /\ todo' = <<>>
     \/ /\ serial.input = <<>> /\ air = NoPacket
        /\ pc' = "timeout"
        /\ UNCHANGED <<serial, todo>>
  /\ UNCHANGED <<handle, ramVars, lastingVars, dataPending, rfAwake, air,
                 packets, missed, clockVars, restarts, twice>>

\* One command of the packet.  When its response does not fit, nothing is
\* sent, but the commands before it have been executed.
ExecuteCommand ==
  /\ pc = "execute" /\ todo # <<>>
  /\ LET command == Head(todo)
     IN  \/ /\ command.name = "TooLarge"
            /\ pc' = "timeout" /\ todo' = <<>>
            /\ UNCHANGED <<ramVars, lastingVars, twice>>
         \/ /\ command.name = "PersistConfig" /\ isChanged
            /\ eeprom' = Corrupt
            /\ pc' = "persist" /\ todo' = todo
            /\ UNCHANGED <<ramVars, rf, open, dud, twice>>
         \/ /\ command.name = "PersistConfig" /\ ~isChanged
            /\ pc' = pc /\ todo' = Tail(todo)
            /\ UNCHANGED <<ramVars, lastingVars, twice>>
         \/ /\ command.name \notin {"TooLarge", "PersistConfig"}
            /\ Execute(command)
            /\ pc' = pc /\ todo' = Tail(todo)
  /\ IF Head(todo).name \in {"ApplyRfConfig", "GetSignalStrength"}
       THEN AskRfModule ELSE UNCHANGED portVars
  /\ UNCHANGED <<handle, dataPending, packets, clockVars, restarts>>

\* The CRC is written last.
FinishPersist ==
  /\ pc = "persist"
  /\ eeprom' = config
  /\ isChanged' = FALSE
  /\ twice' = FALSE
  /\ pc' = "execute" /\ todo' = Tail(todo)
  /\ UNCHANGED <<handle, config, state, faults, voltage, sensor, rf, open, dud,
                 radioVars, clockVars, restarts>>

\* The values a read of the counter can return: 32 bits are not read at once,
\* so a tick in between leaves bytes of the old and of the new value.
Reading(before, after) ==
  {before, after,
   (before \div Byte) * Byte + (after % Byte),
   (after \div Byte) * Byte + (before % Byte)}

\* The watchdog ticks, MaxTicks times at most in a pass of the loop.
Tick ==
  /\ counts < MaxCounts /\ counts' = counts + 1
  /\ \/ pc = "asleep" /\ ticks' = 0
     \/ pc # "asleep" /\ ticks < MaxTicks /\ ticks' = ticks + 1

\* Reads counts as `value`, which is to be what it says; the watchdog may tick
\* meanwhile.
ReadCounts(value, what) ==
  \/ value = counts /\ UNCHANGED <<counts, ticks>> /\ torn' = torn \ {what}
  \/ /\ Tick
     /\ torn' = IF value \in {counts, counts'} THEN torn \ {what}
                                               ELSE torn \cup {what}

\* The response is written to the serial port, and if that succeeds, it counts
\* as communication.
Respond ==
  /\ pc = "execute" /\ todo = <<>>
  /\ pc' = "timeout"
  /\ \/ \E value \in Reading(counts, counts + 1) :
          /\ ReadCounts(value, "last")
          /\ last' = value
          /\ silence' = IF value = counts THEN counts' - counts ELSE 0
     \/ UNCHANGED clockVars
  /\ UNCHANGED <<handle, todo, ramVars, lastingVars, radioVars, restarts,
                 twice>>

\* Mutant: at the timeout, not after it.
Expired_AtTimeout(value) == (value - last) % CountRange >= config.timeout

\* Mutant: a byte of the difference.
Expired_Byte(value) == (value - last) % Byte > config.timeout

\* Unsigned difference.
Expired(value) == (value - last) % CountRange > config.timeout

\* No successful communication for the configured timeout: the configuration
\* that was not saved is dropped and the valves are shut.
Revert ==
  LET other == faults \cup (IF state.on # {} THEN {"SolenoidTimeoutOccurred"}
                                            ELSE {})
  IN  /\ IF isChanged
           THEN LoadConfig(other) /\ AskRfModule
           ELSE faults' = other /\ UNCHANGED <<config, isChanged, rf, twice, portVars>>
      /\ IF state.on # {} THEN Drive(Closed) ELSE UNCHANGED <<state, open, dud>>

CheckTimeout ==
  /\ pc = "timeout"
  /\ pc' = IF handle THEN "settle" ELSE "check"
  /\ \E value \in Reading(counts, counts + 1) :
       /\ ReadCounts(value, "check")
       /\ silence' = IF counts' = counts THEN silence ELSE silence + 1
       /\ IF Expired(value) THEN Revert
            ELSE UNCHANGED <<config, isChanged, state, faults, rf, open, dud,
                             twice, portVars>>
  /\ UNCHANGED <<handle, todo, last, voltage, sensor, eeprom, dataPending,
                 packets, restarts>>

\* Mutant: the flag stays set after a packet.
Settle_Keeps ==
  /\ pc = "settle"
  /\ pc' = "check"
  /\ UNCHANGED <<handle, todo, ramVars, lastingVars, radioVars, clockVars,
                 restarts, twice>>

\* After a packet: what was announced meanwhile is forgotten unless it is in
\* the serial buffer by now.
Settle ==
  /\ pc = "settle"
  /\ pc' = "check"
  /\ dataPending' = (serial.input # <<>>)
  /\ UNCHANGED <<handle, todo, ramVars, lastingVars, rfAwake, serial, air,
                 packets, missed, clockVars, restarts, twice>>

\* Serial.end() discards what was received.
CheckPending ==
  /\ pc = "check"
  /\ \/ dataPending /\ pc' = "top" /\ UNCHANGED <<serial, missed>>
     \/ /\ ~dataPending
        /\ pc' = "sleeping"
        /\ serial' = SerialOff
        /\ missed' = missed \cup {m.heard : m \in Range(serial.input)}
  /\ UNCHANGED <<handle, todo, ramVars, lastingVars, dataPending, rfAwake, air,
                 packets, clockVars, restarts, twice>>

\* sleep(): an interrupt between the check above and here does not prevent it.
Sleep ==
  /\ pc = "sleeping"
  /\ pc' = "asleep"
  /\ rfAwake' = FALSE
  /\ UNCHANGED <<handle, todo, ramVars, lastingVars, dataPending, serial, air,
                 packets, missed, clockVars, restarts, twice>>

------------------------------------------------------------------------------
(* Interrupts, the RF module, the power supply *)

\* Mutant: the interrupt of the RF module does not wake the loop.
Woken_Later == pc

\* An interrupt wakes the processor, and loop() runs again.
Woken == IF pc = "asleep" THEN "top" ELSE pc

\* handleRfModuleInterrupt: the RF module has received a packet.
RfInterrupt(packet) ==
  /\ pc # "boot" /\ air = NoPacket /\ packets < MaxPackets
  /\ dataPending' = TRUE
  /\ rfAwake' = TRUE
  /\ air' = [data |-> packet, heard |-> pc]
  /\ packets' = packets + 1
  /\ pc' = Woken
  /\ UNCHANGED <<handle, todo, ramVars, lastingVars, serial, missed, clockVars,
                 restarts, twice>>

\* The RF module writes the packet to the serial port: not before the loop
\* has had the time to get from waking up to Serial.begin, and packets come
\* one at a time.
Output ==
  /\ air # NoPacket /\ pc # "top" /\ serial.input = <<>>
  /\ air' = NoPacket
  /\ IF serial.on /\ rfAwake
       THEN serial' = [serial EXCEPT !.input = <<air>>] /\ missed' = missed
       ELSE serial' = serial /\ missed' = missed \cup {air.heard}
  /\ UNCHANGED <<loopVars, ramVars, lastingVars, dataPending, rfAwake, packets,
                 clockVars, restarts, twice>>

\* WDT_vect.  A pass of the loop takes seconds, a tick 8 of them.
Watchdog ==
  /\ pc # "boot"
  /\ Tick
  /\ silence' = silence + 1
  /\ pc' = Woken
  /\ UNCHANGED <<handle, todo, last, torn, ramVars, lastingVars, radioVars,
                 restarts, twice>>

\* The memory of a unit that has just been switched on, and of one whose
\* power was interrupted: globals and constructors.
PowerLoss ==
  /\ restarts < MaxRestarts /\ restarts' = restarts + 1
  /\ pc' = "boot" /\ handle' = FALSE /\ todo' = <<>> /\ dataPending' = FALSE
  /\ counts' = 0 /\ last' = 0 /\ config' = Default /\ isChanged' = TRUE
  /\ state' = Unknown /\ faults' = {} /\ voltage' = "none"
  /\ sensor' = NoReading
  /\ rfAwake' = FALSE /\ serial' = SerialOff /\ air' = NoPacket
  /\ silence' = 0 /\ torn' = {} /\ ticks' = 0 /\ twice' = FALSE
  /\ UNCHANGED <<lastingVars, packets, missed>>

------------------------------------------------------------------------------
\* A unit as it is built: a blank EEPROM, closed valves.
Init ==
  /\ pc = "boot" /\ handle = FALSE /\ todo = <<>> /\ dataPending = FALSE
  /\ counts = 0 /\ last = 0 /\ config = Default /\ isChanged = TRUE
  /\ state = Unknown /\ faults = {} /\ voltage = "none"
  /\ sensor = NoReading
  /\ rfAwake = FALSE /\ serial = SerialOff /\ air = NoPacket
  /\ silence = 0 /\ torn = {} /\ ticks = 0 /\ twice = FALSE
  /\ eeprom = Corrupt /\ rf = Default.rf /\ open = {} /\ dud = {}
  /\ packets = 0 /\ restarts = 0 /\ missed = {}

Loop ==
  \/ Setup \/ Top \/ Receive \/ ExecuteCommand \/ FinishPersist \/ Respond
  \/ CheckTimeout \/ Settle \/ CheckPending \/ Sleep

Next ==
  \/ Loop
  \/ \E packet \in Packet : RfInterrupt(packet)
  \/ Output \/ Watchdog \/ PowerLoss

Spec == Init /\ [][Next]_vars

\* The processor runs, and the RF module writes what it has announced.
FairSpec == Spec /\ WF_vars(Loop) /\ WF_vars(Output)

------------------------------------------------------------------------------
(* Properties *)

TypeOK ==
  /\ pc \in Place
  /\ handle \in BOOLEAN /\ dataPending \in BOOLEAN /\ isChanged \in BOOLEAN
  /\ rfAwake \in BOOLEAN /\ twice \in BOOLEAN
  /\ counts \in Nat /\ last \in Nat /\ silence \in Nat /\ ticks \in Nat
  /\ packets \in Nat /\ restarts \in Nat
  /\ config \in Config /\ eeprom \in Config \cup {Corrupt} /\ rf \in Nat
  /\ voltage \in {"none", "low", "ok"}
  /\ sensor \in [pending : BOOLEAN, scheduled : BOOLEAN, unread : BOOLEAN]
  /\ state \in SolenoidState /\ faults \subseteq Fault
  /\ serial \in [on : BOOLEAN, input : Seq(Heard)]
  /\ air \in Heard \cup {NoPacket}
  /\ todo \in Seq(Command) /\ (pc = "persist" => todo # <<>>)
  /\ torn \subseteq {"last", "check"}
  /\ open \subseteq Valve /\ dud \subseteq Valve

\* The state byte is what the controller reports as the position of the
\* valves.  Unless it carries the force flag, it is the truth for every valve
\* that followed its last pulse, also across a loss of power, which the
\* valves do not notice (solenoids.cpp, setState).
StateIsTruth == ~state.force => \A v \in Valve \ dud : v \in open <=> v \in state.on

\* A unit does not go to sleep with valves open when it has been told nothing
\* for longer than the communication timeout (main.cpp, "Ensure valves are
\* shut off").  The slack are the ticks of the pass that let it sleep.  Two
\* exceptions: a torn read at the check can cost a pass, and one that was kept
\* as the last communication makes every check wrong, late ones too, until
\* the next response; and a unit that has restarted with open valves and was
\* not told what to do with them does not know of them.
Expiry == config.timeout + MaxTicks
OpenValvesExpire ==
  pc = "asleep" /\ open \ dud # {} /\ ~state.force /\ torn = {}
    => silence <= Expiry

\* Without communication for the timeout, a configuration that was not saved
\* is dropped, lest a unit is lost to a wrong RF configuration; but not when
\* the same configuration was set twice, which clears isChanged, nor when the
\* counter was not read as what it was.
RevertsUnsaved ==
  pc = "asleep" /\ silence > Expiry /\ torn = {}
    => config = Stored \/ twice

\* A packet announced to a sleeping unit is always read: those that get lost
\* were announced while it was awake.
AsleepHears == "asleep" \notin missed

\* Valves close on a command, or when there really was no communication for
\* the timeout (main.cpp, "No successful communication received for the
\* configured timeout"), as long as no read of the counter was torn.
ShutOnly ==
  open' = open \/ pc = "execute" \/ silence' > config.timeout \/ torn' # {}
ClosesOnlyWhenSilent == [][ShutOnly]_vars

\* The unit always gets back to sleep, whatever it receives.
SleepsAgain == []<>(pc = "asleep")
=============================================================================
