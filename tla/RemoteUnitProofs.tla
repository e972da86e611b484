--------------------------- MODULE RemoteUnitProofs ---------------------------
(***************************************************************************)
(* Proofs about RemoteUnit for every number of valves, every set of        *)
(* configurations and packets, and counters of every width.                *)
(***************************************************************************)
EXTENDS RemoteUnit, SolenoidValvesProofs, TLAPS

------------------------------------------------------------------------------
(* The valves *)

LEMMA DriveType ==
  ASSUME TypeOK, NEW asked \in SolenoidState, Drive(asked)
  PROVE  state' \in SolenoidState /\ open' \subseteq Valve /\ dud' \subseteq Valve
<1>1. PICK fail \in SUBSET Pulsed(state, asked) :
        /\ state' = Driven(state, asked)
        /\ open' = (open \cup (TurnOn(state, asked) \ fail))
                   \ (TurnOff(state, asked) \ fail)
        /\ dud' = (dud \ Pulsed(state, asked)) \cup fail
  BY DEF Drive
<1>2. Pulsed(state, asked) \subseteq Valve /\ TurnOn(state, asked) \subseteq Valve
  BY DEF TypeOK, Pulsed, TurnOn, TurnOff, AssumedOn, SolenoidState
<1> QED
  BY <1>1, <1>2, DrivenType DEF TypeOK

\* A pulse leaves every valve where the state says, or else it is a dud.
LEMMA DriveTruth ==
  ASSUME TypeOK, StateIsTruth, NEW asked \in SolenoidState, Drive(asked)
  PROVE  StateIsTruth'
<1>1. PICK fail \in SUBSET Pulsed(state, asked) :
        /\ state' = Driven(state, asked)
        /\ open' = (open \cup (TurnOn(state, asked) \ fail))
                   \ (TurnOff(state, asked) \ fail)
        /\ dud' = (dud \ Pulsed(state, asked)) \cup fail
  BY DEF Drive
<1>2. state \in SolenoidState
  BY DEF TypeOK
<1> SUFFICES ASSUME NEW v \in Valve, v \notin dud'
             PROVE  v \in open' <=> v \in state'.on
  BY DEF StateIsTruth
<1>3. v \notin fail /\ state'.on = asked.on
  BY <1>1, <1>2, DrivenType
<1>4. CASE v \in Pulsed(state, asked)
  BY <1>1, <1>2, <1>3, <1>4 DEF Pulsed, TurnOn, TurnOff, AssumedOn, SolenoidState
<1>5. CASE v \notin Pulsed(state, asked)
  <2>1. ~state.force /\ (v \in state.on <=> v \in asked.on)
    BY <1>2, <1>5, NotPulsed
  <2>2. v \in open <=> v \in state.on
    BY <1>1, <1>5, <2>1 DEF StateIsTruth
  <2> QED
    BY <1>1, <1>3, <1>5, <2>1, <2>2 DEF Pulsed
<1> QED
  BY <1>4, <1>5

------------------------------------------------------------------------------
(* Type correctness, by groups of variables *)

LoopType ==
  /\ pc \in Place /\ handle \in BOOLEAN
  /\ todo \in Seq(Command) /\ (pc = "persist" => todo # <<>>)
RamType ==
  /\ config \in Config /\ isChanged \in BOOLEAN /\ twice \in BOOLEAN
  /\ state \in SolenoidState /\ faults \subseteq Fault
  /\ voltage \in {"none", "low", "ok"}
  /\ sensor \in [pending : BOOLEAN, scheduled : BOOLEAN, unread : BOOLEAN]
LastingType ==
  /\ eeprom \in Config \cup {Corrupt} /\ rf \in Nat
  /\ open \subseteq Valve /\ dud \subseteq Valve
RadioType ==
  /\ dataPending \in BOOLEAN /\ rfAwake \in BOOLEAN
  /\ serial \in [on : BOOLEAN, input : Seq(Heard)]
  /\ air \in Heard \cup {NoPacket} /\ packets \in Nat
ClockType ==
  /\ counts \in Nat /\ last \in Nat /\ silence \in Nat /\ ticks \in Nat
  /\ torn \subseteq {"last", "check"}

LEMMA TypeGroups ==
  TypeOK <=> /\ LoopType /\ RamType /\ LastingType /\ RadioType /\ ClockType
             /\ restarts \in Nat
BY DEF TypeOK, LoopType, RamType, LastingType, RadioType, ClockType

LEMMA StoredType == ASSUME TypeOK PROVE Stored \in Config /\ Stored.rf \in Nat
BY UnitAssumption DEF TypeOK, Stored

LEMMA ApplyRfType ==
  ASSUME TypeOK, NEW c \in Config, NEW other \in SUBSET Fault, ApplyRf(c, other)
  PROVE  rf' \in Nat /\ faults' \subseteq Fault
BY UnitAssumption DEF TypeOK, ApplyRf, Fault

LEMMA LoadConfigType ==
  ASSUME TypeOK, NEW other \in SUBSET Fault, LoadConfig(other)
  PROVE  /\ config' \in Config /\ isChanged' \in BOOLEAN /\ twice' \in BOOLEAN
         /\ rf' \in Nat /\ faults' \subseteq Fault
<1>1. config' \in Config
  BY StoredType DEF LoadConfig
<1>2. isChanged' \in BOOLEAN
  BY DEF LoadConfig
<1>3. twice' \in BOOLEAN
  BY Zenon DEF LoadConfig
<1> DEFINE all == other \cup (IF eeprom = Corrupt THEN {"ConfigReadFailed"} ELSE {})
<1>4. all \in SUBSET Fault
  BY DEF Fault
<1>5. ApplyRf(Stored, all)
  BY DEF LoadConfig
<1> HIDE DEF all
<1> QED
  BY <1>1, <1>2, <1>3, <1>4, <1>5, StoredType, ApplyRfType

LEMMA AskRfModuleType ==
  ASSUME TypeOK, AskRfModule, UNCHANGED <<dataPending, packets>>
  PROVE  RadioType'
<1>1. serial' \in [on : BOOLEAN, input : Seq(Heard)]
  BY DEF AskRfModule
<1>2. rfAwake' \in BOOLEAN
  BY Zenon DEF AskRfModule
<1> QED
  BY <1>1, <1>2 DEF AskRfModule, TypeOK, RadioType

LEMMA SetSolenoidStateType ==
  ASSUME TypeOK, NEW asked \in SolenoidState, SetSolenoidState(asked)
  PROVE  RamType' /\ LastingType'
<1> DEFINE driven == IF Refused(asked) THEN Closed ELSE asked
<1>1. driven \in SolenoidState /\ Drive(driven)
  BY ClosedType DEF SetSolenoidState
<1>2. faults' \subseteq Fault
  BY DEF SetSolenoidState, TypeOK, Fault
<1>3. UNCHANGED <<config, isChanged, voltage, sensor, eeprom, rf, twice>>
  BY DEF SetSolenoidState
<1> HIDE DEF driven
<1>4. state' \in SolenoidState /\ open' \subseteq Valve /\ dud' \subseteq Valve
  BY <1>1, DriveType
<1> QED
  BY <1>2, <1>3, <1>4 DEF TypeOK, RamType, LastingType

LEMMA ExecuteType ==
  ASSUME TypeOK, NEW command \in Command,
         command.name \notin {"TooLarge", "PersistConfig"}, Execute(command)
  PROVE  RamType' /\ LastingType'
<1>0. /\ command.name \in {"SetSolenoidState", "ClearFaults", "GetBatteryRaw",
                          "SetConfig", "ApplyRfConfig", "GetSensorValue",
                          "GetSignalStrength", "Get"}
      /\ command.name = "SetSolenoidState" => command.arg \in SolenoidState
      /\ command.name = "SetConfig" => command.arg \in Config
      /\ command.name = "GetSensorValue" => command.arg \in BOOLEAN
  BY UnitAssumption
<1>1. CASE command.name = "SetSolenoidState"
  BY <1>0, <1>1, SetSolenoidStateType DEF Execute
<1>2. CASE command.name = "ClearFaults"
  <2>1. ClearFaults
    BY <1>2 DEF Execute
  <2> QED
    BY <2>1 DEF ClearFaults, TypeOK, RamType, LastingType, lastingVars
<1>3. CASE command.name = "GetBatteryRaw"
  <2>1. GetBatteryRaw
    BY <1>3 DEF Execute
  <2> QED
    BY <2>1 DEF GetBatteryRaw, TypeOK, RamType, LastingType, lastingVars
<1>4. CASE command.name = "SetConfig"
  <2>1. SetConfig(command.arg)
    BY <1>4 DEF Execute
  <2>2. isChanged' \in BOOLEAN /\ twice' \in BOOLEAN
    BY <2>1 DEF SetConfig
  <2> QED
    BY <1>0, <1>4, <2>1, <2>2
    DEF SetConfig, TypeOK, RamType, LastingType, lastingVars
<1>5. CASE command.name = "ApplyRfConfig"
  <2>1. ApplyRfConfig
    BY <1>5 DEF Execute
  <2>2. rf' \in Nat /\ faults' \subseteq Fault
    BY <2>1, ApplyRfType DEF ApplyRfConfig, TypeOK
  <2> QED
    BY <2>1, <2>2 DEF ApplyRfConfig, TypeOK, RamType, LastingType
<1>6. CASE command.name = "GetSensorValue"
  <2>1. GetSensorValue(command.arg)
    BY <1>6 DEF Execute
  <2>2. sensor' \in [pending : BOOLEAN, scheduled : BOOLEAN, unread : BOOLEAN]
    <3>1. (sensor.scheduled \/ command.arg) \in BOOLEAN
      OBVIOUS
    <3>2. FALSE \in BOOLEAN /\ sensor.pending \in BOOLEAN
      BY DEF TypeOK
    <3> QED
      BY <2>1, <3>1, <3>2 DEF GetSensorValue
  <2> QED
    BY <2>1, <2>2 DEF GetSensorValue, TypeOK, RamType, LastingType, lastingVars
<1>7. CASE command.name \in {"GetSignalStrength", "Get"}
  <2>1. Get
    BY <1>7 DEF Execute
  <2> QED
    BY <2>1 DEF Get, TypeOK, RamType, LastingType, ramVars, lastingVars
<1> QED
  BY <1>0, <1>1, <1>2, <1>3, <1>4, <1>5, <1>6, <1>7

LEMMA RevertType ==
  ASSUME TypeOK, Revert, UNCHANGED <<voltage, sensor, eeprom>>
  PROVE  RamType' /\ LastingType'
<1> DEFINE other == faults \cup (IF state.on # {} THEN {"SolenoidTimeoutOccurred"}
                                                ELSE {})
<1>1. other \in SUBSET Fault
  BY DEF TypeOK, Fault
<1>2. \/ LoadConfig(other)
      \/ faults' = other /\ UNCHANGED <<config, isChanged, rf, twice>>
  BY DEF Revert
<1>3. Drive(Closed) \/ UNCHANGED <<state, open, dud>>
  BY DEF Revert
<1> HIDE DEF other
<1>4. /\ config' \in Config /\ isChanged' \in BOOLEAN /\ twice' \in BOOLEAN
      /\ rf' \in Nat /\ faults' \subseteq Fault
  BY <1>1, <1>2, LoadConfigType DEF TypeOK
<1>5. state' \in SolenoidState /\ open' \subseteq Valve /\ dud' \subseteq Valve
  BY <1>3, ClosedType, DriveType DEF TypeOK
<1> QED
  BY <1>4, <1>5 DEF TypeOK, RamType, LastingType

LEMMA ReadingType ==
  ASSUME NEW before \in Nat, NEW after \in Nat
  PROVE  Reading(before, after) \subseteq Nat
<1>1. Byte \in Nat /\ Byte > 0
  BY UnitAssumption
<1>2. ASSUME NEW m \in Nat, NEW n \in Nat
      PROVE  (m \div Byte) * Byte + (n % Byte) \in Nat
  <2>1. m \div Byte \in Nat /\ n % Byte \in Nat
    BY <1>1
  <2>2. \A p, q \in Nat : p * Byte + q \in Nat
    BY <1>1
  <2> QED
    BY <2>1, <2>2
<1> QED
  BY <1>2 DEF Reading

LEMMA ReadCountsType ==
  ASSUME TypeOK, NEW value \in Reading(counts, counts + 1),
         NEW what \in {"last", "check"}, ReadCounts(value, what)
  PROVE  /\ value \in Nat /\ counts' \in Nat /\ ticks' \in Nat
         /\ torn' \subseteq {"last", "check"}
         /\ counts' \in {counts, counts + 1}
<1>1. value \in Nat
  BY ReadingType DEF TypeOK
<1>2. CASE UNCHANGED <<counts, ticks>> /\ torn' = torn \ {what}
  BY <1>1, <1>2 DEF TypeOK
<1>3. CASE Tick /\ torn' = IF value \in {counts, counts'} THEN torn \ {what}
                                                       ELSE torn \cup {what}
  BY <1>1, <1>3 DEF TypeOK, Tick
<1> QED
  BY <1>2, <1>3 DEF ReadCounts

LEMMA UnitInitType == ASSUME Init PROVE TypeOK
<1>1. LoopType /\ ClockType /\ restarts \in Nat
  <2>1. handle \in BOOLEAN
    BY Zenon DEF Init
  <2> QED
    BY <2>1 DEF Init, LoopType, ClockType, Place
<1>2. RamType /\ LastingType
  <2>1. isChanged \in BOOLEAN /\ twice \in BOOLEAN
    BY Zenon DEF Init
  <2>2. NoReading \in [pending : BOOLEAN, scheduled : BOOLEAN, unread : BOOLEAN]
    BY DEF NoReading
  <2>3. Default \in Config /\ Default.rf \in Nat
    BY UnitAssumption
  <2> QED
    BY <2>1, <2>2, <2>3, ClosedType DEF Init, RamType, LastingType, Fault
<1>3. RadioType
  <2>1. dataPending \in BOOLEAN /\ rfAwake \in BOOLEAN
    BY Zenon DEF Init
  <2>2. SerialOff \in [on : BOOLEAN, input : Seq(Heard)]
    BY DEF SerialOff
  <2> QED
    BY <2>1, <2>2 DEF Init, RadioType
<1> QED
  BY <1>1, <1>2, <1>3, TypeGroups

LEMMA UnitNextType == ASSUME TypeOK, [Next]_vars PROVE TypeOK'
<1> SUFFICES /\ LoopType' /\ RamType' /\ LastingType' /\ RadioType' /\ ClockType'
             /\ restarts' \in Nat
  BY TypeGroups DEF TypeOK, LoopType, RamType, LastingType, RadioType, ClockType
<1> USE DEF TypeOK
<1>1. CASE Setup
  <2>1. LoadConfig(faults) /\ UNCHANGED <<state, voltage, sensor, eeprom, open, dud>>
    BY <1>1 DEF Setup
  <2>2. RamType' /\ LastingType'
    BY <2>1, LoadConfigType DEF RamType, LastingType
  <2>3. RadioType'
    <3>1. serial' \in [on : BOOLEAN, input : Seq(Heard)] /\ rfAwake' \in BOOLEAN
      BY <1>1, Zenon DEF Setup
    <3> QED
      BY <1>1, <3>1 DEF Setup, RadioType
  <2>4. LoopType' /\ ClockType' /\ restarts' \in Nat
    BY <1>1 DEF Setup, LoopType, ClockType, clockVars, Place
  <2> QED
    BY <2>2, <2>3, <2>4
<1>2. CASE Top
  <2>1. RamType' /\ LastingType'
    <3>1. CASE UNCHANGED ramVars
      BY <1>2, <3>1 DEF Top, RamType, LastingType, ramVars, lastingVars
    <3>2. CASE UpdateBattery /\ UpdateSensor /\ UNCHANGED <<config, isChanged, state>>
      <4>1. faults' \subseteq Fault /\ voltage' \in {"none", "low", "ok"}
        BY <3>2 DEF UpdateBattery, Fault
      <4>2. sensor' \in [pending : BOOLEAN, scheduled : BOOLEAN, unread : BOOLEAN]
        <5>1. PICK due \in BOOLEAN :
                sensor' = IF sensor.pending
                            THEN [pending |-> FALSE, scheduled |-> sensor.scheduled,
                                  unread |-> TRUE]
                            ELSE [pending |-> sensor.scheduled \/ due,
                                  scheduled |-> FALSE, unread |-> sensor.unread]
          <6>1. SensorDue \subseteq BOOLEAN
            BY DEF SensorDue
          <6> QED
            BY <3>2, <6>1 DEF UpdateSensor
        <5>2. /\ sensor.pending \in BOOLEAN /\ sensor.scheduled \in BOOLEAN
              /\ sensor.unread \in BOOLEAN /\ (sensor.scheduled \/ due) \in BOOLEAN
          OBVIOUS
        <5> QED
          BY <5>1, <5>2
      <4> QED
        BY <1>2, <3>2, <4>1, <4>2 DEF Top, RamType, LastingType, lastingVars
    <3> QED
      BY <1>2, <3>1, <3>2 DEF Top
  <2>2. RadioType'
    <3>1. rfAwake' \in BOOLEAN
      BY <1>2, Zenon DEF Top
    <3>2. serial' \in [on : BOOLEAN, input : Seq(Heard)]
      BY <1>2, Zenon DEF Top
    <3> QED
      BY <1>2, <3>1, <3>2 DEF Top, RadioType
  <2>3. LoopType' /\ ClockType' /\ restarts' \in Nat
    BY <1>2 DEF Top, LoopType, ClockType, Place
  <2> QED
    BY <2>1, <2>2, <2>3
<1>3. CASE Receive
  <2>1. RamType' /\ LastingType' /\ ClockType' /\ restarts' \in Nat
    BY <1>3 DEF Receive, RamType, LastingType, ClockType, ramVars, lastingVars,
                clockVars
  <2>2. CASE serial.input # <<>>
    <3>1. Head(serial.input) \in Heard /\ Tail(serial.input) \in Seq(Heard)
      BY <2>2
    <3>2. serial' \in [on : BOOLEAN, input : Seq(Heard)]
      BY <1>3, <2>2, <3>1 DEF Receive
    <3>3. Head(serial.input).data \in Packet
      BY <3>1 DEF Heard
    <3>4. pc' \in Place /\ todo' \in Seq(Command)
      <4> DEFINE packet == Head(serial.input).data
      <4>1. packet.commands \in Seq(Command) /\ <<>> \in Seq(Command)
        BY <3>3, UnitAssumption
      <4>2. \/ pc' = "execute" /\ todo' = packet.commands
            \/ pc' = "timeout" /\ todo' = <<>>
        BY <1>3, <2>2 DEF Receive
      <4> HIDE DEF packet
      <4> QED
        BY <4>1, <4>2 DEF Place
    <3> QED
      BY <1>3, <2>1, <3>2, <3>4 DEF Receive, LoopType, RadioType
  <2>3. CASE serial.input = <<>>
    BY <1>3, <2>1, <2>3 DEF Receive, LoopType, RadioType, Place
  <2> QED
    BY <2>2, <2>3
<1>4. CASE ExecuteCommand
  <2>1. Head(todo) \in Command /\ Tail(todo) \in Seq(Command)
    BY <1>4 DEF ExecuteCommand
  <2>2. /\ pc' \in Place /\ todo' \in Seq(Command)
        /\ pc' = "persist" => todo' # <<>>
    <3>1. \/ pc' = "timeout" /\ todo' = <<>>
          \/ pc' = "persist" /\ todo' = todo
          \/ pc' = "execute" /\ todo' = Tail(todo)
      BY <1>4 DEF ExecuteCommand
    <3>2. <<>> \in Seq(Command) /\ todo # <<>>
      BY <1>4 DEF ExecuteCommand
    <3> QED
      BY <2>1, <3>1, <3>2 DEF Place
  <2>3. ClockType' /\ restarts' \in Nat /\ handle' \in BOOLEAN
    BY <1>4 DEF ExecuteCommand, ClockType, clockVars
  <2>5. RadioType'
    <3>1. UNCHANGED <<dataPending, packets>> /\ (AskRfModule \/ UNCHANGED portVars)
      BY <1>4 DEF ExecuteCommand
    <3> QED
      BY <3>1, AskRfModuleType DEF RadioType, portVars
  <2>4. RamType' /\ LastingType'
    <3>1. CASE UNCHANGED <<ramVars, lastingVars, twice>>
      <4>1. UNCHANGED ramVars /\ UNCHANGED lastingVars /\ UNCHANGED twice
        BY <3>1
      <4> QED
        BY <4>1 DEF RamType, LastingType, ramVars, lastingVars
    <3>2. CASE eeprom' = Corrupt /\ UNCHANGED <<ramVars, rf, open, dud, twice>>
      <4>1. UNCHANGED ramVars /\ UNCHANGED rf /\ UNCHANGED open /\ UNCHANGED dud
              /\ UNCHANGED twice /\ eeprom' = Corrupt
        BY <3>2
      <4> QED
        BY <4>1 DEF RamType, LastingType, ramVars
    <3>3. CASE Head(todo).name \notin {"TooLarge", "PersistConfig"}
                 /\ Execute(Head(todo))
      BY <2>1, <3>3, ExecuteType
    <3> QED
      BY <1>4, <3>1, <3>2, <3>3 DEF ExecuteCommand
  <2> QED
    BY <2>2, <2>3, <2>4, <2>5 DEF LoopType
<1>5. CASE FinishPersist
  <2>1. isChanged' \in BOOLEAN /\ twice' \in BOOLEAN
    BY <1>5, Zenon DEF FinishPersist
  <2>2. pc' \in Place /\ todo' \in Seq(Command)
    BY <1>5 DEF FinishPersist, Place
  <2> QED
    BY <1>5, <2>1, <2>2
    DEF FinishPersist, LoopType, RamType, LastingType, RadioType, ClockType,
        radioVars, portVars, clockVars
<1>6. CASE Respond
  <2>1. ClockType'
    <3>1. CASE UNCHANGED clockVars
      BY <3>1 DEF clockVars, ClockType
    <3>2. CASE \E value \in Reading(counts, counts + 1) :
                 /\ ReadCounts(value, "last")
                 /\ last' = value
                 /\ silence' = IF value = counts THEN counts' - counts ELSE 0
      BY <3>2, ReadCountsType DEF ClockType
    <3> QED
      BY <1>6, <3>1, <3>2 DEF Respond
  <2> QED
    BY <1>6, <2>1
    DEF Respond, LoopType, RamType, LastingType, RadioType, ramVars, lastingVars,
        radioVars, portVars, Place
<1>7. CASE CheckTimeout
  <2>1. PICK value \in Reading(counts, counts + 1) :
          /\ ReadCounts(value, "check")
          /\ silence' = IF counts' = counts THEN silence ELSE silence + 1
          /\ IF Expired(value) THEN Revert
               ELSE UNCHANGED <<config, isChanged, state, faults, rf, open, dud,
                                twice, portVars>>
    BY <1>7 DEF CheckTimeout
  <2>2. UNCHANGED <<handle, todo, last, voltage, sensor, eeprom, dataPending,
                    packets, restarts>> /\ pc' \in {"settle", "check"}
    BY <1>7 DEF CheckTimeout
  <2>3. ClockType'
    BY <2>1, <2>2, ReadCountsType DEF ClockType
  <2>4. RamType' /\ LastingType'
    BY <2>1, <2>2, RevertType DEF RamType, LastingType
  <2>5. RadioType'
    <3>1. AskRfModule \/ UNCHANGED portVars
      BY <2>1 DEF Revert
    <3> QED
      BY <2>2, <3>1, AskRfModuleType DEF RadioType, portVars
  <2> QED
    BY <2>2, <2>3, <2>4, <2>5 DEF LoopType, Place
<1>8. CASE Settle
  BY <1>8 DEF Settle, LoopType, RamType, LastingType, RadioType, ClockType, Place,
              ramVars, lastingVars, clockVars
<1>9. CASE CheckPending
  <2>1. serial' \in [on : BOOLEAN, input : Seq(Heard)]
    <3>1. SerialOff \in [on : BOOLEAN, input : Seq(Heard)]
      BY DEF SerialOff
    <3> QED
      BY <1>9, <3>1 DEF CheckPending
  <2> QED
    BY <1>9, <2>1
    DEF CheckPending, LoopType, RamType, LastingType, RadioType, ClockType, Place,
        ramVars, lastingVars, clockVars
<1>10. CASE Sleep
  <2>1. rfAwake' \in BOOLEAN
    BY <1>10, Zenon DEF Sleep
  <2> QED
    BY <1>10, <2>1
    DEF Sleep, LoopType, RamType, LastingType, RadioType, ClockType, Place,
        ramVars, lastingVars, clockVars
<1>11. ASSUME NEW packet \in Packet, RfInterrupt(packet)
       PROVE  /\ LoopType' /\ RamType' /\ LastingType' /\ RadioType' /\ ClockType'
              /\ restarts' \in Nat
  <2>1. dataPending' \in BOOLEAN /\ rfAwake' \in BOOLEAN
    BY <1>11, Zenon DEF RfInterrupt
  <2>2. air' \in Heard
    BY <1>11 DEF RfInterrupt, Heard
  <2> QED
    BY <1>11, <2>1, <2>2
    DEF RfInterrupt, Woken, LoopType, RamType, LastingType, RadioType, ClockType,
        Place, ramVars, lastingVars, clockVars
<1>12. CASE Output
  <2>1. air \in Heard
    BY <1>12 DEF Output
  <2>2. serial' \in [on : BOOLEAN, input : Seq(Heard)]
    <3>1. <<air>> \in Seq(Heard)
      BY <2>1
    <3> QED
      BY <1>12, <3>1 DEF Output
  <2> QED
    BY <1>12, <2>2
    DEF Output, LoopType, RamType, LastingType, RadioType, ClockType, loopVars,
        ramVars, lastingVars, clockVars
<1>13. CASE Watchdog
  BY <1>13 DEF Watchdog, Tick, Woken, LoopType, RamType, LastingType, RadioType,
               ClockType, Place, ramVars, lastingVars, radioVars, portVars
<1>14. CASE PowerLoss
  <2>1. /\ handle' \in BOOLEAN /\ dataPending' \in BOOLEAN
        /\ isChanged' \in BOOLEAN /\ rfAwake' \in BOOLEAN /\ twice' \in BOOLEAN
    BY <1>14, Zenon DEF PowerLoss
  <2>2. /\ NoReading \in [pending : BOOLEAN, scheduled : BOOLEAN, unread : BOOLEAN]
        /\ SerialOff \in [on : BOOLEAN, input : Seq(Heard)]
    BY DEF NoReading, SerialOff
  <2>3. Default \in Config
    BY UnitAssumption
  <2>4. LoopType' /\ ClockType' /\ restarts' \in Nat
    BY <1>14, <2>1 DEF PowerLoss, LoopType, ClockType, Place
  <2>5. RamType' /\ LastingType'
    BY <1>14, <2>1, <2>2, <2>3, ClosedType
    DEF PowerLoss, RamType, LastingType, lastingVars, Fault
  <2>6. RadioType'
    BY <1>14, <2>1, <2>2 DEF PowerLoss, RadioType
  <2> QED
    BY <2>4, <2>5, <2>6
<1>15. CASE UNCHANGED vars
  BY <1>15 DEF vars, LoopType, RamType, LastingType, RadioType, ClockType,
               loopVars, ramVars, lastingVars, radioVars, portVars, clockVars
<1> QED
  BY <1>1, <1>2, <1>3, <1>4, <1>5, <1>6, <1>7, <1>8, <1>9, <1>10, <1>11, <1>12,
     <1>13, <1>14, <1>15
  DEF Next, Loop

\* Every variable of a remote unit keeps its type.
THEOREM UnitTypeCorrect == Spec => []TypeOK
BY UnitInitType, UnitNextType, PTL DEF Spec

------------------------------------------------------------------------------
(* The state byte *)

LEMMA TruthUnchanged ==
  ASSUME StateIsTruth, UNCHANGED <<state, open, dud>>
  PROVE  StateIsTruth'
BY DEF StateIsTruth

LEMMA ExecuteTruth ==
  ASSUME TypeOK, StateIsTruth, NEW command \in Command,
         command.name \notin {"TooLarge", "PersistConfig"}, Execute(command)
  PROVE  StateIsTruth'
<1>0. /\ command.name \in {"SetSolenoidState", "ClearFaults", "GetBatteryRaw",
                          "SetConfig", "ApplyRfConfig", "GetSensorValue",
                          "GetSignalStrength", "Get"}
      /\ command.name = "SetSolenoidState" => command.arg \in SolenoidState
  BY UnitAssumption
<1>1. CASE command.name = "SetSolenoidState"
  <2>1. SetSolenoidState(command.arg)
    BY <1>1 DEF Execute
  <2>2. Drive(IF Refused(command.arg) THEN Closed ELSE command.arg)
    BY <2>1 DEF SetSolenoidState
  <2> QED
    BY <1>0, <1>1, <2>2, ClosedType, DriveTruth
<1>2. CASE command.name = "ClearFaults"
  BY <1>2, TruthUnchanged DEF Execute, ClearFaults, lastingVars
<1>3. CASE command.name = "GetBatteryRaw"
  BY <1>3, TruthUnchanged DEF Execute, GetBatteryRaw, lastingVars
<1>4. CASE command.name = "SetConfig"
  BY <1>4, TruthUnchanged DEF Execute, SetConfig, lastingVars
<1>5. CASE command.name = "ApplyRfConfig"
  BY <1>5, TruthUnchanged DEF Execute, ApplyRfConfig
<1>6. CASE command.name = "GetSensorValue"
  BY <1>6, TruthUnchanged DEF Execute, GetSensorValue, lastingVars
<1>7. CASE command.name \in {"GetSignalStrength", "Get"}
  BY <1>7, TruthUnchanged DEF Execute, Get, ramVars, lastingVars
<1> QED
  BY <1>0, <1>1, <1>2, <1>3, <1>4, <1>5, <1>6, <1>7

LEMMA TruthNext ==
  ASSUME TypeOK, StateIsTruth, [Next]_vars
  PROVE  StateIsTruth'
<1>1. CASE Setup
  BY <1>1, TruthUnchanged DEF Setup
<1>2. CASE Top
  BY <1>2, TruthUnchanged DEF Top, ramVars, lastingVars
<1>3. CASE Receive
  BY <1>3, TruthUnchanged DEF Receive, ramVars, lastingVars
<1>4. CASE ExecuteCommand
  <2>1. Head(todo) \in Command
    BY <1>4 DEF ExecuteCommand, TypeOK
  <2>2. CASE UNCHANGED <<ramVars, lastingVars, twice>>
    BY <2>2, TruthUnchanged DEF ramVars, lastingVars
  <2>3. CASE UNCHANGED <<ramVars, rf, open, dud, twice>>
    BY <2>3, TruthUnchanged DEF ramVars
  <2>4. CASE Head(todo).name \notin {"TooLarge", "PersistConfig"}
               /\ Execute(Head(todo))
    BY <2>1, <2>4, ExecuteTruth
  <2> QED
    BY <1>4, <2>2, <2>3, <2>4 DEF ExecuteCommand
<1>5. CASE FinishPersist
  BY <1>5, TruthUnchanged DEF FinishPersist
<1>6. CASE Respond
  BY <1>6, TruthUnchanged DEF Respond, ramVars, lastingVars
<1>7. CASE CheckTimeout
  <2>1. Drive(Closed) \/ UNCHANGED <<state, open, dud>>
    BY <1>7 DEF CheckTimeout, Revert
  <2> QED
    BY <2>1, ClosedType, DriveTruth, TruthUnchanged
<1>8. CASE Settle
  BY <1>8, TruthUnchanged DEF Settle, ramVars, lastingVars
<1>9. CASE CheckPending
  BY <1>9, TruthUnchanged DEF CheckPending, ramVars, lastingVars
<1>10. CASE Sleep
  BY <1>10, TruthUnchanged DEF Sleep, ramVars, lastingVars
<1>11. ASSUME NEW packet \in Packet, RfInterrupt(packet) PROVE StateIsTruth'
  BY <1>11, TruthUnchanged DEF RfInterrupt, ramVars, lastingVars
<1>12. CASE Output
  BY <1>12, TruthUnchanged DEF Output, ramVars, lastingVars
<1>13. CASE Watchdog
  BY <1>13, TruthUnchanged DEF Watchdog, ramVars, lastingVars
<1>14. CASE PowerLoss
  <2>1. state'.force
    BY <1>14 DEF PowerLoss, Unknown
  <2> QED
    BY <2>1 DEF StateIsTruth
<1>15. CASE UNCHANGED vars
  BY <1>15, TruthUnchanged DEF vars, ramVars, lastingVars
<1> QED
  BY <1>1, <1>2, <1>3, <1>4, <1>5, <1>6, <1>7, <1>8, <1>9, <1>10, <1>11, <1>12,
     <1>13, <1>14, <1>15
  DEF Next, Loop

\* The state byte is the truth for every valve that followed its last pulse.
THEOREM StateIsTruthCorrect == Spec => []StateIsTruth
<1>1. Init => StateIsTruth
  BY DEF Init, StateIsTruth, Unknown
<1>2. TypeOK /\ StateIsTruth /\ [Next]_vars => StateIsTruth'
  BY TruthNext
<1> QED
  BY <1>1, <1>2, UnitTypeCorrect, PTL DEF Spec

------------------------------------------------------------------------------
(* Packets announced to a sleeping unit *)

\* The serial port is off and empty while the unit sleeps.  A packet that was
\* announced then is not written to it before the loop has switched it on, and
\* the loop reads it before it goes on.
AirInv ==
  air # NoPacket /\ air.heard = "asleep" =>
    /\ serial.input = <<>>
    /\ \/ pc = "top" /\ dataPending
       \/ pc = "receive" /\ serial.on /\ rfAwake
InputInv ==
  /\ \/ serial.input = <<>>
     \/ \E m \in Heard : serial.input = <<m>> /\ (m.heard = "asleep" => pc = "receive")
  /\ pc \in {"boot", "sleeping", "asleep"} => ~serial.on /\ serial.input = <<>>
HearsInv == AirInv /\ InputInv /\ AsleepHears

\* A step that neither moves the loop nor concerns the radio.
LEMMA HearsUnchanged ==
  ASSUME HearsInv, UNCHANGED <<pc, dataPending, rfAwake, serial, air, missed>>
  PROVE  HearsInv'
BY DEF HearsInv, AirInv, InputInv, AsleepHears

\* A step of the loop outside "top" and "receive", and not to sleep, that does
\* not concern the radio.
LEMMA HearsBusy ==
  ASSUME HearsInv, UNCHANGED <<serial, air, missed>>,
         pc \in {"execute", "persist", "timeout", "settle", "check"},
         pc' \in {"top", "execute", "persist", "timeout", "settle", "check"}
  PROVE  HearsInv'
BY DEF HearsInv, AirInv, InputInv, AsleepHears

\* A question to the RF module: the packets it loses were not announced to a
\* sleeping unit.
LEMMA HearsAsked ==
  ASSUME HearsInv, AskRfModule \/ UNCHANGED portVars,
         pc \in {"execute", "persist", "timeout"},
         pc' \in {"execute", "persist", "timeout", "settle", "check"}
  PROVE  HearsInv'
<1>1. CASE AskRfModule
  <2>1. /\ serial'.input = <<>> /\ air' \in {air, NoPacket}
        /\ missed' = missed \cup
             {m.heard : m \in Range(serial.input) \cup ({air} \ {air'})}
    BY <1>1 DEF AskRfModule
  <2>2. "asleep" \notin {m.heard : m \in Range(serial.input)}
    BY DEF HearsInv, InputInv, Range
  <2>3. air # NoPacket => air.heard # "asleep"
    BY DEF HearsInv, AirInv
  <2>4. AsleepHears'
    BY <2>1, <2>2, <2>3 DEF HearsInv, AsleepHears
  <2> QED
    BY <2>1, <2>3, <2>4 DEF HearsInv, AirInv, InputInv
<1>2. CASE UNCHANGED portVars
  BY <1>2 DEF HearsInv, AirInv, InputInv, AsleepHears, portVars
<1> QED
  BY <1>1, <1>2

LEMMA HearsNext ==
  ASSUME TypeOK, HearsInv, [Next]_vars
  PROVE  HearsInv'
<1> USE DEF HearsInv
<1>1. CASE Setup
  <2>1. /\ pc = "boot" /\ pc' = "top" /\ UNCHANGED air /\ UNCHANGED missed
        /\ serial' = [serial EXCEPT !.on = TRUE]
    BY <1>1 DEF Setup
  <2>2. serial'.input = <<>>
    BY <2>1 DEF InputInv, TypeOK
  <2> QED
    BY <2>1, <2>2 DEF AirInv, InputInv, AsleepHears
<1>2. CASE Top
  <2>1. pc = "top" /\ UNCHANGED air /\ UNCHANGED missed
    BY <1>2 DEF Top
  <2>2. CASE dataPending
    <3>1. pc' = "receive" /\ rfAwake' /\ serial' = [serial EXCEPT !.on = TRUE]
      BY <1>2, <2>2 DEF Top
    <3>2. serial'.on /\ serial'.input = serial.input
      BY <3>1 DEF TypeOK
    <3> QED
      BY <2>1, <3>1, <3>2 DEF AirInv, InputInv, AsleepHears
  <2>3. CASE ~dataPending
    <3>1. pc' = "timeout" /\ UNCHANGED serial
      BY <1>2, <2>3 DEF Top
    <3> QED
      BY <2>1, <2>3, <3>1 DEF AirInv, InputInv, AsleepHears
  <2> QED
    BY <2>2, <2>3
<1>3. CASE Receive
  <2>1. /\ pc = "receive" /\ pc' \in {"execute", "timeout"}
        /\ UNCHANGED air /\ UNCHANGED missed
    BY <1>3 DEF Receive
  <2>2. CASE serial.input # <<>>
    <3>1. serial' = [serial EXCEPT !.input = Tail(@)]
      BY <1>3, <2>2 DEF Receive
    <3>2. serial'.input = <<>>
      BY <2>2, <3>1 DEF InputInv, TypeOK
    <3> QED
      BY <2>1, <2>2, <3>2 DEF AirInv, InputInv, AsleepHears
  <2>3. CASE serial.input = <<>>
    <3>1. air = NoPacket /\ UNCHANGED serial
      BY <1>3, <2>3 DEF Receive
    <3> QED
      BY <2>1, <2>3, <3>1 DEF AirInv, InputInv, AsleepHears
  <2> QED
    BY <2>2, <2>3
<1>4. CASE ExecuteCommand
  <2>1. /\ pc = "execute" /\ pc' \in {"timeout", "persist", "execute"}
        /\ AskRfModule \/ UNCHANGED portVars
    BY <1>4 DEF ExecuteCommand
  <2> QED
    BY <2>1, HearsAsked
<1>5. CASE FinishPersist
  <2>1. pc = "persist" /\ pc' = "execute" /\ UNCHANGED radioVars
    BY <1>5 DEF FinishPersist
  <2> QED
    BY <2>1, HearsBusy DEF radioVars, portVars
<1>6. CASE Respond
  <2>1. pc = "execute" /\ pc' = "timeout" /\ UNCHANGED radioVars
    BY <1>6 DEF Respond
  <2> QED
    BY <2>1, HearsBusy DEF radioVars, portVars
<1>7. CASE CheckTimeout
  <2>1. pc = "timeout" /\ pc' \in {"settle", "check"}
    BY <1>7 DEF CheckTimeout
  <2>2. AskRfModule \/ UNCHANGED portVars
    BY <1>7 DEF CheckTimeout, Revert
  <2> QED
    BY <2>1, <2>2, HearsAsked
<1>8. CASE Settle
  BY <1>8, HearsBusy DEF Settle
<1>9. CASE CheckPending
  <2>1. pc = "check" /\ UNCHANGED air
    BY <1>9 DEF CheckPending
  <2>2. CASE dataPending
    BY <1>9, <2>1, <2>2, HearsBusy DEF CheckPending
  <2>3. CASE ~dataPending
    <3>1. /\ pc' = "sleeping" /\ serial' = SerialOff
          /\ missed' = missed \cup {m.heard : m \in Range(serial.input)}
      BY <1>9, <2>3 DEF CheckPending
    <3>2. "asleep" \notin {m.heard : m \in Range(serial.input)}
      BY <2>1 DEF InputInv, Range
    <3> QED
      BY <2>1, <3>1, <3>2 DEF AirInv, InputInv, AsleepHears, SerialOff
  <2> QED
    BY <2>2, <2>3
<1>10. CASE Sleep
  BY <1>10 DEF Sleep, AirInv, InputInv, AsleepHears
<1>11. ASSUME NEW packet \in Packet, RfInterrupt(packet) PROVE HearsInv'
  <2>1. /\ pc # "boot" /\ pc' = Woken /\ dataPending'
        /\ air' = [data |-> packet, heard |-> pc]
        /\ UNCHANGED serial /\ UNCHANGED missed
    BY <1>11 DEF RfInterrupt
  <2>2. air'.heard = pc
    BY <2>1
  <2>3. CASE pc = "asleep"
    BY <2>1, <2>3 DEF Woken, AirInv, InputInv, AsleepHears
  <2>4. CASE pc # "asleep"
    BY <2>1, <2>2, <2>4 DEF Woken, AirInv, InputInv, AsleepHears
  <2> QED
    BY <2>3, <2>4
<1>12. CASE Output
  <2>1. /\ air # NoPacket /\ pc # "top" /\ serial.input = <<>>
        /\ air' = NoPacket /\ UNCHANGED pc /\ air \in Heard
    BY <1>12 DEF Output, loopVars, TypeOK
  <2>2. CASE serial.on /\ rfAwake
    <3>1. serial' = [serial EXCEPT !.input = <<air>>] /\ missed' = missed
      BY <1>12, <2>2 DEF Output
    <3>2. serial'.input = <<air>>
      BY <3>1 DEF TypeOK
    <3> QED
      BY <2>1, <2>2, <3>1, <3>2 DEF AirInv, InputInv, AsleepHears
  <2>3. CASE ~(serial.on /\ rfAwake)
    <3>1. serial' = serial /\ missed' = missed \cup {air.heard}
      BY <1>12, <2>3 DEF Output
    <3> QED
      BY <2>1, <2>3, <3>1 DEF AirInv, InputInv, AsleepHears
  <2> QED
    BY <2>2, <2>3
<1>13. CASE Watchdog
  <2>1. pc # "boot" /\ pc' = Woken /\ UNCHANGED radioVars
    BY <1>13 DEF Watchdog
  <2> QED
    BY <2>1 DEF Woken, radioVars, portVars, AirInv, InputInv, AsleepHears
<1>14. CASE PowerLoss
  BY <1>14 DEF PowerLoss, SerialOff, AirInv, InputInv, AsleepHears
<1>15. CASE UNCHANGED vars
  BY <1>15, HearsUnchanged DEF vars, loopVars, radioVars, portVars
<1> QED
  BY <1>1, <1>2, <1>3, <1>4, <1>5, <1>6, <1>7, <1>8, <1>9, <1>10, <1>11, <1>12,
     <1>13, <1>14, <1>15
  DEF Next, Loop

\* A packet announced to a sleeping unit is always read.
THEOREM AsleepHearsCorrect == Spec => []AsleepHears
<1>1. Init => HearsInv
  BY DEF Init, SerialOff, HearsInv, AirInv, InputInv, AsleepHears
<1>2. TypeOK /\ HearsInv /\ [Next]_vars => HearsInv'
  BY HearsNext
<1>3. HearsInv => AsleepHears
  BY DEF HearsInv
<1> QED
  BY <1>1, <1>2, <1>3, UnitTypeCorrect, PTL DEF Spec

------------------------------------------------------------------------------
(* The communication timeout *)

\* Unless the read that was kept was torn, the counter says how long the unit
\* has heard nothing, and it does not get as far as to wrap.
ClockInv ==
  /\ counts <= MaxCounts
  /\ "last" \notin torn => last + silence = counts

LEMMA ReadCountsClock ==
  ASSUME TypeOK, ClockInv, NEW value \in Reading(counts, counts + 1),
         NEW what \in {"last", "check"}, ReadCounts(value, what)
  PROVE  /\ counts' \in Nat /\ counts' <= MaxCounts
         /\ counts' = counts \/ counts' = counts + 1
         /\ what \notin torn' => value \in {counts, counts'}
         /\ \A other \in {"last", "check"} :
              other # what => (other \in torn' <=> other \in torn)
<1>1. counts \in Nat /\ counts <= MaxCounts
  BY DEF TypeOK, ClockInv
<1>2. CASE /\ value = counts /\ UNCHANGED <<counts, ticks>>
           /\ torn' = torn \ {what}
  BY <1>1, <1>2
<1>3. CASE /\ Tick
           /\ torn' = IF value \in {counts, counts'} THEN torn \ {what}
                                                     ELSE torn \cup {what}
  <2>1. counts' = counts + 1 /\ counts < MaxCounts
    BY <1>3 DEF Tick
  <2>2. MaxCounts \in Nat
    BY UnitAssumption
  <2> QED
    BY <1>1, <1>3, <2>1, <2>2
<1> QED
  BY <1>2, <1>3 DEF ReadCounts

\* The unsigned difference is the difference, as long as nothing wraps.
LEMMA ExpiredMeans ==
  ASSUME TypeOK, NEW value \in Nat, value < CountRange, last <= value,
         Expired(value)
  PROVE  value - last > config.timeout
<1>1. CountRange \in Nat /\ CountRange > 0
  BY UnitAssumption
<1>2. value - last \in Nat /\ value - last < CountRange
  BY <1>1 DEF TypeOK
<1>3. \A n, r \in Nat : n < r => n % r = n
  OBVIOUS
<1>4. (value - last) % CountRange = value - last
  BY <1>1, <1>2, <1>3
<1> QED
  BY <1>4 DEF Expired

LEMMA SilentFor ==
  ASSUME NEW since \in Nat, NEW later, NEW after \in Nat, NEW value \in Nat,
         NEW timeout \in Nat, later \in Nat,
         since + later = after, value <= after, value - since > timeout
  PROVE  later > timeout
OBVIOUS

LEMMA ClockUnchanged ==
  ASSUME ClockInv, UNCHANGED clockVars, UNCHANGED open
  PROVE  ClockInv' /\ ShutOnly
BY DEF ClockInv, ShutOnly, clockVars

LEMMA ClockNext ==
  ASSUME TypeOK, ClockInv, [Next]_vars
  PROVE  ClockInv' /\ ShutOnly
<1> USE DEF TypeOK
<1>1. CASE Setup
  BY <1>1, ClockUnchanged DEF Setup
<1>2. CASE Top
  <2>1. UNCHANGED <<counts, last, silence, torn>> /\ UNCHANGED lastingVars
    BY <1>2 DEF Top
  <2> QED
    BY <2>1 DEF lastingVars, ClockInv, ShutOnly
<1>3. CASE Receive
  BY <1>3, ClockUnchanged DEF Receive, lastingVars
<1>4. CASE ExecuteCommand
  <2>1. pc = "execute" /\ UNCHANGED clockVars
    BY <1>4 DEF ExecuteCommand
  <2> QED
    BY <2>1 DEF clockVars, ClockInv, ShutOnly
<1>5. CASE FinishPersist
  BY <1>5, ClockUnchanged DEF FinishPersist
<1>6. CASE Respond
  <2>1. pc = "execute" /\ UNCHANGED open
    BY <1>6 DEF Respond, lastingVars
  <2>2. CASE UNCHANGED clockVars
    BY <2>1, <2>2, ClockUnchanged
  <2>3. ASSUME NEW value \in Reading(counts, counts + 1),
               ReadCounts(value, "last"), last' = value,
               silence' = IF value = counts THEN counts' - counts ELSE 0
        PROVE  ClockInv' /\ ShutOnly
    <3>1. /\ counts' \in Nat /\ counts' <= MaxCounts
          /\ "last" \notin torn' => value \in {counts, counts'}
      BY <2>3, ReadCountsClock
    <3> QED
      BY <2>1, <2>3, <3>1 DEF ClockInv, ShutOnly
  <2> QED
    BY <1>6, <2>2, <2>3 DEF Respond
<1>7. CASE CheckTimeout
  <2>1. PICK value \in Reading(counts, counts + 1) :
          /\ ReadCounts(value, "check")
          /\ silence' = IF counts' = counts THEN silence ELSE silence + 1
          /\ IF Expired(value) THEN Revert
               ELSE UNCHANGED <<config, isChanged, state, faults, rf, open, dud,
                                twice, portVars>>
    BY <1>7 DEF CheckTimeout
  <2>2. last' = last
    BY <1>7 DEF CheckTimeout
  <2>3. /\ counts' \in Nat /\ counts' <= MaxCounts
        /\ counts' = counts \/ counts' = counts + 1
        /\ "check" \notin torn' => value \in {counts, counts'}
        /\ "last" \in torn' <=> "last" \in torn
    BY <2>1, ReadCountsClock
  <2>0. counts \in Nat /\ last \in Nat /\ silence \in Nat
    OBVIOUS
  <2>4. ClockInv'
    <3>1. ASSUME "last" \notin torn' PROVE last' + silence' = counts'
      <4>1. last + silence = counts
        BY <2>3, <3>1 DEF ClockInv
      <4>2. last + silence' = counts'
        <5>1. last + (silence + 1) = counts + 1
          BY <2>0, <4>1
        <5> QED
          BY <2>1, <2>3, <4>1, <5>1, Zenon
      <4> QED
        BY <2>2, <4>2, Zenon
    <3> QED
      BY <2>3, <3>1 DEF ClockInv
  <2>5. ShutOnly
    <3>1. CASE torn' = {} /\ Expired(value)
      <4>1. value \in {counts, counts'} /\ last + silence = counts
        BY <2>3, <3>1 DEF ClockInv
      <4>0. MaxCounts \in Nat /\ CountRange \in Nat /\ MaxCounts < CountRange
        BY UnitAssumption
      <4>2. value \in Nat /\ last <= value /\ value < CountRange
        BY <2>0, <2>3, <4>0, <4>1 DEF ClockInv
      <4>3. value - last > config.timeout
        BY <3>1, <4>2, ExpiredMeans
      <4>4. last + silence' = counts'
        <5>1. last + (silence + 1) = counts + 1
          BY <2>0, <4>1
        <5> QED
          BY <2>1, <2>3, <4>1, <5>1, Zenon
      <4>5. config.timeout \in Nat
        BY UnitAssumption
      <4>6. silence' > config.timeout
        <5>1. value <= counts'
          BY <2>0, <2>3, <4>1
        <5>2. silence' \in Nat
          BY UnitNextType DEF TypeOK
        <5> QED
          BY <2>0, <2>3, <4>2, <4>3, <4>4, <4>5, <5>1, <5>2, SilentFor, Zenon
      <4> QED
        BY <4>6 DEF ShutOnly
    <3>2. CASE ~Expired(value)
      BY <2>1, <3>2 DEF ShutOnly
    <3>3. CASE torn' # {}
      BY <3>3 DEF ShutOnly
    <3> QED
      BY <3>1, <3>2, <3>3
  <2> QED
    BY <2>4, <2>5
<1>8. CASE Settle
  BY <1>8, ClockUnchanged DEF Settle, lastingVars
<1>9. CASE CheckPending
  BY <1>9, ClockUnchanged DEF CheckPending, lastingVars
<1>10. CASE Sleep
  BY <1>10, ClockUnchanged DEF Sleep, lastingVars
<1>11. ASSUME NEW packet \in Packet, RfInterrupt(packet)
       PROVE  ClockInv' /\ ShutOnly
  BY <1>11, ClockUnchanged DEF RfInterrupt, lastingVars
<1>12. CASE Output
  BY <1>12, ClockUnchanged DEF Output, lastingVars
<1>13. CASE Watchdog
  <2>1. /\ counts < MaxCounts /\ counts' = counts + 1 /\ silence' = silence + 1
        /\ UNCHANGED last /\ UNCHANGED torn /\ UNCHANGED lastingVars
    BY <1>13 DEF Watchdog, Tick
  <2> QED
    BY <2>1, UnitAssumption DEF lastingVars, ClockInv, ShutOnly
<1>14. CASE PowerLoss
  <2>1. /\ counts' = 0 /\ last' = 0 /\ silence' = 0 /\ UNCHANGED lastingVars
    BY <1>14 DEF PowerLoss
  <2> QED
    BY <2>1, UnitAssumption DEF lastingVars, ClockInv, ShutOnly
<1>15. CASE UNCHANGED vars
  BY <1>15, ClockUnchanged DEF vars, lastingVars
<1> QED
  BY <1>1, <1>2, <1>3, <1>4, <1>5, <1>6, <1>7, <1>8, <1>9, <1>10, <1>11, <1>12,
     <1>13, <1>14, <1>15
  DEF Next, Loop

\* Valves close on a command, or when there was no communication for the
\* timeout, as long as no read of the counter was torn.
THEOREM ClosesOnlyWhenSilentCorrect == Spec => ClosesOnlyWhenSilent
<1>1. Init => ClockInv
  BY UnitAssumption DEF Init, ClockInv
<1>2. TypeOK /\ ClockInv /\ [Next]_vars => ClockInv' /\ [ShutOnly]_vars
  BY ClockNext
<1> QED
  BY <1>1, <1>2, UnitTypeCorrect, PTL DEF Spec, ClosesOnlyWhenSilent

------------------------------------------------------------------------------
(* What a check of the timeout leaves behind *)

\* The converse of ExpiredMeans.
LEMMA NotExpiredMeans ==
  ASSUME TypeOK, NEW value \in Nat, value < CountRange, last <= value,
         ~Expired(value)
  PROVE  value - last <= config.timeout
<1>1. CountRange \in Nat /\ CountRange > 0
  BY UnitAssumption
<1>2. value - last \in Nat /\ value - last < CountRange
  BY <1>1 DEF TypeOK
<1>3. \A n, r \in Nat : n < r => n % r = n
  OBVIOUS
<1>4. (value - last) % CountRange = value - last
  BY <1>1, <1>2, <1>3
<1>5. config.timeout \in Nat
  BY UnitAssumption DEF TypeOK
<1> QED
  BY <1>2, <1>4, <1>5 DEF Expired

\* A configuration that is not marked as changed is the stored one, or one
\* that was set twice.
Unmarked == config = Stored \/ twice
SavedInv == ~isChanged => Unmarked

\* No valve is known to be open, and no configuration is left to drop.
Reverted == (~state.force => open \ dud = {}) /\ Unmarked

\* From the check of the timeout until the unit wakes up: either the silence
\* is not longer than the timeout and the ticks of this pass, or everything
\* has been reverted.
Checked == {"settle", "check", "sleeping", "asleep"}
ExpiryInv ==
  /\ ticks <= MaxTicks
  /\ pc \in Checked /\ torn = {}
       => silence <= config.timeout + ticks \/ Reverted

LEMMA SavedNext ==
  ASSUME TypeOK, SavedInv, [Next]_vars
  PROVE  SavedInv'
<1> USE DEF SavedInv, Unmarked
<1>0. ASSUME UNCHANGED <<config, isChanged, twice, eeprom>> PROVE SavedInv'
  BY <1>0 DEF Stored
<1>1. ASSUME NEW other, LoadConfig(other), UNCHANGED eeprom PROVE SavedInv'
  BY <1>1 DEF LoadConfig, Stored
<1>2. CASE Setup
  BY <1>1, <1>2 DEF Setup
<1>3. CASE Top
  BY <1>0, <1>3 DEF Top, ramVars, lastingVars
<1>4. CASE Receive
  BY <1>0, <1>4 DEF Receive, ramVars, lastingVars
<1>5. CASE ExecuteCommand
  <2>1. CASE UNCHANGED <<ramVars, lastingVars, twice>>
    BY <1>0, <2>1 DEF ramVars, lastingVars
  <2>2. CASE isChanged /\ UNCHANGED <<ramVars, twice>>
    BY <2>2 DEF ramVars
  <2>3. ASSUME NEW command, Execute(command),
               command.name \in {"SetSolenoidState", "ClearFaults",
                 "GetBatteryRaw", "SetConfig", "ApplyRfConfig",
                 "GetSensorValue", "GetSignalStrength", "Get"}
        PROVE  SavedInv'
    <3>1. CASE command.name = "SetConfig"
      <4>1. SetConfig(command.arg)
        BY <2>3, <3>1 DEF Execute
      <4>2. /\ isChanged' = (config # command.arg) /\ config' = command.arg
            /\ twice' = (config = command.arg /\ command.arg # Stored)
            /\ UNCHANGED eeprom
        BY <4>1 DEF SetConfig, lastingVars
      <4> QED
        BY <4>2 DEF Stored
    <3>2. CASE command.name # "SetConfig"
      <4>1. UNCHANGED <<config, isChanged, twice, eeprom>>
        BY <2>3, <3>2
        DEF Execute, SetSolenoidState, ClearFaults, GetBatteryRaw,
            ApplyRfConfig, GetSensorValue, Get, ramVars, lastingVars
      <4> QED
        BY <1>0, <4>1
    <3> QED
      BY <3>1, <3>2
  <2>4. Head(todo) \in Command
    BY <1>5 DEF ExecuteCommand, TypeOK
  <2>5. ASSUME Execute(Head(todo)),
               Head(todo).name \notin {"TooLarge", "PersistConfig"}
        PROVE  SavedInv'
    <3>1. Head(todo).name \in {"SetSolenoidState", "ClearFaults",
            "GetBatteryRaw", "SetConfig", "ApplyRfConfig",
            "GetSensorValue", "GetSignalStrength", "Get"}
      BY <2>4, <2>5, UnitAssumption
    <3> QED
      BY <2>3, <2>5, <3>1
  <2> QED
    BY <1>5, <2>1, <2>2, <2>5 DEF ExecuteCommand
<1>6. CASE FinishPersist
  BY <1>6, UnitAssumption DEF FinishPersist, Stored, TypeOK
<1>7. CASE Respond
  BY <1>0, <1>7 DEF Respond, ramVars, lastingVars
<1>8. CASE CheckTimeout
  <2>1. UNCHANGED eeprom
          /\ (Revert \/ UNCHANGED <<config, isChanged, twice>>)
    BY <1>8 DEF CheckTimeout
  <2> QED
    BY <1>0, <1>1, <2>1 DEF Revert
<1>9. CASE Settle
  BY <1>0, <1>9 DEF Settle, ramVars, lastingVars
<1>10. CASE CheckPending
  BY <1>0, <1>10 DEF CheckPending, ramVars, lastingVars
<1>11. CASE Sleep
  BY <1>0, <1>11 DEF Sleep, ramVars, lastingVars
<1>12. ASSUME NEW packet \in Packet, RfInterrupt(packet) PROVE SavedInv'
  BY <1>0, <1>12 DEF RfInterrupt, ramVars, lastingVars
<1>13. CASE Output
  BY <1>0, <1>13 DEF Output, ramVars, lastingVars
<1>14. CASE Watchdog
  BY <1>0, <1>14 DEF Watchdog, ramVars, lastingVars
<1>15. CASE PowerLoss
  BY <1>15 DEF PowerLoss
<1>16. CASE UNCHANGED vars
  BY <1>0, <1>16 DEF vars, ramVars, lastingVars
<1> QED
  BY <1>2, <1>3, <1>4, <1>5, <1>6, <1>7, <1>8, <1>9, <1>10, <1>11, <1>12,
     <1>13, <1>14, <1>15, <1>16
  DEF Next, Loop

\* The valves that follow are shut, and the configuration is the stored one.
LEMMA RevertReverts ==
  ASSUME TypeOK, StateIsTruth, SavedInv, Revert, UNCHANGED eeprom,
         open' \subseteq Valve
  PROVE  Reverted'
<1>1. Unmarked'
  BY DEF Revert, LoadConfig, SavedInv, Unmarked, Stored
<1>2. ASSUME ~state'.force PROVE open' \ dud' = {}
  <2>1. state'.on = {} /\ StateIsTruth'
    <3>1. CASE state.on # {}
      <4>1. Drive(Closed) /\ Closed \in SolenoidState
        BY <3>1, ClosedType DEF Revert
      <4>2. state' = Driven(state, Closed)
        BY <4>1 DEF Drive
      <4>3. state'.on = Closed.on
        BY <4>1, <4>2, DrivenType DEF TypeOK
      <4> QED
        BY <4>1, <4>3, DriveTruth DEF Closed
    <3>2. CASE state.on = {}
      BY <3>2 DEF Revert, StateIsTruth
    <3> QED
      BY <3>1, <3>2
  <2> QED
    BY <1>2, <2>1 DEF StateIsTruth
<1> QED
  BY <1>1, <1>2 DEF Reverted

LEMMA ExpiryUnchanged ==
  ASSUME ExpiryInv, pc \in Checked,
         UNCHANGED <<config, twice, eeprom, state, open, dud>>,
         UNCHANGED clockVars
  PROVE  ExpiryInv'
BY DEF ExpiryInv, Reverted, Unmarked, Stored, clockVars

LEMMA ExpiryNext ==
  ASSUME TypeOK, StateIsTruth, ClockInv, SavedInv, ExpiryInv, [Next]_vars
  PROVE  ExpiryInv'
<1> USE DEF TypeOK
<1>0. MaxTicks \in Nat
  BY UnitAssumption
<1>1. ASSUME pc' \notin Checked, ticks' \in {0, ticks} PROVE ExpiryInv'
  BY <1>0, <1>1 DEF ExpiryInv
<1>2. CASE Setup
  BY <1>1, <1>2 DEF Setup, clockVars, Checked
<1>3. CASE Top
  BY <1>1, <1>3 DEF Top, Checked
<1>4. CASE Receive
  BY <1>1, <1>4 DEF Receive, clockVars, Checked
<1>5. CASE ExecuteCommand
  BY <1>1, <1>5 DEF ExecuteCommand, clockVars, Checked
<1>6. CASE FinishPersist
  BY <1>1, <1>6 DEF FinishPersist, clockVars, Checked
<1>7. CASE Respond
  <2>1. pc' = "timeout" /\ ticks' <= MaxTicks
    BY <1>0, <1>7 DEF Respond, ReadCounts, Tick, clockVars, ExpiryInv
  <2> QED
    BY <2>1 DEF ExpiryInv, Checked
<1>8. CASE CheckTimeout
  <2>1. PICK value \in Reading(counts, counts + 1) :
          /\ ReadCounts(value, "check")
          /\ silence' = IF counts' = counts THEN silence ELSE silence + 1
          /\ IF Expired(value) THEN Revert
               ELSE UNCHANGED <<config, isChanged, state, faults, rf, open, dud,
                                twice, portVars>>
    BY <1>8 DEF CheckTimeout
  <2>2. pc = "timeout" /\ last' = last /\ UNCHANGED eeprom
    BY <1>8 DEF CheckTimeout
  <2>3. /\ counts' \in Nat /\ counts' <= MaxCounts
        /\ counts' = counts \/ counts' = counts + 1
        /\ "check" \notin torn' => value \in {counts, counts'}
        /\ "last" \in torn' <=> "last" \in torn
    BY <2>1, ReadCountsClock
  <2>4. /\ ticks' <= MaxTicks /\ ticks' \in Nat
        /\ counts' # counts => ticks' >= 1
    <3>1. CASE UNCHANGED <<counts, ticks>>
      BY <3>1 DEF ExpiryInv
    <3>2. CASE Tick
      BY <1>0, <2>2, <3>2 DEF Tick
    <3> QED
      BY <2>1, <3>1, <3>2 DEF ReadCounts
  <2>5. ASSUME torn' = {}
        PROVE  silence' <= config'.timeout + ticks' \/ Reverted'
    <3>1. CASE Expired(value)
      <4>1. Revert /\ open' \subseteq Valve
        BY <2>1, <3>1, UnitNextType DEF TypeOK
      <4> QED
        BY <2>2, <4>1, RevertReverts
    <3>2. CASE ~Expired(value)
      <4>1. config' = config
        BY <2>1, <3>2
      <4>2. value \in {counts, counts'} /\ last + silence = counts
        BY <2>3, <2>5 DEF ClockInv
      <4>3. MaxCounts \in Nat /\ CountRange \in Nat /\ MaxCounts < CountRange
        BY UnitAssumption
      <4>4. counts \in Nat /\ last \in Nat /\ silence \in Nat
        OBVIOUS
      <4>5. value \in Nat /\ counts <= value /\ last <= value /\ value < CountRange
        BY <2>3, <4>2, <4>3, <4>4 DEF ClockInv
      <4>6. value - last <= config.timeout /\ config.timeout \in Nat
        BY <3>2, <4>5, NotExpiredMeans, UnitAssumption
      <4>7. silence <= config.timeout
        BY <4>2, <4>4, <4>5, <4>6
      <4>8. silence' <= config.timeout + ticks'
        BY <2>1, <2>4, <4>4, <4>6, <4>7
      <4> QED
        BY <4>1, <4>8
    <3> QED
      BY <3>1, <3>2
  <2> QED
    BY <2>4, <2>5 DEF ExpiryInv
<1>9. CASE Settle
  BY <1>9, ExpiryUnchanged DEF Settle, ramVars, lastingVars, Checked
<1>10. CASE CheckPending
  BY <1>10, ExpiryUnchanged DEF CheckPending, ramVars, lastingVars, Checked
<1>11. CASE Sleep
  BY <1>11, ExpiryUnchanged DEF Sleep, ramVars, lastingVars, Checked
<1>12. ASSUME NEW packet \in Packet, RfInterrupt(packet) PROVE ExpiryInv'
  <2>1. pc' \in {pc, "top"} /\ UNCHANGED clockVars
          /\ UNCHANGED <<config, twice, eeprom, state, open, dud>>
    BY <1>12 DEF RfInterrupt, Woken, ramVars, lastingVars
  <2> QED
    BY <1>1, <2>1, ExpiryUnchanged DEF clockVars, Checked
<1>13. CASE Output
  <2>1. UNCHANGED pc /\ UNCHANGED clockVars
          /\ UNCHANGED <<config, twice, eeprom, state, open, dud>>
    BY <1>13 DEF Output, loopVars, ramVars, lastingVars
  <2> QED
    BY <1>1, <2>1, ExpiryUnchanged DEF clockVars
<1>14. CASE Watchdog
  <2>1. /\ silence' = silence + 1 /\ UNCHANGED torn
        /\ UNCHANGED <<config, twice, eeprom, state, open, dud>>
    BY <1>14 DEF Watchdog, ramVars, lastingVars
  <2>2. CASE pc = "asleep"
    BY <1>0, <1>1, <1>14, <2>2 DEF Watchdog, Tick, Woken, Checked
  <2>3. CASE pc # "asleep"
    <3>1. /\ pc' = pc /\ ticks' = ticks + 1 /\ ticks < MaxTicks
      BY <1>14, <2>3 DEF Watchdog, Tick, Woken
    <3>2. ticks \in Nat /\ silence \in Nat /\ config.timeout \in Nat
      BY UnitAssumption
    <3>3. ASSUME pc \in Checked, torn = {}
          PROVE  silence' <= config'.timeout + ticks' \/ Reverted'
      <4>1. silence <= config.timeout + ticks \/ Reverted
        BY <3>3 DEF ExpiryInv
      <4>2. CASE silence <= config.timeout + ticks
        BY <2>1, <3>1, <3>2, <4>2
      <4>3. CASE Reverted
        BY <2>1, <4>3 DEF Reverted, Unmarked, Stored
      <4> QED
        BY <4>1, <4>2, <4>3
    <3> QED
      BY <1>0, <2>1, <3>1, <3>2, <3>3 DEF ExpiryInv
  <2> QED
    BY <2>2, <2>3
<1>15. CASE PowerLoss
  BY <1>1, <1>15 DEF PowerLoss, Checked
<1>16. CASE UNCHANGED vars
  <2>1. UNCHANGED pc /\ UNCHANGED clockVars
          /\ UNCHANGED <<config, twice, eeprom, state, open, dud>>
    BY <1>16 DEF vars, loopVars, ramVars, lastingVars
  <2> QED
    BY <1>1, <2>1, ExpiryUnchanged DEF clockVars
<1> QED
  BY <1>2, <1>3, <1>4, <1>5, <1>6, <1>7, <1>8, <1>9, <1>10, <1>11, <1>12,
     <1>13, <1>14, <1>15, <1>16
  DEF Next, Loop

\* A unit that sleeps after too long a silence has reverted.
LEMMA ExpiryAsleep ==
  ASSUME TypeOK, ExpiryInv
  PROVE  OpenValvesExpire /\ RevertsUnsaved
<1>1. MaxTicks \in Nat /\ config.timeout \in Nat
  BY UnitAssumption DEF TypeOK
<1>2. ASSUME pc = "asleep", torn = {}, ~Reverted PROVE silence <= Expiry
  BY <1>1, <1>2 DEF ExpiryInv, Checked, Expiry, TypeOK
<1>3. silence > Expiry => ~(silence <= Expiry)
  BY <1>1 DEF TypeOK, Expiry
<1> QED
  BY <1>2, <1>3 DEF Reverted, Unmarked, OpenValvesExpire, RevertsUnsaved

LEMMA ExpiryAlways == Spec => [](TypeOK /\ ExpiryInv)
<1>1. Init => ClockInv /\ SavedInv /\ ExpiryInv
  BY UnitAssumption DEF Init, ClockInv, SavedInv, ExpiryInv, Checked
<1>2. TypeOK /\ ClockInv /\ [Next]_vars => ClockInv'
  BY ClockNext
<1>3. TypeOK /\ SavedInv /\ [Next]_vars => SavedInv'
  BY SavedNext
<1>4. TypeOK /\ StateIsTruth /\ ClockInv /\ SavedInv /\ ExpiryInv /\ [Next]_vars
        => ExpiryInv'
  BY ExpiryNext
<1> QED
  BY <1>1, <1>2, <1>3, <1>4, UnitTypeCorrect, StateIsTruthCorrect, PTL DEF Spec

\* A unit does not sleep with valves open after more than the communication
\* timeout without communication (main.cpp, "Ensure valves are shut off"),
\* whatever its commands were, unless the counter was not read as what it was.
THEOREM OpenValvesExpireCorrect == Spec => []OpenValvesExpire
<1>1. TypeOK /\ ExpiryInv => OpenValvesExpire
  BY ExpiryAsleep
<1> QED
  BY <1>1, ExpiryAlways, PTL

\* Nor does it keep a configuration that was not saved, unless it was set
\* twice (main.cpp, the reload after the communication timeout).
THEOREM RevertsUnsavedCorrect == Spec => []RevertsUnsaved
<1>1. TypeOK /\ ExpiryInv => RevertsUnsaved
  BY ExpiryAsleep
<1> QED
  BY <1>1, ExpiryAlways, PTL
===============================================================================
