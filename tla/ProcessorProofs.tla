--------------------------- MODULE ProcessorProofs ----------------------------
(***************************************************************************)
(* Proofs about Processor for every set of configurations and every number *)
(* of failures, requests, restarts and breakdowns.                         *)
(***************************************************************************)
EXTENDS Processor, TLAPS

\* What is told of the drive.
Telling == [motorOn : BOOLEAN, desired : BOOLEAN, available : BOOLEAN,
            value : 0 .. 1]

------------------------------------------------------------------------------
(* Type correctness *)

LEMMA NoConfigType == NoConfig \in Config
BY DEF NoConfig, Config

\* The count of failures stops at Unavailable.
LEMMA CountedType ==
  ASSUME NEW count \in 0 .. Unavailable
  PROVE  Counted(count) \in 0 .. Unavailable
BY ProcessorAssumption DEF Counted, Unavailable

LEMMA UpdateDriveType ==
  ASSUME TypeOK, UpdateDrive
  PROVE  /\ desired' \in BOOLEAN /\ relay' \in BOOLEAN
         /\ idMapUpdated' \in BOOLEAN /\ mapDue' \in BOOLEAN
         /\ readDue' \in BOOLEAN
         /\ errorCount' \in 0 .. Unavailable /\ values' \in 0 .. 1
         /\ told' \in Telling
<1> USE ProcessorAssumption DEF TypeOK
<1>1. /\ told \in Telling /\ drive \in 0 .. 1 /\ values \in 0 .. 1
      /\ desired \in BOOLEAN /\ relay \in BOOLEAN /\ readDue \in BOOLEAN
      /\ errorCount \in 0 .. Unavailable /\ Unavailable \in Nat
  BY DEF Telling, Unavailable
<1>2. idMapUpdated' \in BOOLEAN /\ mapDue' \in BOOLEAN
  <2>1. CASE applied.modbus /\ mapDue
    BY <2>1 DEF UpdateDrive
  <2>2. CASE ~(applied.modbus /\ mapDue)
    BY <2>2 DEF UpdateDrive
  <2> QED
    BY <2>1, <2>2
<1>3. desired' = desired
  BY DEF UpdateDrive
<1>4. ASSUME NEW before \in Telling, SwitchRelay(before)
      PROVE  relay' \in BOOLEAN /\ told' \in Telling
  BY <1>1, <1>4 DEF SwitchRelay, Telling
<1>5. CASE ReadSucceeds
  <2>1. readDue' \in BOOLEAN /\ errorCount' = 0 /\ values' = drive
    BY <1>5, Zenon DEF ReadSucceeds
  <2>2. relay' \in BOOLEAN /\ told' \in Telling
    <3> DEFINE before ==
          [motorOn |-> told.motorOn, desired |-> told.desired,
           available |-> told.available \/ ~Available(errorCount),
           value |-> IF drive # values THEN drive ELSE told.value]
    <3>1. before \in Telling
      BY <1>1 DEF Telling
    <3>2. SwitchRelay(before)
      BY <1>5 DEF ReadSucceeds
    <3> QED
      BY <3>1, <3>2, <1>4
  <2> QED
    BY <1>1, <1>2, <1>3, <2>1, <2>2
<1>6. CASE ReadFails
  <2>1. UNCHANGED relay /\ UNCHANGED values /\ UNCHANGED readDue
    BY <1>6 DEF ReadFails
  <2>2. errorCount' \in 0 .. Unavailable
    BY <1>1, <1>6, CountedType DEF ReadFails
  <2>3. told' \in Telling
    BY <1>1, <1>6 DEF ReadFails, Telling
  <2> QED
    BY <1>1, <1>2, <1>3, <2>1, <2>2, <2>3
<1>7. CASE SwitchRelay(told) /\ UNCHANGED <<errorCount, values, readDue>>
  <2>1. UNCHANGED errorCount /\ UNCHANGED values /\ UNCHANGED readDue
    BY <1>7
  <2> QED
    BY <1>1, <1>2, <1>3, <1>4, <1>7, <2>1
<1>8. ReadSucceeds \/ ReadFails
        \/ (SwitchRelay(told) /\ UNCHANGED <<errorCount, values, readDue>>)
  BY DEF UpdateDrive
<1> QED
  BY <1>5, <1>6, <1>7, <1>8

LEMMA ResetDriveType ==
  ASSUME TypeOK, ResetDrive
  PROVE  /\ desired' \in BOOLEAN /\ relay' \in BOOLEAN
         /\ idMapUpdated' \in BOOLEAN /\ mapDue' \in BOOLEAN
         /\ readDue' \in BOOLEAN
         /\ errorCount' \in 0 .. Unavailable /\ values' \in 0 .. 1
<1>1. Unavailable \in 0 .. Unavailable
  BY ProcessorAssumption DEF Unavailable
<1>2. idMapUpdated' \in BOOLEAN
  BY Zenon DEF ResetDrive
<1> QED
  BY <1>1, <1>2 DEF TypeOK, ResetDrive, Kept

LEMMA BootType ==
  ASSUME TypeOK, Boot, restarts' \in Nat
  PROVE  TypeOK'
<1>1. Unavailable \in 0 .. Unavailable
  BY ProcessorAssumption DEF Unavailable
<1>2. UNCHANGED stored /\ UNCHANGED drive /\ UNCHANGED answers /\ UNCHANGED radio
        /\ UNCHANGED breaks /\ UNCHANGED requests /\ UNCHANGED told
  BY DEF Boot, environmentVars
<1>3. /\ pendingRead' \in BOOLEAN /\ pendingApply' \in BOOLEAN
      /\ pendingWrite' \in BOOLEAN /\ desired' \in BOOLEAN /\ relay' \in BOOLEAN
      /\ idMapUpdated' \in BOOLEAN /\ synced' \in BOOLEAN
      /\ lastAsked' \in BOOLEAN
  BY Zenon DEF Boot
<1> QED
  BY <1>1, <1>2, <1>3, NoConfigType DEF Boot, TypeOK

LEMMA InitType == ASSUME Init PROVE TypeOK
<1>1. Unavailable \in 0 .. Unavailable
  BY ProcessorAssumption DEF Unavailable
<1>2. /\ pendingRead \in BOOLEAN /\ pendingApply \in BOOLEAN
      /\ pendingWrite \in BOOLEAN /\ desired \in BOOLEAN /\ relay \in BOOLEAN
      /\ idMapUpdated \in BOOLEAN /\ answers \in BOOLEAN /\ radio \in BOOLEAN
      /\ synced \in BOOLEAN /\ lastAsked \in BOOLEAN
  BY Zenon DEF Init
<1>3. told \in Telling
  <2>1. [motorOn |-> FALSE, desired |-> FALSE, available |-> FALSE, value |-> 0]
           \in Telling
    BY DEF Telling
  <2> QED
    BY <2>1, Zenon DEF Init
<1> QED
  BY <1>1, <1>2, <1>3, NoConfigType DEF Init, TypeOK, Telling

LEMMA NextType == ASSUME TypeOK, [Next]_vars PROVE TypeOK'
<1>1. CASE BeginControllers
  BY <1>1 DEF TypeOK, BeginControllers, configVars, driveVars, environmentVars
<1>2. CASE UpdateControllers
  <2>1. UpdateDrive
    BY <1>2 DEF UpdateControllers
  <2>2. UNCHANGED <<configVars, stored, status, applied, environmentVars,
                    requests, restarts, synced, lastAsked, lastSent>>
    BY <1>2 DEF UpdateControllers
  <2> QED
    BY <2>1, <2>2, UpdateDriveType
    DEF TypeOK, Telling, configVars, environmentVars
<1>3. CASE ReadConfig
  <2>1. config' \in Config /\ pendingRead' \in BOOLEAN
          /\ pendingWrite' \in BOOLEAN /\ pendingApply' \in BOOLEAN
    BY <1>3, ProcessorAssumption DEF TypeOK, ReadConfig
  <2>2. UNCHANGED <<stored, status, applied, driveVars, environmentVars,
                    requests, restarts, told, synced, lastAsked, lastSent>>
    BY <1>3 DEF ReadConfig
  <2> QED
    BY <2>1, <2>2 DEF TypeOK, driveVars, environmentVars
<1>4. CASE ApplyConfig
  <2>1. CASE config.outcome = "crash"
    <3>1. Boot /\ restarts' \in Nat
      BY <1>4, <2>1 DEF ApplyConfig, TypeOK
    <3> QED
      BY <3>1, BootType
  <2>2. CASE config.outcome # "crash"
    <3>1. ResetDrive /\ synced' = FALSE
      BY <1>4, <2>2 DEF ApplyConfig
    <3>2. /\ applied' \in Config /\ pendingApply' \in BOOLEAN
          /\ status' \in {"Unconfigured", "Initializing", "Ready"}
      BY <1>4, <2>2, NoConfigType DEF ApplyConfig, TypeOK
    <3>3. UNCHANGED <<config, pendingRead, pendingWrite, stored,
                      environmentVars, requests, restarts, told, lastAsked,
                      lastSent>>
      BY <1>4, <2>2 DEF ApplyConfig
    <3> QED
      BY <3>1, <3>2, <3>3, ResetDriveType DEF TypeOK, environmentVars
  <2> QED
    BY <2>1, <2>2
<1>5. CASE WriteConfig
  <2>1. pendingWrite' \in BOOLEAN
    BY <1>5, Zenon DEF WriteConfig
  <2> QED
    BY <1>5, <2>1 DEF TypeOK, WriteConfig, driveVars, environmentVars
<1>6. ASSUME NEW c \in ConfigData, SetConfig(c) PROVE TypeOK'
  <2>1. c \in Config
    BY ProcessorAssumption
  <2>2. /\ pendingRead' \in BOOLEAN /\ pendingWrite' \in BOOLEAN
        /\ pendingApply' \in BOOLEAN
    BY <1>6, Zenon DEF SetConfig
  <2> QED
    BY <1>6, <2>1, <2>2
    DEF TypeOK, SetConfig, Request, driveVars, environmentVars
<1>7. ASSUME NEW on \in BOOLEAN, SetProperty(on) PROVE TypeOK'
  BY <1>7 DEF TypeOK, SetProperty, Request, configVars, environmentVars
<1>8. CASE GetProperties
  <2>1. told' \in Telling
    <3> DEFINE available == IF applied.modbus THEN Available(errorCount)
                                              ELSE told.available
               value == IF applied.modbus THEN values ELSE told.value
    <3>1. available \in BOOLEAN
      <4>1. told.available \in BOOLEAN
        BY DEF TypeOK
      <4>2. Available(errorCount) \in BOOLEAN
        BY DEF Available
      <4> QED
        BY <4>1, <4>2, Zenon
    <3>2. value \in 0 .. 1
      BY DEF TypeOK
    <3>3. told' = [motorOn |-> relay, desired |-> desired,
                   available |-> available, value |-> value]
      BY <1>8 DEF GetProperties
    <3>4. relay \in BOOLEAN /\ desired \in BOOLEAN
      BY DEF TypeOK
    <3> HIDE DEF available, value
    <3> QED
      BY <3>1, <3>2, <3>3, <3>4 DEF Telling
  <2>2. synced' \in BOOLEAN
    BY <1>8, Zenon DEF GetProperties
  <2> QED
    BY <1>8, <2>1, <2>2 DEF TypeOK, GetProperties, Telling, configVars, driveVars,
                      environmentVars
<1>9. CASE Restart
  <2>1. Boot /\ restarts' \in Nat
    BY <1>9 DEF Restart, TypeOK
  <2> QED
    BY <2>1, BootType
<1>10. CASE Due
  <2>1. mapDue' \in BOOLEAN /\ readDue' \in BOOLEAN
    BY <1>10, Zenon DEF Due, TypeOK
  <2> QED
    BY <1>10, <2>1 DEF TypeOK, Due, configVars, environmentVars
<1>11. CASE Break
  <2>1. answers' \in BOOLEAN
    BY <1>11 DEF TypeOK, Break
  <2>2. radio' \in BOOLEAN
    BY <1>11 DEF TypeOK, Break
  <2>3. drive' \in 0 .. 1
    BY <1>11 DEF TypeOK, Break
  <2>4. breaks' \in Nat
    BY <1>11 DEF TypeOK, Break
  <2> QED
    BY <1>11, <2>1, <2>2, <2>3, <2>4 DEF TypeOK, Break, configVars, driveVars
<1>12. CASE UNCHANGED vars
  BY <1>12 DEF TypeOK, vars, configVars, driveVars, environmentVars
<1> QED
  BY <1>1, <1>2, <1>3, <1>4, <1>5, <1>6, <1>7, <1>8, <1>9, <1>10, <1>11, <1>12
  DEF Next, ControllersLoop, ConfigLoop

\* Every variable of the control processor keeps its type.
THEOREM ProcessorTypeCorrect == Spec => []TypeOK
BY InitType, NextType, PTL DEF Spec

------------------------------------------------------------------------------
(* What gets into the EEPROM *)

\* A configuration that cannot be applied is still to be applied, or the
\* controllers are unconfigured: in neither case is it written.
PendingUnlessOk ==
  config.outcome # "ok" => pendingApply \/ status = "Unconfigured"

\* What a client has sent is not read over: nothing is to be read any more.
SentIsKept == lastSent # None => config = lastSent /\ ~pendingRead

ConfigInv == TypeOK /\ PendingUnlessOk /\ StoredApplies /\ SentIsKept

LEMMA ConfigInit == ASSUME Init PROVE ConfigInv
<1>1. TypeOK
  BY InitType
<1>2. PendingUnlessOk
  BY DEF Init, PendingUnlessOk
<1>3. StoredApplies
  BY DEF Init, StoredApplies
<1>4. SentIsKept
  BY DEF Init, SentIsKept
<1> QED
  BY <1>1, <1>2, <1>3, <1>4 DEF ConfigInv

LEMMA BootConfig ==
  ASSUME ConfigInv, Boot
  PROVE  PendingUnlessOk' /\ StoredApplies' /\ SentIsKept'
<1>1. status' = "Unconfigured" /\ lastSent' = None /\ UNCHANGED stored
  BY DEF Boot
<1> QED
  BY <1>1 DEF ConfigInv, PendingUnlessOk, StoredApplies, SentIsKept

LEMMA ConfigNext == ASSUME ConfigInv, [Next]_vars PROVE ConfigInv'
<1> SUFFICES PendingUnlessOk' /\ StoredApplies' /\ SentIsKept'
  BY NextType DEF ConfigInv
<1> USE DEF ConfigInv, PendingUnlessOk, StoredApplies, SentIsKept
<1> DEFINE unread == UNCHANGED <<config, pendingRead, pendingApply, stored,
                                 lastSent>>
<1>1. CASE BeginControllers
  BY <1>1 DEF BeginControllers, configVars
<1>2. CASE UpdateControllers
  BY <1>2 DEF UpdateControllers, configVars
<1>3. CASE ReadConfig
  <2>1. lastSent = None /\ UNCHANGED lastSent /\ UNCHANGED stored
          /\ UNCHANGED status
    BY <1>3 DEF ReadConfig
  <2>2. CASE stored # Blank
    BY <1>3, <2>1, <2>2 DEF ReadConfig
  <2>3. CASE stored = Blank
    BY <1>3, <2>1, <2>3 DEF ReadConfig
  <2> QED
    BY <2>2, <2>3
<1>4. CASE ApplyConfig
  <2>1. CASE config.outcome = "crash"
    BY <1>4, <2>1, BootConfig DEF ApplyConfig
  <2>2. CASE config.outcome # "crash"
    <3>1. UNCHANGED <<config, pendingRead, stored, lastSent>>
      BY <1>4, <2>2 DEF ApplyConfig
    <3>2. config.outcome # "ok" => status' = "Unconfigured"
      BY <1>4, <2>2 DEF ApplyConfig
    <3> QED
      BY <3>1, <3>2
  <2> QED
    BY <2>1, <2>2
<1>5. CASE WriteConfig
  <2>1. ~pendingApply /\ status # "Unconfigured" /\ stored' = config
    BY <1>5 DEF WriteConfig, MayWrite
  <2>2. UNCHANGED <<config, pendingRead, pendingApply, status, lastSent>>
    BY <1>5 DEF WriteConfig
  <2> QED
    BY <2>1, <2>2
<1>6. ASSUME NEW c \in ConfigData, SetConfig(c)
      PROVE  PendingUnlessOk' /\ StoredApplies' /\ SentIsKept'
  BY <1>6 DEF SetConfig
<1>7. ASSUME NEW on \in BOOLEAN, SetProperty(on)
      PROVE  PendingUnlessOk' /\ StoredApplies' /\ SentIsKept'
  BY <1>7 DEF SetProperty, configVars
<1>8. CASE GetProperties
  BY <1>8 DEF GetProperties, configVars
<1>9. CASE Restart
  BY <1>9, BootConfig DEF Restart
<1>10. CASE Due
  BY <1>10 DEF Due, configVars
<1>11. CASE Break
  BY <1>11 DEF Break, configVars
<1>12. CASE UNCHANGED vars
  BY <1>12 DEF vars, configVars
<1> QED
  BY <1>1, <1>2, <1>3, <1>4, <1>5, <1>6, <1>7, <1>8, <1>9, <1>10, <1>11, <1>12
  DEF Next, ControllersLoop, ConfigLoop

LEMMA ConfigCorrect == Spec => []ConfigInv
BY ConfigInit, ConfigNext, PTL DEF Spec

\* Only a configuration that could be applied gets into the EEPROM.
THEOREM StoredAppliesCorrect == Spec => []StoredApplies
<1>1. ConfigInv => StoredApplies
  BY DEF ConfigInv
<1> QED
  BY <1>1, ConfigCorrect, PTL

\* The configuration a client has sent is not replaced by the stored one.
THEOREM SentKeptCorrect == Spec => []SentKept
<1>1. ConfigInv => SentKept
  BY DEF ConfigInv, SentIsKept, SentKept
<1> QED
  BY <1>1, ConfigCorrect, PTL

------------------------------------------------------------------------------
(* The motor *)

\* What the motor is desired to be is what it is or what was asked for last.
DesiredInv == desired = relay \/ desired = lastAsked

LEMMA BootPump ==
  ASSUME Boot
  PROVE  DesiredInv' /\ (relay' # relay => relay' = FALSE)
BY DEF Boot, DesiredInv

LEMMA UpdateDrivePump ==
  ASSUME DesiredInv, UpdateDrive, UNCHANGED lastAsked
  PROVE  DesiredInv' /\ (relay' # relay => relay' = lastAsked')
<1>1. desired' = desired
  BY DEF UpdateDrive
<1>2. ReadSucceeds \/ ReadFails \/ SwitchRelay(told)
  BY DEF UpdateDrive
<1>3. relay' = relay \/ relay' = desired
  BY <1>2 DEF ReadSucceeds, ReadFails, SwitchRelay
<1> QED
  BY <1>1, <1>3 DEF DesiredInv

LEMMA PumpNext ==
  ASSUME DesiredInv, [Next]_vars, TypeOK
  PROVE  DesiredInv' /\ [SwitchedAsAsked]_vars
<1> SUFFICES DesiredInv' /\ SwitchedAsAsked
  OBVIOUS
<1> USE DEF SwitchedAsAsked
<1>0. ASSUME UNCHANGED desired, UNCHANGED relay, UNCHANGED lastAsked
      PROVE  DesiredInv' /\ SwitchedAsAsked
  BY <1>0 DEF DesiredInv
<1>1. CASE BeginControllers
  BY <1>0, <1>1 DEF BeginControllers, driveVars
<1>2. CASE UpdateControllers
  BY <1>2, UpdateDrivePump DEF UpdateControllers
<1>3. CASE ReadConfig
  BY <1>0, <1>3 DEF ReadConfig, driveVars
<1>4. CASE ApplyConfig
  <2>1. CASE config.outcome = "crash"
    <3>1. Boot /\ restarts' = restarts + 1
      BY <1>4, <2>1 DEF ApplyConfig
    <3>2. restarts' # restarts
      BY <3>1 DEF TypeOK
    <3> QED
      BY <3>1, <3>2, BootPump, Zenon
  <2>2. CASE config.outcome # "crash"
    <3>1. ResetDrive
      BY <1>4, <2>2 DEF ApplyConfig
    <3> QED
      BY <3>1 DEF ResetDrive, Kept, DesiredInv
  <2> QED
    BY <2>1, <2>2
<1>5. CASE WriteConfig
  BY <1>0, <1>5 DEF WriteConfig, driveVars
<1>6. ASSUME NEW c \in ConfigData, SetConfig(c)
      PROVE  DesiredInv' /\ SwitchedAsAsked
  BY <1>0, <1>6 DEF SetConfig, driveVars
<1>7. ASSUME NEW on \in BOOLEAN, SetProperty(on)
      PROVE  DesiredInv' /\ SwitchedAsAsked
  BY <1>7 DEF SetProperty, DesiredInv
<1>8. CASE GetProperties
  BY <1>0, <1>8 DEF GetProperties, driveVars
<1>9. CASE Restart
  <2>1. Boot /\ restarts' # restarts
    BY <1>9 DEF Restart, TypeOK
  <2> QED
    BY <2>1, BootPump, Zenon
<1>10. CASE Due
  BY <1>0, <1>10 DEF Due
<1>11. CASE Break
  BY <1>0, <1>11 DEF Break, driveVars
<1>12. CASE UNCHANGED vars
  BY <1>0, <1>12 DEF vars, driveVars
<1> QED
  BY <1>1, <1>2, <1>3, <1>4, <1>5, <1>6, <1>7, <1>8, <1>9, <1>10, <1>11, <1>12
  DEF Next, ControllersLoop, ConfigLoop

\* The motor is switched as a client asked last, or off by a restart, and never
\* by a new configuration.
THEOREM PumpKeptCorrect == Spec => PumpKept
<1>1. Init => DesiredInv
  BY DEF Init, DesiredInv
<1>2. TypeOK /\ DesiredInv /\ [Next]_vars => DesiredInv' /\ [SwitchedAsAsked]_vars
  BY PumpNext
<1> QED
  BY <1>1, <1>2, ProcessorTypeCorrect, PTL DEF Spec, PumpKept

------------------------------------------------------------------------------
(* What is told of the drive *)

\* A step that changes neither the drive's controller nor what is told of it.
LEMMA ToldUnchanged ==
  ASSUME ToldIsTrue, UNCHANGED <<synced, told, relay, desired>>,
         UNCHANGED <<applied, errorCount, values>>
  PROVE  ToldIsTrue'
BY DEF ToldIsTrue, Available

\* Nothing is claimed after a start or a reset.
LEMMA Unsynced == ASSUME synced' = FALSE PROVE ToldIsTrue'
BY DEF ToldIsTrue

\* Switching the relay is told.
LEMMA SwitchRelayTold ==
  ASSUME NEW before \in Telling, SwitchRelay(before),
         desired \in BOOLEAN, relay \in BOOLEAN
  PROVE  /\ before.motorOn = relay => told'.motorOn = relay'
         /\ told'.desired = before.desired
         /\ told'.available = before.available
         /\ told'.value = before.value
BY DEF SwitchRelay, Telling

LEMMA UpdateDriveTold ==
  ASSUME TypeOK, ToldIsTrue, UpdateDrive, UNCHANGED synced, UNCHANGED applied
  PROVE  ToldIsTrue'
<1> SUFFICES ASSUME synced
             PROVE  /\ told'.motorOn = relay' /\ told'.desired = desired'
                    /\ applied.modbus =>
                         /\ told'.available = Available(errorCount')
                         /\ told'.value = values'
  BY DEF ToldIsTrue, Available
<1>1. /\ told \in Telling /\ desired \in BOOLEAN /\ relay \in BOOLEAN
      /\ errorCount \in 0 .. Unavailable /\ drive \in 0 .. 1
  BY DEF TypeOK, Telling
<1>2. /\ told.motorOn = relay /\ told.desired = desired /\ desired' = desired
      /\ applied.modbus => /\ told.available = Available(errorCount)
                           /\ told.value = values
  BY DEF ToldIsTrue, UpdateDrive
<1>3. CASE ReadSucceeds
  <2> DEFINE before ==
        [motorOn |-> told.motorOn, desired |-> told.desired,
         available |-> told.available \/ ~Available(errorCount),
         value |-> IF drive # values THEN drive ELSE told.value]
  <2>1. before \in Telling
    BY <1>1 DEF Telling
  <2>2. SwitchRelay(before) /\ values' = drive /\ errorCount' = 0
    BY <1>3 DEF ReadSucceeds
  <2>3. before.motorOn = told.motorOn /\ before.desired = told.desired
    OBVIOUS
  <2>4. applied.modbus => before.available /\ before.value = drive
    BY <1>2
  <2>5. Available(0)
    BY ProcessorAssumption DEF Available
  <2>6. /\ told'.motorOn = relay' /\ told'.desired = before.desired
        /\ told'.available = before.available /\ told'.value = before.value
    <3> HIDE DEF before
    <3> QED
      BY <1>1, <1>2, <2>1, <2>2, <2>3, SwitchRelayTold
  <2>7. told'.desired = desired'
    BY <1>2, <2>3, <2>6
  <2>8. applied.modbus =>
          told'.available = Available(errorCount') /\ told'.value = values'
    <3> HIDE DEF before
    <3> QED
      BY <2>2, <2>4, <2>5, <2>6, <1>1, <2>1 DEF Telling
  <2> QED
    BY <2>6, <2>7, <2>8
<1>4. CASE ReadFails
  <2>1. UNCHANGED relay /\ UNCHANGED values
    BY <1>4 DEF ReadFails
  <2>2. /\ told'.motorOn = told.motorOn /\ told'.desired = told.desired
        /\ told'.value = told.value
        /\ told'.available = (told.available /\ ~Fallen(errorCount))
    BY <1>1, <1>4 DEF ReadFails, Telling
  <2>3. Available(errorCount') = (Available(errorCount) /\ ~Fallen(errorCount))
    BY <1>1, <1>4, ProcessorAssumption
    DEF ReadFails, Counted, Fallen, Available, Unavailable
  <2> QED
    BY <1>2, <2>1, <2>2, <2>3
<1>5. CASE SwitchRelay(told) /\ UNCHANGED <<errorCount, values, readDue>>
  BY <1>1, <1>2, <1>5, SwitchRelayTold DEF Available
<1>6. ReadSucceeds \/ ReadFails
        \/ (SwitchRelay(told) /\ UNCHANGED <<errorCount, values, readDue>>)
  BY DEF UpdateDrive
<1> QED
  BY <1>3, <1>4, <1>5, <1>6

LEMMA ToldNext ==
  ASSUME TypeOK, ToldIsTrue, [Next]_vars
  PROVE  ToldIsTrue'
<1>1. CASE BeginControllers
  BY <1>1, ToldUnchanged DEF BeginControllers, driveVars
<1>2. CASE UpdateControllers
  BY <1>2, UpdateDriveTold DEF UpdateControllers
<1>3. CASE ReadConfig
  BY <1>3, ToldUnchanged DEF ReadConfig, driveVars
<1>4. CASE ApplyConfig
  BY <1>4, Unsynced DEF ApplyConfig, Boot
<1>5. CASE WriteConfig
  BY <1>5, ToldUnchanged DEF WriteConfig, driveVars
<1>6. ASSUME NEW c \in ConfigData, SetConfig(c) PROVE ToldIsTrue'
  BY <1>6, ToldUnchanged DEF SetConfig, driveVars
<1>7. ASSUME NEW on \in BOOLEAN, SetProperty(on) PROVE ToldIsTrue'
  <2>1. /\ desired' = on
        /\ UNCHANGED synced /\ UNCHANGED applied /\ UNCHANGED relay
        /\ UNCHANGED errorCount /\ UNCHANGED values
    BY <1>7 DEF SetProperty
  <2>2. told' = [told EXCEPT !.desired = on]
    BY <1>7 DEF SetProperty
  <2>3. /\ told'.motorOn = told.motorOn /\ told'.desired = on
        /\ told'.available = told.available /\ told'.value = told.value
    BY <2>2 DEF TypeOK
  <2> QED
    BY <2>1, <2>3 DEF ToldIsTrue, Available
<1>8. CASE GetProperties
  <2>1. /\ told'.motorOn = relay /\ told'.desired = desired
        /\ applied.modbus => told'.available = Available(errorCount)
                              /\ told'.value = values
    BY <1>8 DEF GetProperties
  <2>2. UNCHANGED <<applied, desired, relay, errorCount, values>>
    BY <1>8 DEF GetProperties, driveVars
  <2> QED
    BY <2>1, <2>2 DEF ToldIsTrue, Available
<1>9. CASE Restart
  BY <1>9, Unsynced DEF Restart, Boot
<1>10. CASE Due
  BY <1>10, ToldUnchanged DEF Due
<1>11. CASE Break
  BY <1>11, ToldUnchanged DEF Break, driveVars
<1>12. CASE UNCHANGED vars
  BY <1>12, ToldUnchanged DEF vars, driveVars
<1> QED
  BY <1>1, <1>2, <1>3, <1>4, <1>5, <1>6, <1>7, <1>8, <1>9, <1>10, <1>11, <1>12
  DEF Next, ControllersLoop, ConfigLoop

\* Once getProperties has been answered after a reset, what is told of the drive
\* is what the controller has.
THEOREM ToldIsTrueCorrect == Spec => []ToldIsTrue
<1>1. Init => ToldIsTrue
  BY DEF Init, ToldIsTrue
<1>2. TypeOK /\ ToldIsTrue /\ [Next]_vars => ToldIsTrue'
  BY ToldNext
<1> QED
  BY <1>1, <1>2, ProcessorTypeCorrect, PTL DEF Spec
===============================================================================
