------------------------------ MODULE Processor -------------------------------
(***************************************************************************)
(* The control processor: the configuration it keeps in RAM and EEPROM     *)
(* (config.cpp), the status of its controllers (controllers.cpp) and the   *)
(* controller of the pump's VACON drive (vacon-100-controller.cpp, in the  *)
(* variant that switches the motor by a relay).                            *)
(*                                                                         *)
(* Everything runs in one loop, so that each handler is one step; a        *)
(* restart may come between any two.  Times are abstracted to whether a    *)
(* periodic task is due.  What is told is what events and answers to       *)
(* getProperties say, see module Reporting for how they get through.       *)
(*                                                                         *)
(* External to the code: the drive on the Modbus, the RF module, clients.  *)
(***************************************************************************)
EXTENDS Integers

CONSTANTS
  ConfigData,     \* configurations a client may send
  Blank,          \* EEPROM content without a configuration that passes the CRC
  None,
  MaxErrorCount,  \* MAX_ERROR_COUNT
  MaxRequests, MaxRestarts, MaxBreaks  \* bounds of the model

\* A configuration as applyConfig sees it: whether its packets have a valid
\* length ("ok" or "invalid"), or name a controller there is none of ("crash");
\* whether the drive has a Modbus, and whether there are remote units.
Config == [outcome : {"ok", "invalid", "crash"}, modbus : BOOLEAN, units : BOOLEAN]

\* configLength = 0: nothing to apply.
NoConfig == [outcome |-> "ok", modbus |-> FALSE, units |-> FALSE]

ASSUME ProcessorAssumption ==
  /\ ConfigData \subseteq Config
  /\ Blank \notin Config /\ None \notin Config
  /\ {MaxErrorCount, MaxRequests, MaxRestarts, MaxBreaks} \subseteq Nat

VARIABLES
  \* Config:
  config, pendingRead, pendingApply, pendingWrite,
  stored,       \* EEPROM, survives a restart
  \* Controllers:
  status, applied,
  \* Vacon100Controller:
  desired,      \* desiredMotorOn
  relay,        \* motorRelayOn and the level of VACON_RELAY_CONTROL_PIN
  idMapUpdated, \* the drive knows which values to report
  mapDue,       \* more than VACON_ID_MAP_UPDATE_INTERVAL since lastIdMapUpdate
  readDue,      \* more than VACON_UPDATE_INTERVAL since lastUpdateTime
  errorCount,   \* MaxErrorCount + 1 stands for all that is more
  values,       \* the values last read, 0 if none
  \* Environment:
  drive,        \* the values the drive has
  answers,      \* the drive answers on the Modbus
  radio,        \* the RF module answers
  \* Bounded by the model:
  requests, restarts, breaks,
  \* Observations:
  told,         \* what was last told of the drive
  synced,       \* getProperties was answered since the last reset
  lastAsked,    \* the last desired value of a client, since the start
  lastSent      \* the last configuration of a client, since the start

configVars == <<config, pendingRead, pendingApply, pendingWrite>>
driveVars == <<desired, relay, idMapUpdated, mapDue, readDue, errorCount, values>>
environmentVars == <<drive, answers, radio, breaks>>
vars == <<configVars, stored, status, applied, driveVars, environmentVars,
          requests, restarts, told, synced, lastAsked, lastSent>>

Unavailable == MaxErrorCount + 1
Available(count) == count <= MaxErrorCount

------------------------------------------------------------------------------
(* The drive's controller *)

\* Mutant: the desired value is that after a start.
Kept_Off == FALSE

\* What reset() leaves the motor desired to be.
Kept == relay

\* reset(): the motor is left as it is.  lastIdMapUpdate and lastUpdateTime
\* become constants, so that it depends on the clock whether they are due.
ResetDrive ==
  /\ desired' = Kept /\ relay' = relay
  /\ idMapUpdated' = FALSE
  /\ mapDue' \in BOOLEAN /\ readDue' \in BOOLEAN
  /\ errorCount' = Unavailable
  /\ values' = 0

\* Mutant: the relay is switched when a read is due.
SwitchRelay_WhenDue(toldBefore) ==
  IF readDue
    THEN /\ relay' = desired
         /\ told' = IF desired # relay THEN [toldBefore EXCEPT !.motorOn = desired]
                                       ELSE toldBefore
    ELSE relay' = relay /\ told' = toldBefore

\* update() to the relay: the last thing it does.
SwitchRelay(toldBefore) ==
  /\ relay' = desired
  /\ told' = IF desired # relay THEN [toldBefore EXCEPT !.motorOn = desired]
                                ELSE toldBefore

\* A read is due when the motor is to be switched, too.
ReadNow == idMapUpdated' /\ (desired # relay \/ readDue)

ReadSucceeds ==
  /\ values' = drive
  /\ readDue' = FALSE
  /\ errorCount' = 0
  /\ SwitchRelay(
       [motorOn |-> told.motorOn, desired |-> told.desired,
        available |-> told.available \/ ~Available(errorCount),
        value |-> IF drive # values THEN drive ELSE told.value])

\* Mutant: becoming unavailable is told one failure late.
Fallen_Late(count) == count = MaxErrorCount + 1

\* updateErrorCount: whether a failure makes the drive unavailable.
Fallen(count) == Available(count) /\ ~Available(count + 1)

\* Mutant: counted without an end.
Counted_Always(count) == count + 1

\* updateErrorCount: the count stops, so that it does not wrap to 0.
Counted(count) == IF count < Unavailable THEN count + 1 ELSE count

\* update() returns: the relay is not switched as long as the drive is mute.
ReadFails ==
  /\ errorCount' = Counted(errorCount)
  /\ told' = IF Fallen(errorCount) THEN [told EXCEPT !.available = FALSE] ELSE told
  /\ UNCHANGED <<relay, values, readDue>>

UpdateDrive ==
  /\ IF applied.modbus /\ mapDue
       THEN mapDue' = FALSE /\ idMapUpdated' = (idMapUpdated \/ answers)
       ELSE UNCHANGED <<mapDue, idMapUpdated>>
  /\ \/ ReadNow /\ answers /\ ReadSucceeds
     \/ ReadNow /\ ~answers /\ ReadFails
     \/ ~ReadNow /\ SwitchRelay(told) /\ UNCHANGED <<errorCount, values, readDue>>
  /\ UNCHANGED desired

------------------------------------------------------------------------------
(* The main loop *)

\* Controllers::loop: beginControllers fails when there are remote units and the
\* RF module does not answer.  That the Modbus client does not start changes nothing
\* either, and it is taken to start in the end.
BeginControllers ==
  /\ status = "Initializing"
  /\ applied.units => radio
  /\ status' = "Ready"
  /\ UNCHANGED <<configVars, stored, applied, driveVars, environmentVars,
                 requests, restarts, told, synced, lastAsked, lastSent>>

UpdateControllers ==
  /\ status = "Ready"
  /\ UpdateDrive
  /\ UNCHANGED <<configVars, stored, status, applied, environmentVars, requests,
                 restarts, synced, lastAsked, lastSent>>

\* The state of the RAM after a start, with setup().
Boot ==
  /\ status' = "Unconfigured" /\ applied' = NoConfig
  /\ config' = NoConfig
  /\ pendingRead' = TRUE /\ pendingApply' = FALSE /\ pendingWrite' = FALSE
  /\ desired' = FALSE /\ relay' = FALSE
  /\ idMapUpdated' = FALSE /\ mapDue' \in BOOLEAN /\ readDue' \in BOOLEAN
  /\ errorCount' = Unavailable /\ values' = 0
  /\ synced' = FALSE /\ lastAsked' = FALSE /\ lastSent' = None
  /\ UNCHANGED <<stored, environmentVars, requests, told>>

\* readConfig: nothing is taken from an EEPROM without a valid configuration.
ReadConfig ==
  /\ pendingRead
  /\ pendingRead' = FALSE
  /\ IF stored # Blank
       THEN config' = stored /\ pendingWrite' = FALSE /\ pendingApply' = TRUE
       ELSE /\ pendingApply' = (pendingApply \/ status = "Unconfigured")
            /\ UNCHANGED <<config, pendingWrite>>
  /\ UNCHANGED <<stored, status, applied, driveVars, environmentVars, requests,
                 restarts, told, synced, lastAsked, lastSent>>

\* The conditions of Config::loop for applyConfig.
MayApply == ~pendingRead /\ (pendingApply \/ status = "Unconfigured")

\* applyConfig, tried again until it succeeds.  There is no check of the
\* controller a packet is for, so that one for an unknown controller ends in a
\* restart.
ApplyConfig ==
  /\ MayApply
  /\ IF config.outcome = "crash"
       THEN restarts < MaxRestarts /\ restarts' = restarts + 1 /\ Boot
       ELSE /\ ResetDrive
            /\ synced' = FALSE
            /\ IF config.outcome = "ok"
                 THEN /\ applied' = config /\ status' = "Initializing"
                      /\ pendingApply' = FALSE
                 ELSE /\ applied' = NoConfig /\ status' = "Unconfigured"
                      /\ pendingApply' = TRUE
            /\ UNCHANGED <<config, pendingRead, pendingWrite, stored,
                           environmentVars, requests, restarts, told, lastAsked,
                           lastSent>>

\* Mutant: written before it is applied.
MayWrite_Early == ~pendingRead /\ pendingWrite

\* The conditions of Config::loop for writeConfig.
MayWrite ==
  ~pendingRead /\ ~pendingApply /\ status # "Unconfigured" /\ pendingWrite

\* writeConfig: only what has been applied is written.
WriteConfig ==
  /\ MayWrite
  /\ stored' = config
  /\ pendingWrite' = FALSE
  /\ UNCHANGED <<config, pendingRead, pendingApply, status, applied, driveVars,
                 environmentVars, requests, restarts, told, synced, lastAsked,
                 lastSent>>

------------------------------------------------------------------------------
(* Messages, see handleMessage of main.cpp *)

Request == requests < MaxRequests /\ requests' = requests + 1

\* Mutant: the configuration stored is still to be read.
SetConfig_ReadLater(c) ==
  /\ Request
  /\ config' = c /\ lastSent' = c
  /\ pendingWrite' = TRUE /\ pendingApply' = TRUE
  /\ UNCHANGED <<pendingRead, stored, status, applied, driveVars,
                 environmentVars, restarts, told, synced, lastAsked>>

SetConfig(c) ==
  /\ Request
  /\ config' = c /\ lastSent' = c
  /\ pendingRead' = FALSE /\ pendingWrite' = TRUE /\ pendingApply' = TRUE
  /\ UNCHANGED <<stored, status, applied, driveVars, environmentVars, restarts,
                 told, synced, lastAsked>>

\* setPropertyValue for the motor; ignored while there is no configuration.
SetProperty(on) ==
  /\ Request
  /\ status # "Unconfigured"
  /\ desired' = on /\ lastAsked' = on
  /\ told' = [told EXCEPT !.desired = on]
  /\ UNCHANGED <<configVars, stored, status, applied, relay, idMapUpdated, mapDue,
                 readDue, errorCount, values, environmentVars, restarts, synced,
                 lastSent>>

\* sendPropertyState: without a Modbus the motor is the drive's only property.
GetProperties ==
  /\ status # "Unconfigured"
  /\ synced' = TRUE
  /\ told' = [motorOn |-> relay, desired |-> desired,
              available |-> IF applied.modbus THEN Available(errorCount)
                                              ELSE told.available,
              value |-> IF applied.modbus THEN values ELSE told.value]
  /\ UNCHANGED <<configVars, stored, status, applied, driveVars, environmentVars,
                 requests, restarts, lastAsked, lastSent>>

------------------------------------------------------------------------------
(* The environment *)

\* Power loss, prolonged disconnection or a firmware update.
Restart == restarts < MaxRestarts /\ restarts' = restarts + 1 /\ Boot

Due ==
  /\ \/ ~mapDue /\ mapDue' = TRUE /\ UNCHANGED readDue
     \/ ~readDue /\ readDue' = TRUE /\ UNCHANGED mapDue
  /\ UNCHANGED <<configVars, stored, status, applied, desired, relay,
                 idMapUpdated, errorCount, values, environmentVars, requests,
                 restarts, told, synced, lastAsked, lastSent>>

Break ==
  /\ breaks < MaxBreaks /\ breaks' = breaks + 1
  /\ \/ drive' = 1 - drive /\ UNCHANGED <<answers, radio>>
     \/ answers' = ~answers /\ UNCHANGED <<drive, radio>>
     \/ radio' = ~radio /\ UNCHANGED <<drive, answers>>
  /\ UNCHANGED <<configVars, stored, status, applied, driveVars, requests,
                 restarts, told, synced, lastAsked, lastSent>>

Init ==
  /\ status = "Unconfigured" /\ applied = NoConfig
  /\ config = NoConfig /\ stored = Blank
  /\ pendingRead = TRUE /\ pendingApply = FALSE /\ pendingWrite = FALSE
  /\ desired = FALSE /\ relay = FALSE
  /\ idMapUpdated = FALSE /\ mapDue \in BOOLEAN /\ readDue \in BOOLEAN
  /\ errorCount = Unavailable /\ values = 0
  /\ drive = 0 /\ answers = TRUE /\ radio = TRUE
  /\ requests = 0 /\ restarts = 0 /\ breaks = 0
  /\ told = [motorOn |-> FALSE, desired |-> FALSE, available |-> FALSE, value |-> 0]
  /\ synced = FALSE /\ lastAsked = FALSE /\ lastSent = None

ControllersLoop == BeginControllers \/ UpdateControllers
ConfigLoop == ReadConfig \/ ApplyConfig \/ WriteConfig

Next ==
  \/ ControllersLoop \/ ConfigLoop
  \/ \E c \in ConfigData : SetConfig(c)
  \/ \E on \in BOOLEAN : SetProperty(on)
  \/ GetProperties \/ Restart \/ Due \/ Break

Spec == Init /\ [][Next]_vars

\* The main loop runs; writes to the EEPROM succeed in the end.
FairSpec == Spec /\ WF_vars(ControllersLoop) /\ WF_vars(ConfigLoop)

------------------------------------------------------------------------------
(* Properties *)

TypeOK ==
  /\ config \in Config /\ applied \in Config /\ stored \in Config \cup {Blank}
  /\ pendingRead \in BOOLEAN /\ pendingApply \in BOOLEAN /\ pendingWrite \in BOOLEAN
  /\ status \in {"Unconfigured", "Initializing", "Ready"}
  /\ desired \in BOOLEAN /\ relay \in BOOLEAN /\ idMapUpdated \in BOOLEAN
  /\ mapDue \in BOOLEAN /\ readDue \in BOOLEAN
  /\ errorCount \in 0 .. Unavailable /\ values \in 0 .. 1
  /\ drive \in 0 .. 1 /\ answers \in BOOLEAN /\ radio \in BOOLEAN
  /\ requests \in Nat /\ restarts \in Nat /\ breaks \in Nat
  /\ told \in [motorOn : BOOLEAN, desired : BOOLEAN, available : BOOLEAN,
               value : 0 .. 1]
  /\ synced \in BOOLEAN /\ lastAsked \in BOOLEAN
  /\ lastSent \in Config \cup {None}

\* Only a configuration that could be applied gets into the EEPROM, so that a
\* restart is always a way out of one that cannot.
StoredApplies == stored # Blank => stored.outcome = "ok"

\* A configuration that a client sends is not replaced by the stored one, in
\* whatever order it comes with the reading of the EEPROM after a start.
SentKept == lastSent # None => config = lastSent

\* Once getProperties has been answered after a reset, what is told of the
\* drive is what the controller has: every change raises its event.
ToldIsTrue ==
  synced => /\ told.motorOn = relay /\ told.desired = desired
            /\ applied.modbus => /\ told.available = Available(errorCount)
                                 /\ told.value = values

\* The motor is switched as a client asked last, or off by a restart, and never
\* by a new configuration ("begin" and "reset" may be called any number of
\* times, controller.h).
SwitchedAsAsked ==
  relay' # relay => relay' = lastAsked \/ (relay' = FALSE /\ restarts' # restarts)
PumpKept == [][SwitchedAsAsked]_vars

\* The motor is switched in the end, as long as the drive answers on its Modbus
\* and the controllers can begin: a mute drive keeps the relay where it is.
PumpSwitches == desired # relay ~> desired = relay \/ ~answers \/ ~radio

\* What a client sends is stored in the end if it is valid, in whatever order
\* it comes with the reading of the stored one after a start, and whether or
\* not the controllers can begin.
Persisted ==
  \A c \in ConfigData :
    lastSent = c ~> stored = c \/ lastSent # c \/ c.outcome # "ok"
===============================================================================
