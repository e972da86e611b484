------------------------------ MODULE RadioLink -------------------------------
(***************************************************************************)
(* The remote unit controller of the control processor and the units it    *)
(* polls over the radio.  The controller keeps an actual and a desired     *)
(* value for the valves of a unit, sends the desired value with each       *)
(* heartbeat, and takes both from the answer.                              *)
(*                                                                         *)
(* Requests and answers may be lost, and an answer may come after the      *)
(* controller has stopped waiting for it; it then stays in the serial      *)
(* buffer.  Units restart, shut their valves when they hear nothing, and   *)
(* refuse to open them on a low battery (module RemoteUnit has the unit in *)
(* detail).  Time is counted in the controller's unit of 2^14 ms.          *)
(***************************************************************************)
EXTENDS Integers, Sequences, FiniteSets, SolenoidValves

CONSTANTS
  UnitCount,         \* remote units, known by their index
  TimeRange,         \* number of values of a time (2^16)
  Interval, ActiveInterval,  \* REMOTE_UNIT_(ACTIVE_)UPDATE_INTERVAL
  AvailableFailureCount, ActiveRetryCount,
  MaxFailCount,      \* failures counted at most (7)
  UnitTimeout,       \* communication timeout of the units
  MaxRequests,       \* bound: requests of clients and resets
  MaxFaults,         \* bound: messages lost or late, and restarts of units
  BeginLimit,        \* bound: how long begin() fails at most
  Subject,           \* bound: the units these are about
  Indeterminate, None

Unit == 1 .. UnitCount

\* A packet under way: for or from `unit`, either a heartbeat or a single
\* command of a client; `value` is what is asked for (None for
\* GetSolenoidState) or answered.  Observed are whether the unit `refused` to
\* open its valves, and whether the controller has stopped waiting (`late`).
Packet(values) == [unit : Unit, heartbeat : BOOLEAN, value : values,
                   refused : BOOLEAN, late : BOOLEAN]
Message == Packet(SolenoidState \cup {None})
Answer == Packet(SolenoidState)

ASSUME LinkAssumption ==
  /\ {UnitCount, TimeRange, Interval, ActiveInterval, MaxFailCount}
       \subseteq Nat \ {0}
  /\ {AvailableFailureCount, ActiveRetryCount, UnitTimeout, MaxRequests,
      MaxFaults, BeginLimit} \subseteq Nat
  /\ ActiveInterval <= Interval
  /\ Subject \subseteq 1 .. UnitCount
  /\ Indeterminate \notin SolenoidState
  /\ None \notin SolenoidState \cup Message \cup [unit : Unit, heartbeat : BOOLEAN]

\* RemoteUnitState.
Remote == [known : BOOLEAN,              \* hasSolenoidOn
           on : SolenoidState, desired : SolenoidState \cup {Indeterminate},
           fails : 0 .. MaxFailCount,    \* updateFailCount
           available : BOOLEAN]

VARIABLES
  begun,     \* begin() has succeeded since the last reset()
  remote,    \* RemoteUnitState of each unit
  overdue,   \* now - nextUpdateTime of each unit, unsigned
  waiting,   \* the exchange under way, or None
  spent,     \* time since the exchange began
  air,       \* the request under way to a unit, or None
  reply,     \* the answer under way to the controller, or None
  input,     \* answers in the serial buffer of the controller
  state,     \* what each unit takes its valves to be
  silence,   \* time since a unit last answered, counted while valves are open
  \* Bounded by the model:
  requests, faults,
  \* Observations:
  told,      \* the actual and desired values last told by an event
  drift,     \* what came between the controller's value and the unit
  missed     \* failed exchanges since a unit was last reached

unitVars == <<state, silence>>
radioVars == <<air, reply, input>>
boundVars == <<requests, faults>>
vars == <<begun, remote, overdue, waiting, spent, radioVars, unitVars,
          boundVars, told, drift, missed>>

\* Mutant: the count has no limit.
Capped_Not(n, greatest) == n

\* The least of a number and the greatest value it is counted to.
Capped(n, greatest) == IF n > greatest THEN greatest ELSE n

Fresh == [known |-> FALSE, on |-> Closed, desired |-> Indeterminate,
          fails |-> 0, available |-> FALSE]
Untold == [on |-> [v \in Valve |-> None], desired |-> [v \in Valve |-> None]]

------------------------------------------------------------------------------
(* Scheduling of the updates *)

\* nextUpdateTime = now + delay, for a `now` that was read `ago` ago.
DueIn(delay, ago) == (ago - delay) % TimeRange

IsDue(u) == overdue[u] < TimeRange \div 2

ChangeDue(u) == remote[u].desired \notin {Indeterminate, remote[u].on}

\* First the units with a change to apply, then the one that is most overdue,
\* then the one with the highest index.
Precedes(u, v) ==
  \/ ChangeDue(u) /\ ~ChangeDue(v)
  \/ ChangeDue(u) = ChangeDue(v) /\ overdue[u] > overdue[v]
  \/ ChangeDue(u) = ChangeDue(v) /\ overdue[u] = overdue[v] /\ u >= v

Chosen(u) == IsDue(u) /\ \A v \in Unit : IsDue(v) => Precedes(u, v)

\* 2 << n
Shifted[n \in Nat] == IF n = 0 THEN 2 ELSE 2 * Shifted[n - 1]

\* Mutant: shifted once too often.
Backoff_Twice(u, fails) ==
  IF ChangeDue(u) /\ fails <= ActiveRetryCount THEN 0 ELSE Shifted[fails + 1]

\* The delay after a failure: none for the first attempts to apply a change,
\* then 2 << updateFailCount.
Backoff(u, fails) ==
  IF ChangeDue(u) /\ fails <= ActiveRetryCount THEN 0 ELSE Shifted[fails]

------------------------------------------------------------------------------
(* The controller.  While it waits for an answer it does nothing else. *)

Request == requests < MaxRequests /\ requests' = requests + 1 /\ UNCHANGED faults

\* reset(): for a new configuration or after a restart.
Reset ==
  /\ waiting = None
  /\ Request
  /\ begun' = FALSE
  /\ remote' = [u \in Unit |-> Fresh]
  /\ overdue' = [u \in Unit |-> 0]
  /\ told' = [u \in Unit |-> Untold]
  /\ UNCHANGED <<waiting, spent, radioVars, unitVars, drift, missed>>

\* begin(): applyRfConfig reads away all that is in the serial buffer.  It fails
\* when the RF module gives no answer, and the main loop tries again.
Begin(answers) ==
  /\ ~begun /\ waiting = None
  /\ begun' = answers
  /\ input' = <<>>
  /\ UNCHANGED <<remote, overdue, waiting, spent, air, reply, unitVars,
                 boundVars, told, drift, missed>>

\* The desired value with one valve changed; an indeterminate one is that
\* which was last heard.
Wanted(u) ==
  IF remote[u].desired = Indeterminate THEN remote[u].on ELSE remote[u].desired
WithValve(value, valve, isOn) ==
  [force |-> value.force,
   on |-> IF isOn THEN value.on \cup {valve} ELSE value.on \ {valve}]

Desiring(r, value, fails) ==
  [known |-> r.known, on |-> r.on, desired |-> value, fails |-> fails,
   available |-> r.available]

\* setPropertyDesiredValue for one valve of a unit.
SetDesired(u, valve, isOn) ==
  /\ waiting = None
  /\ Request
  /\ LET after == WithValve(Wanted(u), valve, isOn)
     IN  /\ IF after # remote[u].on
              THEN /\ remote' = [remote EXCEPT ![u] = Desiring(@, after, 0)]
                   /\ overdue' = [overdue EXCEPT ![u] = 0]
              ELSE /\ remote' = [remote EXCEPT ![u] = Desiring(@, after, @.fails)]
                   /\ UNCHANGED overdue
         /\ told' = IF after # Wanted(u)
                      THEN [told EXCEPT ![u] =
                              [on |-> @.on,
                               desired |-> [@.desired EXCEPT ![valve] = isOn]]]
                      ELSE told
  /\ UNCHANGED <<begun, waiting, spent, radioVars, unitVars, drift, missed>>

\* A request is written to the serial port.  The radio has one at a time.
Send(u, heartbeat, value) ==
  /\ waiting = None /\ air = None
  /\ waiting' = [unit |-> u, heartbeat |-> heartbeat]
  /\ spent' = 0
  /\ air' = [unit |-> u, heartbeat |-> heartbeat, value |-> value,
             refused |-> FALSE, late |-> FALSE]
  /\ UNCHANGED <<begun, remote, overdue, reply, input, unitVars, faults, told,
                 drift, missed>>

\* Mutant: nothing is set before a unit was heard.
Asked_WhenHeard(u) ==
  IF ~remote[u].known \/ remote[u].desired = Indeterminate
    THEN None ELSE remote[u].desired

\* What a heartbeat asks for.
Asked(u) == IF remote[u].desired = Indeterminate THEN None ELSE remote[u].desired

\* update(): GetBatteryVoltage, ClearFaults and Get- or SetSolenoidState.
Update(u) ==
  /\ begun /\ Chosen(u)
  /\ Send(u, TRUE, Asked(u))
  /\ UNCHANGED requests

\* runCommand: a client sends a command to a unit.
RunCommand(u, value) ==
  /\ requests < MaxRequests /\ requests' = requests + 1
  /\ Send(u, FALSE, value)

\* runCommand: a client asks for the signal strength.  What is in the serial
\* buffer is read away first.
ReadSignal ==
  /\ waiting = None
  /\ input' = <<>>
  /\ UNCHANGED <<begun, remote, overdue, waiting, spent, air, reply, unitVars,
                 boundVars, told, drift, missed>>

\* The exchange is over: what is still under way will come too late.
EndExchange ==
  LET late(m) == IF m = None THEN None ELSE [m EXCEPT !.late = TRUE]
  IN  /\ waiting' = None
      /\ spent' = 0
      /\ input' = <<>>
      /\ air' = late(air)
      /\ reply' = late(reply)
      /\ UNCHANGED <<begun, unitVars, requests>>

\* The second half of update() after a failure.
Fail(u) ==
  LET fails == Capped(remote[u].fails + 1, MaxFailCount)
  IN  /\ remote' = [remote EXCEPT ![u] =
                      [known |-> @.known, on |-> @.on, desired |-> @.desired,
                       fails |-> fails,
                       available |-> @.available /\ fails <= AvailableFailureCount]]
      /\ overdue' = [overdue EXCEPT ![u] = DueIn(Backoff(u, fails), spent)]
      /\ missed' = [missed EXCEPT ![u] = Capped(@ + 1, MaxFailCount)]
      /\ UNCHANGED <<told, drift>>

\* Mutant: also when nothing was known, only changes are told.
SameOn_Unknown(u, v, value) == (v \in remote[u].on.on) = (v \in value.on)

\* What handleSolenoidValuesChanged takes for unchanged, and does not tell.
SameOn(u, v, value) ==
  remote[u].known /\ (v \in remote[u].on.on) = (v \in value.on)
SameDesired(u, v, value) ==
  /\ remote[u].known \/ remote[u].desired # Indeterminate
  /\ (v \in Wanted(u).on) = (v \in value.on)

Tell(u, value) ==
  [on |-> [v \in Valve |-> IF SameOn(u, v, value) THEN told[u].on[v]
                                                  ELSE v \in value.on],
   desired |-> [v \in Valve |-> IF SameDesired(u, v, value) THEN told[u].desired[v]
                                                            ELSE v \in value.on]]

\* The delay to the next heartbeat.
NextIn(value) == IF value = Closed THEN Interval ELSE ActiveInterval

\* Mutant: what is desired stays as it was.
Take_Desired(u, value, late) ==
  /\ remote' = [remote EXCEPT ![u] =
                  [known |-> TRUE, on |-> value, desired |-> Wanted(u),
                   fails |-> 0, available |-> TRUE]]
  /\ overdue' = [overdue EXCEPT ![u] = DueIn(NextIn(value), spent)]
  /\ told' = [told EXCEPT ![u] = Tell(u, value)]
  /\ drift' = [drift EXCEPT ![u] = IF late THEN @ \cup {"late"}
                                          ELSE @ \ {"late", "unanswered"}]
  /\ missed' = [missed EXCEPT ![u] = 0]

\* handleRemoteUnitResponse and the second half of update(): both the actual
\* and the desired value become those of the answer.
Take(u, value, late) ==
  /\ remote' = [remote EXCEPT ![u] =
                  [known |-> TRUE, on |-> value, desired |-> value,
                   fails |-> 0, available |-> TRUE]]
  /\ overdue' = [overdue EXCEPT ![u] = DueIn(NextIn(value), spent)]
  /\ told' = [told EXCEPT ![u] = Tell(u, value)]
  /\ drift' = [drift EXCEPT ![u] = IF late THEN @ \cup {"late"}
                                          ELSE @ \ {"late", "unanswered"}]
  /\ missed' = [missed EXCEPT ![u] = 0]

\* Mutant: takes it that what was asked for was done.
Accept_Asked(u, answer) == Take(u, Wanted(u), answer.late)

Accept(u, answer) == Take(u, answer.value, answer.late)

\* updateRemoteUnit reads all there is: two answers fail the CRC, that to a
\* client's command has another number of commands.
Acceptable(u) == Len(input) = 1 /\ input[1].heartbeat /\ input[1].unit = u

ReadAnswer(u) ==
  /\ waiting = [unit |-> u, heartbeat |-> TRUE]
  /\ input # <<>>
  /\ IF Acceptable(u) THEN Accept(u, input[1]) ELSE Fail(u)
  /\ EndExchange /\ UNCHANGED faults

\* Something goes wrong that the model bounds.
Fault(u) == u \in Subject /\ faults < MaxFaults /\ faults' = faults + 1

\* Nothing arrives within REMOTE_UNIT_TIMEOUT.
NoAnswer(u) ==
  IF air = None /\ reply = None THEN UNCHANGED faults ELSE Fault(u)

Timeout(u) ==
  /\ waiting = [unit |-> u, heartbeat |-> TRUE]
  /\ input = <<>>
  /\ NoAnswer(u)
  /\ Fail(u)
  /\ EndExchange

\* A client's command ends.  It takes what it reads for the answer, whatever
\* that is.
EndCommand(u) ==
  /\ waiting = [unit |-> u, heartbeat |-> FALSE]
  /\ IF input = <<>> THEN NoAnswer(u) ELSE UNCHANGED faults
  /\ EndExchange
  /\ UNCHANGED <<remote, overdue, told, drift, missed>>

------------------------------------------------------------------------------
(* The units and the radio *)

controllerVars == <<begun, remote, overdue, waiting, spent, told, missed, requests>>

\* A unit executes a request and answers.  It may refuse to open valves, for
\* want of battery.
Hear(refused) ==
  /\ air # None /\ reply = None
  /\ refused => air.value \notin {None, Closed}
  /\ LET u == air.unit
         after == IF air.value = None THEN state[u]
                  ELSE Driven(state[u], IF refused THEN Closed ELSE air.value)
     IN  /\ state' = [state EXCEPT ![u] = after]
         /\ reply' = [unit |-> u, heartbeat |-> air.heartbeat, value |-> after,
                      refused |-> refused, late |-> air.late]
         /\ silence' = [silence EXCEPT ![u] = 0]
         /\ drift' = [drift EXCEPT ![u] = IF air.heartbeat
                                          THEN {"unanswered"} \cup (@ \cap {"late"})
                                          ELSE @ \cup {"command"}]
  /\ air' = None
  /\ UNCHANGED <<controllerVars, input, faults>>

\* The answer reaches the serial buffer of the controller.
Arrive ==
  /\ reply # None
  /\ input' = Append(input, reply)
  /\ reply' = None
  /\ UNCHANGED <<controllerVars, air, unitVars, faults, drift>>

Lose ==
  /\ \/ air # None /\ Fault(air.unit) /\ air' = None /\ UNCHANGED reply
     \/ reply # None /\ Fault(reply.unit) /\ reply' = None /\ UNCHANGED air
  /\ UNCHANGED <<controllerVars, input, unitVars, drift>>

MustExpire(u) == silence[u] > UnitTimeout /\ state[u].on # {}

\* A unit shuts its valves when it has heard nothing for its timeout.
Expire(u) ==
  /\ MustExpire(u)
  /\ state' = [state EXCEPT ![u] = Driven(@, Closed)]
  /\ drift' = [drift EXCEPT ![u] = @ \cup {"expired"}]
  /\ silence' = [silence EXCEPT ![u] = 0]
  /\ UNCHANGED <<controllerVars, radioVars, faults>>

UnitRestart(u) ==
  /\ Fault(u)
  /\ state' = [state EXCEPT ![u] = Unknown]
  /\ silence' = [silence EXCEPT ![u] = 0]
  /\ drift' = [drift EXCEPT ![u] = @ \cup {"restarted"}]
  /\ UNCHANGED <<controllerVars, radioVars>>

\* Time passes: at most one tick during an exchange, which takes 8 seconds at
\* most, and otherwise while there is nothing to do or begin() is not done.
Tick ==
  /\ \A u \in Unit : ~MustExpire(u)
  /\ IF waiting = None
       THEN (begun => \A u \in Unit : ~IsDue(u)) /\ UNCHANGED spent
       ELSE spent = 0 /\ spent' = 1
  /\ begun \/ \A u \in Unit : overdue[u] < BeginLimit
  /\ overdue' = [u \in Unit |-> (overdue[u] + 1) % TimeRange]
  /\ silence' = [u \in Unit |-> IF state[u].on = {} THEN 0
                               ELSE Capped(silence[u] + 1, UnitTimeout + 1)]
  /\ drift' = [u \in Unit |-> IF begun \/ state[u].on = {} THEN drift[u]
                               ELSE drift[u] \cup {"unbegun"}]
  /\ UNCHANGED <<begun, remote, waiting, radioVars, state, boundVars, told, missed>>

------------------------------------------------------------------------------
\* The controller and the units have just been switched on.
Init ==
  /\ begun = FALSE
  /\ remote = [u \in Unit |-> Fresh]
  /\ overdue = [u \in Unit |-> 0]
  /\ waiting = None /\ spent = 0
  /\ air = None /\ reply = None /\ input = <<>>
  /\ state = [u \in Unit |-> Unknown]
  /\ silence = [u \in Unit |-> 0]
  /\ requests = 0 /\ faults = 0
  /\ told = [u \in Unit |-> Untold]
  /\ drift = [u \in Unit |-> {"restarted"}]
  /\ missed = [u \in Unit |-> 0]

Controller ==
  \/ \E answers \in BOOLEAN : Begin(answers)
  \/ \E u \in Unit : Update(u) \/ ReadAnswer(u) \/ Timeout(u) \/ EndCommand(u)

Client ==
  \/ Reset \/ ReadSignal
  \/ \E u \in Subject, v \in Valve, isOn \in BOOLEAN : SetDesired(u, v, isOn)
  \/ \E u \in Subject, value \in {None, Closed, [force |-> FALSE, on |-> Valve]} :
       RunCommand(u, value)

Radio == Arrive \/ \E refused \in BOOLEAN : Hear(refused)

Next ==
  \/ Controller \/ Client \/ Radio \/ Lose \/ Tick
  \/ \E u \in Unit : Expire(u) \/ UnitRestart(u)

Spec == Init /\ [][Next]_vars

\* The main loop runs, the RF module answers begin() in the end, and what is
\* sent arrives or is lost.
FairSpec ==
  /\ Spec
  /\ WF_vars(Controller) /\ WF_vars(Radio) /\ WF_vars(Tick)
  /\ \A u \in Unit : WF_vars(Expire(u))

------------------------------------------------------------------------------
(* Properties *)

TypeOK ==
  /\ begun \in BOOLEAN
  /\ remote \in [Unit -> Remote]
  /\ overdue \in [Unit -> 0 .. TimeRange - 1]
  /\ waiting \in [unit : Unit, heartbeat : BOOLEAN] \cup {None}
  /\ spent \in 0 .. 1
  /\ air \in Message \cup {None} /\ reply \in Answer \cup {None}
  /\ input \in Seq(Answer)
  /\ state \in [Unit -> SolenoidState]
  /\ silence \in [Unit -> 0 .. UnitTimeout + 1]
  /\ requests \in 0 .. MaxRequests /\ faults \in 0 .. MaxFaults
  /\ told \in [Unit -> [on : [Valve -> BOOLEAN \cup {None}],
                        desired : [Valve -> BOOLEAN \cup {None}]]]
  /\ drift \in [Unit -> SUBSET {"restarted", "expired", "command", "unanswered",
                                "late", "unbegun"}]
  /\ missed \in [Unit -> 0 .. MaxFailCount]

\* What the controller has for the valves of a unit is the state of the unit,
\* except after one of the things `drift` names: the unit restarted, shut its
\* valves on its own, executed a request whose answer was not taken, executed a
\* client's command, or the answer taken was that to an earlier request, as
\* nothing empties the serial buffer before a request is sent.
ReportedIsTrue ==
  \A u \in Unit : remote[u].known /\ drift[u] = {} => remote[u].on = state[u]

\* The events have told the value that the controller has, and the desired
\* value too, but for that set to off before the unit was first heard.
Told ==
  \A u \in Unit, v \in Valve : remote[u].known =>
    /\ told[u].on[v] = (v \in remote[u].on.on)
    /\ told[u].desired[v] \in {(v \in Wanted(u).on), None}

\* A unit that is not due is never further from its next update than the longest
\* delay, for all wrapping and shifting of 16 bits ("limit backoff delay to ~70
\* minutes").
LongestDelay ==
  IF Shifted[MaxFailCount] > Interval THEN Shifted[MaxFailCount] ELSE Interval
NotForgotten ==
  \A u \in Unit : IsDue(u) \/ TimeRange - overdue[u] <= LongestDelay

\* A command of a client is kept until it is applied, replaced by a later one
\* or refused by the unit: what else takes its place is a late answer.
KeepsCommand ==
  \A u \in Unit :
    remote[u].desired # Indeterminate /\ waiting # None =>
      \/ remote'[u].desired.on = remote[u].desired.on
      \/ input[1].refused \/ input[1].late
CommandKept == [][KeepsCommand]_vars

\* The number of attempts to reach a unit with open valves before it shuts
\* them: each 2 << n after the one before, and an exchange with every unit.
Attempts ==
  Cardinality({n \in 0 .. MaxFailCount :
                 ActiveInterval + 2^(n + 2) - 4 + (n + 1) * UnitCount <= UnitTimeout})

\* A unit that shuts its valves on its own has missed several heartbeats: the
\* active interval and the delays leave time for retries.  Not so where the
\* controller takes the valves for shut, after a command or a late answer, nor
\* where time went by before begin() succeeded: no heartbeat is sent then.
ExpiresUnheard ==
  \A u \in Unit :
    "expired" \in drift'[u] \ drift[u] =>
      missed[u] >= Attempts \/ drift[u] \cap {"command", "late", "unbegun"} # {}
ExpiresOnlyUnheard == [][ExpiresUnheard]_vars

\* An answer that the controller has stopped waiting for.
Stale == input # <<>> /\ input[1].late

\* A change that is due is applied in the end, or dropped for what the unit
\* answers ("apply pending changes if necessary", controller.h): as long as no
\* answer comes too late.  Once one does, two units whose updates take turns may
\* each be taken for the other for ever.
ChangeSettles == \A u \in Subject : ChangeDue(u) ~> ~ChangeDue(u) \/ Stale
==============================================================================
