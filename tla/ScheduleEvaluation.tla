-------------------------- MODULE ScheduleEvaluation --------------------------
(***************************************************************************)
(* The pure core of the irrigation scheduler: one evaluation of a device's *)
(* schedule (IrrigationScheduleManager.evaluateSchedule in                 *)
(* src/web/aws/src/lib/schedule.ts), as operators on values.               *)
(*                                                                         *)
(* A schedule row is a record with                                         *)
(*   entries    set of [properties, start, end] the user asked for;        *)
(*   state      for every property what the scheduler last did with it;    *)
(*   abort      only switching off is allowed;                             *)
(*   messageId  the one queue message that may evaluate the row.           *)
(*                                                                         *)
(* The code keeps a property's state only while `set || seen`, so "absent" *)
(* is the state with both FALSE and `state` is a total function here.  A   *)
(* reading of a property is the pair of its reported desired and actual    *)
(* value, 0 and 1 being FALSE and TRUE; a property never reported reads    *)
(* FALSE/FALSE, as `value[0] ?? 0` does.                                   *)
(***************************************************************************)
EXTENDS Integers, FiniteSets

CONSTANTS
  Property,         \* the schedulable properties of one device
  SetTimeLimit,     \* time after a change until it counts as failed
  AbortTimeLimit,   \* time after a change during abort until giving up
  ExpiredLimit,     \* failed properties tolerated before an abort
  EvaluateDelay,    \* time between evaluations while a change is pending
  ClearEntryDelay   \* time after its end at which an entry is cleaned up

ASSUME EvaluationAssumption ==
  /\ {SetTimeLimit, AbortTimeLimit, EvaluateDelay, ClearEntryDelay} \subseteq Nat
  /\ ExpiredLimit \in Nat

Entry == [properties : SUBSET Property, start : Nat, end : Nat]

PropertyState ==
  [set : BOOLEAN, seen : BOOLEAN, setTime : Nat, expired : BOOLEAN]

Absent == [set |-> FALSE, seen |-> FALSE, setTime |-> 0, expired |-> FALSE]

Reading == [desired : BOOLEAN, value : BOOLEAN]

IsTracked(s) == s.set \/ s.seen

IsPending(s) == s.set # s.seen

------------------------------------------------------------------------------
(* One property.  `s` is its stored state, `run` whether some entry covers   *)
(* the evaluation time, `d` its reading.                                     *)

Runs(row, p, t) ==
  /\ ~row.abort
  /\ \E e \in row.entries : p \in e.properties /\ e.start <= t /\ t < e.end

TurnsOn(s, run, d) ==
  run /\ (~s.set \/ (~s.seen /\ ~(d.desired /\ d.value)))

TurnsOff(s, run, d) ==
  ~run /\ (s.set \/ (s.seen /\ (d.desired \/ d.value)))

NewSet(s, run, d) ==
  IF TurnsOn(s, run, d) THEN TRUE
  ELSE IF TurnsOff(s, run, d) THEN FALSE ELSE s.set

\* A mutant: switching on does not reset what was seen.
NewSeen_NotReset(s, run, d) ==
  IF TurnsOff(s, run, d) THEN TRUE
  ELSE IF run /\ d.desired /\ d.value THEN TRUE
  ELSE IF ~run /\ ~d.desired /\ ~d.value THEN FALSE
  ELSE s.seen

NewSeen(s, run, d) ==
  IF TurnsOn(s, run, d) THEN FALSE
  ELSE IF TurnsOff(s, run, d) THEN TRUE
  ELSE IF run /\ d.desired /\ d.value THEN TRUE
  ELSE IF ~run /\ ~d.desired /\ ~d.value THEN FALSE
  ELSE s.seen

\* The change has been pending since s.setTime for longer than `limit`.
Overdue(s, t, limit) == t - s.setTime > limit

\* Mutants: an abort never gives up; the state is kept only while set.
NewState_NoGiveUp(s, run, d, abort, t) ==
  LET set     == NewSet(s, run, d)
      seen    == NewSeen(s, run, d)
      changed == set # s.set
  IN  IF ~set /\ ~seen THEN Absent
      ELSE [set     |-> set,
            seen    |-> seen,
            setTime |-> IF changed THEN t ELSE s.setTime,
            expired |-> /\ ~changed /\ set # seen
                        /\ s.expired \/ Overdue(s, t, SetTimeLimit)]

NewState_WhileSet(s, run, d, abort, t) ==
  IF NewSet(s, run, d)
  THEN NewState_NoGiveUp(s, run, d, abort, t)
  ELSE Absent

\* The state kept for a property, `Absent` when the code drops it: nothing to
\* remember any more, or an abort that waited long enough.
NewState(s, run, d, abort, t) ==
  LET set     == NewSet(s, run, d)
      seen    == NewSeen(s, run, d)
      changed == set # s.set
      waiting == ~changed /\ set # seen
  IN  IF \/ ~set /\ ~seen
         \/ waiting /\ abort /\ Overdue(s, t, AbortTimeLimit)
      THEN Absent
      ELSE [set     |-> set,
            seen    |-> seen,
            setTime |-> IF changed THEN t ELSE s.setTime,
            expired |-> waiting /\ (s.expired \/ Overdue(s, t, SetTimeLimit))]

------------------------------------------------------------------------------
(* The whole row, evaluated at time t against the readings rep.              *)

NewStates(row, rep, t) ==
  [p \in Property |->
     NewState(row.state[p], Runs(row, p, t), rep[p], row.abort, t)]

\* More properties have failed than a schedule may survive.
TooManyExpired(states) ==
  Cardinality({p \in Property : states[p].expired}) > ExpiredLimit

SwitchOn(row, rep, t) ==
  {p \in Property : TurnsOn(row.state[p], Runs(row, p, t), rep[p])}

SwitchOff(row, rep, t) ==
  {p \in Property : TurnsOff(row.state[p], Runs(row, p, t), rep[p])}

\* A mutant: only the starts of entries count.
Upcoming_Starts(row, t) ==
  IF row.abort THEN {} ELSE {x \in {e.start : e \in row.entries} : x > t}

\* Start and end times of entries still to come; none count during an abort.
Upcoming(row, t) ==
  IF row.abort THEN {}
  ELSE {x \in {e.start : e \in row.entries} \cup {e.end : e \in row.entries} :
          x > t}

Larger(a, b) == IF a >= b THEN a ELSE b

Smaller(a, b) == IF a <= b THEN a ELSE b

\* The least element of a set of times, as a set: empty for the empty set.
First(S) == {x \in S : \A y \in S : x <= y}

AnyPending(states) == \E p \in Property : IsPending(states[p])

\* The code throws "expected empty property schedule state" here.
Throws(row, states, t) ==
  /\ ~AnyPending(states)
  /\ Upcoming(row, t) = {}
  /\ \E p \in Property : IsTracked(states[p])

\* Mutants: pending changes wait for the next event; operands are swapped.
NextEvaluation_EventsOnly(row, states, t) ==
  {Larger(EvaluateDelay, x - t) : x \in First(Upcoming(row, t))}

NextEvaluation_Swapped(row, states, t) ==
  IF AnyPending(states) THEN {EvaluateDelay}
  ELSE {t - x : x \in First(Upcoming(row, t))}

\* Time to the next evaluation as a set: empty when no more is needed.
NextEvaluation(row, states, t) ==
  IF AnyPending(states) THEN {EvaluateDelay}
  ELSE {Larger(EvaluateDelay, x - t) : x \in First(Upcoming(row, t))}

\* Entries ended ClearEntryDelay ago are removed; newEntries is only part of
\* the result when there are some.
KeptEntries(row, t) == {e \in row.entries : e.end > t - ClearEntryDelay}

==============================================================================
