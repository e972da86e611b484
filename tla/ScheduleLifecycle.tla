-------------------------- MODULE ScheduleLifecycle --------------------------
(***************************************************************************)
(* What the irrigation scheduler promises about each property: it is       *)
(* opened and closed in an orderly way.  A property leaves rest only by    *)
(* being opened, whatever was opened is closed before it is at rest again, *)
(* and a device is only told to switch a property on while it is being     *)
(* opened, and never off while it is being opened or open.                 *)
(***************************************************************************)
CONSTANT Property

VARIABLES
  phase,      \* where each property is in its lifecycle
  commanded   \* the last value the device was told to give it

Phase == {"rest", "opening", "open", "closing"}

\* The moves of one property.  A change may be ordered again while it has not
\* been seen to take effect, and reversed at any time.
Moves ==
  {<<"rest", "opening">>, <<"opening", "open">>, <<"opening", "closing">>,
   <<"open", "closing">>, <<"closing", "opening">>, <<"closing", "rest">>}

Init ==
  /\ phase = [p \in Property |-> "rest"]
  /\ commanded = [p \in Property |-> FALSE]

\* An evaluation moves any number of properties.
Advance ==
  /\ phase' \in [Property -> Phase]
  /\ \A p \in Property :
       phase'[p] = phase[p] \/ <<phase[p], phase'[p]>> \in Moves
  /\ UNCHANGED commanded

CommandOn(p) ==
  /\ phase[p] = "opening"
  /\ commanded' = [commanded EXCEPT ![p] = TRUE]
  /\ UNCHANGED phase

\* At rest as well: when an abort gives a property up it is told once more.
CommandOff(p) ==
  /\ phase[p] \in {"closing", "rest"}
  /\ commanded' = [commanded EXCEPT ![p] = FALSE]
  /\ UNCHANGED phase

Next == Advance \/ \E p \in Property : CommandOn(p) \/ CommandOff(p)

Spec == Init /\ [][Next]_<<phase, commanded>>

==============================================================================
