---------------------------- MODULE SolenoidValves ----------------------------
(***************************************************************************)
(* What the state byte of a remote unit says of its latching valves, and   *)
(* the pulses that Solenoids::setState sends.  A valve moves on a pulse    *)
(* and stays where it is, without power too.                               *)
(***************************************************************************)
CONSTANT Valve

\* `force` is SOLENOID_FORCE_FLAG: in a state, the valves are not known; in a
\* value asked for, all valves shall be driven.
SolenoidState == [force : BOOLEAN, on : SUBSET Valve]

Closed == [force |-> FALSE, on |-> {}]

\* The state after a start.
Unknown == [force |-> TRUE, on |-> {}]

\* Mutant: whether the valves are known is not considered.
AssumedOn_Known(state, asked) == IF asked.force THEN Valve \ asked.on ELSE state.on

\* The valves setState takes to be on: where the flag is set, the opposite of
\* those asked for, so that each of them is pulsed.
AssumedOn(state, asked) ==
  IF state.force \/ asked.force THEN Valve \ asked.on ELSE state.on

TurnOn(state, asked) == asked.on \ AssumedOn(state, asked)
TurnOff(state, asked) == AssumedOn(state, asked) \ asked.on
Pulsed(state, asked) == TurnOn(state, asked) \cup TurnOff(state, asked)

\* setState: the new state.
Driven(state, asked) ==
  [force |-> FALSE,
   on |-> (AssumedOn(state, asked) \cup TurnOn(state, asked))
          \ TurnOff(state, asked)]
==============================================================================
