------------------------- MODULE SolenoidValvesProofs -------------------------
(***************************************************************************)
(* Lemmas about the state byte of a unit, for every set of valves.         *)
(***************************************************************************)
EXTENDS SolenoidValves, TLAPS

\* What setState makes of a state is a state in which the valves are known.
LEMMA DrivenType ==
  ASSUME NEW s \in SolenoidState, NEW asked \in SolenoidState
  PROVE  /\ Driven(s, asked) \in SolenoidState
         /\ ~Driven(s, asked).force
         /\ Driven(s, asked).on = asked.on
<1>1. asked.on \subseteq Valve /\ s.on \subseteq Valve
  BY DEF SolenoidState
<1>2. Driven(s, asked).on = asked.on
  BY <1>1 DEF Driven, TurnOn, TurnOff, AssumedOn
<1>3. Driven(s, asked) = [force |-> FALSE, on |-> asked.on]
  BY <1>2 DEF Driven
<1> QED
  BY <1>1, <1>3 DEF SolenoidState

LEMMA ClosedType == Closed \in SolenoidState /\ Unknown \in SolenoidState
BY DEF Closed, Unknown, SolenoidState

\* A valve that gets no pulse is where the state says, and is asked to be there.
LEMMA NotPulsed ==
  ASSUME NEW s \in SolenoidState, NEW asked \in SolenoidState, NEW v \in Valve,
         v \notin Pulsed(s, asked)
  PROVE  ~s.force /\ (v \in s.on <=> v \in asked.on)
BY DEF Pulsed, TurnOn, TurnOff, AssumedOn, SolenoidState
===============================================================================
