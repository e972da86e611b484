------------------------- MODULE MCIrrigationSchedule -------------------------
(* Instances of IrrigationSchedule for TLC.                                  *)
EXTENDS IrrigationSchedule, TLC

\* One entry for every property, one with a gap before a second entry, none.
MCSchedules ==
  LET e(from, to) == [properties |-> Property, start |-> from, end |-> to]
  IN  {{}, {e(0, 2), e(4, 5)}}

\* Invocations of one function, requests that may each ask for any schedule,
\* and properties that the set of schedules treats alike.
Interchangeable ==
  Permutations(Worker) \cup Permutations(Client) \cup Permutations(Property)

==============================================================================
