-------------------------- MODULE MCScheduleEditing --------------------------
(* Instances of ScheduleEditing for TLC.                                    *)
EXTENDS ScheduleEditing, TLC

Symmetry == Permutations(Id)

At(start, end) == [propertyIds |-> {"p"}, startTime |-> start, endTime |-> end]

\* Entries that start at once and later, end within a minute of another's start
\* and after more than one; a list and what is left of it.
MCLists ==
  [schedule |-> {<<At(0, 2), At(3, 7)>>, <<At(3, 7)>>},
   saved |-> {<<[name |-> "n", entries |-> <<At(0, 3)>>]>>}]

==============================================================================
