SPECIFICATION Spec
CONSTANTS
  PropertyId = {"p"}
  Name = {"n"}
  StartIn = {1}
  RunTime = {4}
  DefaultRunTime = 2
  Minute = 2
  Lists <- MCLists
  None = None
  MaxTime = 2
  MaxEntries = 2
  Id = {i1, i2}
  MaxVisits = 2
  MaxEvents = 2
INVARIANTS
  TypeOK
  ShowsOwnChanges
  EditorShowsEntry
  NeverStuck
SYMMETRY Symmetry
CHECK_DEADLOCK FALSE
