------------------------ MODULE ScheduleEditingProofs ------------------------
(***************************************************************************)
(* Proofs about ScheduleEditing, for all lists, any number of messages and *)
(* any bounds.  A step of a page sends nothing, asks for lists, or sends   *)
(* one list; the invariants of the lists are proved once for each of the   *)
(* three and for each step of the cloud, those of the pages apart.         *)
(***************************************************************************)
EXTENDS ScheduleEditing, SequenceTheorems, WellFoundedInduction, TLAPS

------------------------------------------------------------------------------
(* Lists.                                                                    *)

\* A set of indices has a first.
LEMMA FirstExists ==
  ASSUME NEW T \in SUBSET Nat, T # {}
  PROVE  \E i \in T : \A j \in T : i <= j
<1> DEFINE Less == {ss \in Nat \X Nat : ss[1] < ss[2]}
<1>1. IsWellFoundedOn(Less, Nat)
  BY NatLessThanWellFounded DEF OpToRel
<1>2. PICK i \in T : \A j \in T : <<j, i>> \notin Less
  BY <1>1, WFMin
<1>3. \A j \in T : i <= j
  <2> TAKE j \in T
  <2>1. <<j, i>> \in Less <=> j < i
    OBVIOUS
  <2> QED
    BY <1>2, <2>1
<1> QED
  BY <1>3

\* One of finitely many times is the latest.
LEMMA LatestExists ==
  ASSUME NEW n \in Nat \ {0}, NEW f \in [1 .. n -> Nat]
  PROVE  \E j \in 1 .. n : \A i \in 1 .. n : f[i] <= f[j]
<1> DEFINE IsLatest(j, m) == j \in 1 .. m /\ \A i \in 1 .. m : f[i] <= f[j]
           T == {m \in 1 .. n : ~\E j \in 1 .. m : IsLatest(j, m)}
<1>1. SUFFICES ASSUME T # {} PROVE FALSE
  <2>1. n \in 1 .. n
    OBVIOUS
  <2> QED
    BY <2>1
<1>2. PICK m \in T : \A k \in T : m <= k
  <2>1. T \in SUBSET Nat
    OBVIOUS
  <2> HIDE DEF T
  <2> QED
    BY <1>1, <2>1, FirstExists
<1>3. m \in 1 .. n /\ ~\E j \in 1 .. m : IsLatest(j, m)
  OBVIOUS
<1>4. \A i \in 1 .. m : f[i] \in Nat
  BY <1>3
<1>5. m # 1
  <2>1. SUFFICES ASSUME m = 1 PROVE IsLatest(1, 1)
    BY <1>3
  <2> QED
    BY <1>4, <2>1
<1>6. m - 1 \in 1 .. n /\ m - 1 < m /\ m \in 1 .. m
  BY <1>3, <1>5
<1>7. PICK j \in 1 .. m - 1 : IsLatest(j, m - 1)
  <2>1. m - 1 \notin T
    <3> HIDE DEF T
    <3> QED
      BY <1>2, <1>6
  <2> QED
    BY <1>6, <2>1
<1>8. j \in 1 .. m /\ f[j] \in Nat /\ f[m] \in Nat
  BY <1>3, <1>4, <1>6
<1>9. \A i \in 1 .. m : i = m \/ (f[i] \in Nat /\ f[i] <= f[j])
  BY <1>3, <1>4, <1>6, <1>7
<1>10. CASE f[m] <= f[j]
  BY <1>3, <1>8, <1>9, <1>10
<1>11. CASE f[j] < f[m]
  <2>1. \A i \in 1 .. m : f[i] <= f[m]
    BY <1>8, <1>9, <1>11
  <2> QED
    BY <1>3, <1>6, <2>1
<1> QED
  BY <1>8, <1>10, <1>11

LEMMA LatestType ==
  ASSUME NEW n \in Nat \ {0}, NEW f \in [1 .. n -> Nat]
  PROVE  Latest({f[i] : i \in 1 .. n}) \in Nat
<1> DEFINE S == {f[i] : i \in 1 .. n}
<1>1. \E t \in S : \A other \in S : other <= t
  BY LatestExists
<1>2. Latest(S) \in S
  BY <1>1 DEF Latest
<1> QED
  BY <1>2

LEMMA LastTimesType ==
  ASSUME NEW entries \in Seq(Entry), NEW index
  PROVE  LastTimes(entries, index) \subseteq Nat
<1>1. CASE entries = <<>>
  BY <1>1 DEF LastTimes
<1>2. CASE entries # <<>>
  <2> DEFINE n == Len(entries)
             f == [i \in 1 .. n |-> IF i = index THEN entries[1].endTime
                                    ELSE entries[i].endTime]
             S == {entries[1].endTime} \cup
                  {entries[i].endTime : i \in 1 .. Len(entries) \ {index}}
  <2>1. n \in Nat \ {0} /\ \A i \in 1 .. n : entries[i] \in Entry
    BY <1>2
  <2>2. \A i \in 1 .. n : entries[i].endTime \in Nat
    BY <2>1 DEF Entry
  <2>3. f \in [1 .. n -> Nat]
    BY <2>1, <2>2
  <2>4. Latest({f[i] : i \in 1 .. n}) \in Nat
    <3> HIDE DEF n, f
    <3> QED
      BY <2>1, <2>3, LatestType
  <2>5. S = {f[i] : i \in 1 .. n}
    <3>1. 1 \in 1 .. n /\ f[1] = entries[1].endTime
      BY <2>1
    <3>2. \A i \in 1 .. n \ {index} : f[i] = entries[i].endTime
      OBVIOUS
    <3>3. \A i \in 1 .. n : i = index => f[i] = f[1]
      BY <3>1
    <3> HIDE DEF f
    <3> QED
      BY <3>1, <3>2, <3>3
  <2> HIDE DEF f, n
  <2> QED
    BY <1>2, <2>4, <2>5 DEF LastTimes
<1> QED
  BY <1>1, <1>2

LEMMA SnappedType ==
  ASSUME NEW entries \in Seq(Entry), NEW index, NEW entry \in Entry
  PROVE  Snapped(entries, index, entry) \in Entry
<1> DEFINE close == Close(entries, index, entry)
           first == CHOOSE i \in close : \A j \in close : i <= j
           end == entries[first].endTime
<1>1. CASE close = {}
  BY <1>1 DEF Snapped
<1>2. CASE close # {}
  <2>1. close \subseteq Nat
    BY DEF Close
  <2>2. \E i \in close : \A j \in close : i <= j
    <3> HIDE DEF close
    <3> QED
      BY <1>2, <2>1, FirstExists
  <2>3. first \in close
    BY <2>2
  <2>4. first \in 1 .. Len(entries)
    BY <2>3 DEF Close
  <2>5. entries[first] \in Entry
    BY <2>4
  <2>6. end \in Nat
    BY <2>5 DEF Entry
  <2> HIDE DEF first, end
  <2>7. entry \in [propertyIds : (SUBSET PropertyId) \ {{}}, startTime : Nat, endTime : Nat]
        /\ entry.startTime < entry.endTime
    BY DEF Entry
  <2> DEFINE moved == [entry EXCEPT !.startTime = end,
                                    !.endTime = @ + (end - entry.startTime)]
  <2>8. moved.startTime = end /\ moved.endTime = entry.endTime + (end - entry.startTime)
    BY <2>7
  <2>9. moved.startTime \in Nat /\ moved.endTime \in Nat /\ moved.startTime < moved.endTime
    BY <2>6, <2>7, <2>8
  <2>10. moved \in [propertyIds : (SUBSET PropertyId) \ {{}}, startTime : Nat, endTime : Nat]
    BY <2>6, <2>7, <2>9
  <2>11. moved \in Entry
    BY <2>9, <2>10 DEF Entry
  <2>12. Snapped(entries, index, entry) = moved
    BY <1>2 DEF Snapped, first, end
  <2> QED
    BY <2>11, <2>12
<1> QED
  BY <1>1, <1>2

LEMMA SequenceType ==
  ASSUME NEW S, NEW n \in Nat, NEW f \in [1 .. n -> S]
  PROVE  f \in Seq(S)
BY SeqDef

LEMMA UpdatedType ==
  ASSUME NEW S, NEW list \in Seq(S), NEW index, NEW item \in S
  PROVE  Updated(list, index, item) \in Seq(S)
<1>1. Len(list) \in Nat /\ \A i \in 1 .. Len(list) : list[i] \in S
  OBVIOUS
<1>2. Updated(list, index, item) \in [1 .. Len(list) -> S]
  BY <1>1 DEF Updated
<1> QED
  BY <1>1, <1>2, SequenceType

LEMMA WithoutType ==
  ASSUME NEW S, NEW list \in Seq(S), NEW index
  PROVE  Without(list, index) \in Seq(S)
<1>1. CASE index \notin 1 .. Len(list)
  BY <1>1 DEF Without
<1>2. CASE index \in 1 .. Len(list)
  <2>1. Len(list) - 1 \in Nat /\ \A i \in 1 .. Len(list) : list[i] \in S
    BY <1>2
  <2>2. Without(list, index) =
          [i \in 1 .. Len(list) - 1 |-> IF i < index THEN list[i] ELSE list[i + 1]]
    BY <1>2 DEF Without
  <2>3. \A i \in 1 .. Len(list) - 1 : list[i] \in S /\ list[i + 1] \in S
    BY <2>1
  <2>4. Without(list, index) \in [1 .. Len(list) - 1 -> S]
    BY <2>2, <2>3
  <2> QED
    BY <2>1, <2>4, SequenceType
<1> QED
  BY <1>1, <1>2

LEMMA MovedType ==
  ASSUME NEW entries \in Seq(Entry), NEW offset \in Nat
  PROVE  [j \in 1 .. Len(entries) |->
            [entries[j] EXCEPT !.startTime = @ + offset, !.endTime = @ + offset]]
           \in Seq(Entry)
<1> DEFINE Moved(e) == [e EXCEPT !.startTime = @ + offset, !.endTime = @ + offset]
<1>1. \A e \in Entry : Moved(e) \in Entry
  <2> TAKE e \in Entry
  <2>1. e \in [propertyIds : (SUBSET PropertyId) \ {{}}, startTime : Nat, endTime : Nat]
        /\ e.startTime < e.endTime
    BY DEF Entry
  <2>2. Moved(e).startTime = e.startTime + offset /\ Moved(e).endTime = e.endTime + offset
    BY <2>1
  <2>4. e.startTime + offset \in Nat /\ e.endTime + offset \in Nat
        /\ e.startTime + offset < e.endTime + offset
        /\ e.propertyIds \in (SUBSET PropertyId) \ {{}}
    BY <2>1
  <2>5. Moved(e) \in [propertyIds : (SUBSET PropertyId) \ {{}}, startTime : Nat, endTime : Nat]
    BY <2>1, <2>2, <2>4
  <2> QED
    BY <2>2, <2>4, <2>5 DEF Entry
<1>2. Len(entries) \in Nat /\ \A j \in 1 .. Len(entries) : entries[j] \in Entry
  OBVIOUS
<1> HIDE DEF Moved
<1>3. [j \in 1 .. Len(entries) |-> Moved(entries[j])] \in [1 .. Len(entries) -> Entry]
  BY <1>1, <1>2
<1> QED
  BY <1>2, <1>3, SequenceType DEF Moved

------------------------------------------------------------------------------
(* Types.                                                                    *)

WireOK ==
  /\ stored \in TwoLists /\ previous \in TwoLists /\ shown \in TwoLists
  /\ own \in [Kind -> [list : AnyList, sent : Nat, disturbed : BOOLEAN, behind : BOOLEAN]]
  /\ \A k \in Kind : own[k].list \in ListOf(k)
  /\ loaded \in [Kind -> BOOLEAN]
  /\ requests \subseteq Get \cup Set /\ answers \subseteq Answer
  /\ lost \subseteq Kind
PagesOK ==
  /\ now \in Nat /\ visits \in Nat /\ incidents \in Nat
  /\ openPage \in Kind \cup {"tabs"}
  /\ scheduleEntryIndex \in Nat \cup {None}
  /\ savedScheduleIndex \in Nat \cup {None}
  /\ defaultPropertyIds \in SUBSET PropertyId

LEMMA TypeParts ==
  TypeOK <=> WireOK /\ PagesOK /\ editor \in Editor \cup {None}
BY DEF TypeOK, WireOK, PagesOK

LEMMA ShownTypes ==
  WireOK => shown["schedule"] \in Seq(Entry) /\ shown["saved"] \in Seq(SavedSchedule)
BY DEF WireOK, TwoLists, ListOf, Kind

LEMMA SavedTypes ==
  WireOK =>
    \A i \in 1 .. Len(shown["saved"]) :
      /\ shown["saved"][i] \in SavedSchedule
      /\ shown["saved"][i].name \in Name
      /\ shown["saved"][i].entries \in Seq(Entry)
<1> SUFFICES ASSUME WireOK, NEW i \in 1 .. Len(shown["saved"])
             PROVE  /\ shown["saved"][i] \in SavedSchedule
                    /\ shown["saved"][i].name \in Name
                    /\ shown["saved"][i].entries \in Seq(Entry)
  OBVIOUS
<1>1. shown["saved"][i] \in SavedSchedule
  BY ShownTypes
<1> QED
  BY <1>1 DEF SavedSchedule

LEMMA ListedType ==
  WireOK => SavedEntries \in Seq(Entry) /\ Listed \in Seq(Entry)
<1> SUFFICES ASSUME WireOK PROVE SavedEntries \in Seq(Entry) /\ Listed \in Seq(Entry)
  OBVIOUS
<1>1. SavedEntries \in Seq(Entry)
  BY SavedTypes DEF SavedEntries
<1> QED
  BY <1>1, ShownTypes DEF Listed

LEMMA ChosenType ==
  WireOK => Chosen \in Entry \cup {None}
<1> SUFFICES ASSUME WireOK PROVE Chosen \in Entry \cup {None}
  OBVIOUS
<1>1. Listed \in Seq(Entry)
  BY ListedType
<1> QED
  BY <1>1 DEF Chosen

LEMMA MountedType ==
  WireOK /\ PagesOK => Mounted \in Editor
<1> SUFFICES ASSUME WireOK, PagesOK PROVE Mounted \in Editor
  OBVIOUS
<1> DEFINE entry == Chosen
<1>1. entry \in Entry \cup {None}
  BY ChosenType
<1>2. entry # None =>
        /\ entry.propertyIds \in SUBSET PropertyId
        /\ entry.startTime \in Nat /\ entry.endTime \in Nat
        /\ entry.startTime < entry.endTime
  BY <1>1 DEF Entry
<1>3. Clock \in Nat
  BY DEF Clock, PagesOK
<1>4. Mounted.shows \in Entry \cup {None} /\ Mounted.exposed \in BOOLEAN
  BY <1>1 DEF Mounted, UnderWay
<1>5. Mounted.propertyIds \in SUBSET PropertyId
  BY <1>2 DEF Mounted, PagesOK
<1>6. Mounted.startTime \in Nat /\ Mounted.relativeStartTime \in {None, 0}
  BY <1>2, <1>3 DEF Mounted
<1>7. Mounted.runTime \in Nat \ {0}
  BY <1>2, EditingAssumption DEF Mounted
<1>8. Mounted = [shows |-> Mounted.shows, propertyIds |-> Mounted.propertyIds,
                 startTime |-> Mounted.startTime,
                 relativeStartTime |-> Mounted.relativeStartTime,
                 runTime |-> Mounted.runTime, exposed |-> Mounted.exposed]
  BY DEF Mounted
<1> QED
  BY <1>4, <1>5, <1>6, <1>7, <1>8 DEF Editor

------------------------------------------------------------------------------
(* What the pages send.                                                      *)

Sends ==
  \/ Quiet
  \/ \E kinds \in SUBSET Kind : RequestGet(kinds)
  \/ \E k \in Kind : \E list \in ListOf(k) : RequestSet(k, list)

Seen == WireOK /\ PagesOK /\ editor \in Editor \cup {None}

\* A step of a page.
Turns == Sends /\ UNCHANGED <<cloud, now, incidents>> /\ PagesOK' /\ Render

LEMMA SendsSet ==
  ASSUME NEW k \in Kind, NEW list \in ListOf(k), RequestSet(k, list)
  PROVE  Sends
BY DEF Sends

LEMMA SendsSaved ==
  ASSUME Seen, NEW name, NEW entries \in Seq(Entry),
         savedScheduleIndex \in 1 .. Len(shown["saved"]) => name \in Name,
         RequestUpdateSaved(name, entries)
  PROVE  Sends
<1>1. PICK list : list = IF savedScheduleIndex \in 1 .. Len(shown["saved"])
                         THEN Updated(shown["saved"], savedScheduleIndex,
                                      [name |-> name, entries |-> entries])
                         ELSE shown["saved"]
  OBVIOUS
<1>2. RequestSet("saved", list)
  BY <1>1 DEF RequestUpdateSaved
<1>3. shown["saved"] \in Seq(SavedSchedule)
  BY ShownTypes DEF Seen
<1>4. list \in Seq(SavedSchedule)
  <2>1. CASE savedScheduleIndex \in 1 .. Len(shown["saved"])
    <3>1. [name |-> name, entries |-> entries] \in SavedSchedule
      BY <2>1 DEF SavedSchedule
    <3> QED
      BY <1>1, <1>3, <2>1, <3>1, UpdatedType
  <2>2. CASE savedScheduleIndex \notin 1 .. Len(shown["saved"])
    BY <1>1, <1>3, <2>2
  <2> QED
    BY <2>1, <2>2
<1>5. "saved" \in Kind /\ list \in ListOf("saved")
  BY <1>4 DEF Kind, ListOf
<1> QED
  BY <1>2, <1>5, SendsSet

LEMMA SendsEntries ==
  ASSUME Seen, NEW entries \in Seq(Entry), RequestEntries(entries)
  PROVE  Sends
<1>1. CASE openPage = "schedule"
  <2>1. RequestSet("schedule", entries) /\ "schedule" \in Kind
        /\ entries \in ListOf("schedule")
    BY <1>1 DEF RequestEntries, Kind, ListOf
  <2> QED
    BY <2>1, SendsSet
<1>2. CASE openPage # "schedule"
  <2>1. PICK name : name = SavedName
    OBVIOUS
  <2>2. RequestUpdateSaved(name, entries)
    BY <1>2, <2>1 DEF RequestEntries
  <2>3. savedScheduleIndex \in 1 .. Len(shown["saved"]) => name \in Name
    BY <2>1, SavedTypes DEF SavedName, Seen
  <2> QED
    BY <2>2, <2>3, SendsSaved
<1> QED
  BY <1>1, <1>2

\* Whatever is typed into the editor, it stores an entry that runs something for
\* some time.
LEMMA ResultsType ==
  ASSUME Seen, editor # None
  PROVE  Results \subseteq Entry
<1>1. Listed \in Seq(Entry)
  BY ListedType DEF Seen
<1>2. Clock \in Nat /\ editor \in Editor
  BY DEF Seen, PagesOK, Clock
<1>3. StartTime \in Nat /\ editor.runTime \in Nat \ {0}
  BY <1>2 DEF StartTime, Editor
<1>4. SUFFICES ASSUME NEW ids \in (SUBSET PropertyId) \ {{}},
                      NEW start \in {StartTime} \cup {Clock + d : d \in StartIn}
                                      \cup LastTimes(Listed, scheduleEntryIndex),
                      NEW run \in {editor.runTime} \cup RunTime
               PROVE  Result(ids, start, run) \in Entry
  BY DEF Results
<1>5. start \in Nat
  <2>1. LastTimes(Listed, scheduleEntryIndex) \subseteq Nat
    BY <1>1, LastTimesType
  <2>2. \A d \in StartIn : d \in Nat
    BY EditingAssumption
  <2> QED
    BY <1>2, <1>3, <2>1, <2>2
<1>6. run \in Nat \ {0}
  BY <1>3, EditingAssumption
<1> DEFINE e == [propertyIds |-> ids, startTime |-> start, endTime |-> start + run]
<1>7. e \in Entry
  BY <1>5, <1>6 DEF Entry
<1> HIDE DEF e
<1>8. Snapped(Listed, scheduleEntryIndex, e) \in Entry
  BY <1>1, <1>7, SnappedType
<1> QED
  BY <1>8 DEF Result, e

LEMMA OpenScheduleListTurns ==
  ASSUME Seen, OpenScheduleList PROVE Turns
<1>1. Sends
  BY DEF OpenScheduleList, Sends, Kind
<1>2. PagesOK'
  BY DEF OpenScheduleList, Seen, PagesOK, Kind, New
<1> QED
  BY <1>1, <1>2 DEF OpenScheduleList, Turns

LEMMA OpenSavedSchedulesTurns ==
  ASSUME Seen, OpenSavedSchedules PROVE Turns
<1>1. Sends
  BY DEF OpenSavedSchedules, Sends, Kind
<1>2. PagesOK'
  BY DEF OpenSavedSchedules, Seen, PagesOK, Kind
<1> QED
  BY <1>1, <1>2 DEF OpenSavedSchedules, Turns

LEMMA CloseTurns ==
  ASSUME Seen, CloseEntries \/ CloseSaved PROVE Turns
<1>1. Sends
  BY DEF CloseEntries, CloseSaved, Sends
<1>2. PagesOK'
  BY DEF CloseEntries, CloseSaved, Seen, PagesOK
<1> QED
  BY <1>1, <1>2 DEF CloseEntries, CloseSaved, Turns

LEMMA ChooseTurns ==
  ASSUME Seen, ChooseEntry \/ ChooseSaved PROVE Turns
<1>1. Sends
  BY DEF ChooseEntry, ChooseSaved, Sends
<1>2. PagesOK'
  <2>1. Len(Listed) \in Nat /\ Len(shown["saved"]) \in Nat
    BY ListedType, ShownTypes DEF Seen
  <2> QED
    BY <2>1 DEF ChooseEntry, ChooseSaved, Seen, PagesOK, New
<1> QED
  BY <1>1, <1>2 DEF ChooseEntry, ChooseSaved, Turns

LEMMA EndEditingTurns ==
  ASSUME Seen, Sends, EndEditing PROVE Turns
<1>1. PagesOK'
  BY DEF EndEditing, Seen, PagesOK
<1> QED
  BY <1>1 DEF EndEditing, Turns

LEMMA SaveEntryTurns ==
  ASSUME Seen, SaveEntry PROVE Turns
<1>1. PICK entry \in Results :
        \/ /\ scheduleEntryIndex \in 1 .. Len(Listed)
           /\ RequestEntries(Updated(Listed, scheduleEntryIndex, entry))
        \/ /\ scheduleEntryIndex = New
           /\ RequestEntries(Append(Listed, entry))
        \/ /\ scheduleEntryIndex > Len(Listed)
           /\ IF openPage = "schedule" THEN Quiet ELSE RequestEntries(Listed)
  BY DEF SaveEntry
<1>2. entry \in Entry /\ Listed \in Seq(Entry)
  BY ResultsType, ListedType DEF SaveEntry, Seen
<1>3. ASSUME NEW entries, entries \in Seq(Entry), RequestEntries(entries)
      PROVE  Sends
  BY <1>3, SendsEntries
<1>4. Sends
  <2>1. CASE Quiet
    BY <2>1 DEF Sends
  <2>2. CASE RequestEntries(Updated(Listed, scheduleEntryIndex, entry))
    <3>1. PICK entries : entries = Updated(Listed, scheduleEntryIndex, entry)
      OBVIOUS
    <3> QED
      BY <1>2, <1>3, <2>2, <3>1, UpdatedType
  <2>3. CASE RequestEntries(Append(Listed, entry))
    <3>1. PICK entries : entries = Append(Listed, entry)
      OBVIOUS
    <3>2. entries \in Seq(Entry)
      BY <1>2, <3>1
    <3> QED
      BY <1>3, <2>3, <3>1, <3>2
  <2>4. CASE RequestEntries(Listed)
    <3>1. PICK entries : entries = Listed
      OBVIOUS
    <3> QED
      BY <1>2, <1>3, <2>4, <3>1
  <2> QED
    BY <1>1, <2>1, <2>2, <2>3, <2>4
<1> QED
  BY <1>4, EndEditingTurns DEF SaveEntry

LEMMA DeleteEntryTurns ==
  ASSUME Seen, DeleteEntry PROVE Turns
<1>1. PICK entries : entries = Without(Listed, scheduleEntryIndex)
  OBVIOUS
<1>2. entries \in Seq(Entry)
  BY <1>1, ListedType, WithoutType DEF Seen
<1>3. RequestEntries(entries) /\ EndEditing
  BY <1>1 DEF DeleteEntry
<1> QED
  BY <1>2, <1>3, SendsEntries, EndEditingTurns

LEMMA CancelEditingTurns ==
  ASSUME Seen, CancelEditing PROVE Turns
BY EndEditingTurns DEF CancelEditing, Sends

LEMMA RenameSavedTurns ==
  ASSUME Seen, RenameSaved PROVE Turns
<1>1. PICK name \in Name : RequestUpdateSaved(name, SavedEntries)
  BY DEF RenameSaved
<1>2. PICK entries : entries = SavedEntries
  OBVIOUS
<1>3. Sends
  BY <1>1, <1>2, ListedType, SendsSaved DEF Seen
<1>4. PagesOK'
  BY DEF RenameSaved, Seen, PagesOK, pages
<1> QED
  BY <1>3, <1>4 DEF RenameSaved, Turns

LEMMA DeleteSavedTurns ==
  ASSUME Seen, DeleteSaved PROVE Turns
<1>1. PICK list : list = Without(shown["saved"], savedScheduleIndex)
  OBVIOUS
<1>2. list \in Seq(SavedSchedule)
  BY <1>1, ShownTypes, WithoutType DEF Seen
<1>3. RequestSet("saved", list)
  BY <1>1 DEF DeleteSaved
<1>4. Sends
  BY <1>2, <1>3, SendsSet DEF Kind, ListOf
<1>5. PagesOK'
  BY DEF DeleteSaved, Seen, PagesOK
<1> QED
  BY <1>4, <1>5 DEF DeleteSaved, Turns

LEMMA NewSavedTurns ==
  ASSUME Seen, NewSaved PROVE Turns
<1>1. shown["saved"] \in Seq(SavedSchedule)
  BY ShownTypes DEF Seen
<1>2. PICK name \in Name :
        RequestSet("saved", Append(shown["saved"], [name |-> name, entries |-> <<>>]))
  BY DEF NewSaved
<1>3. PICK list : list = Append(shown["saved"], [name |-> name, entries |-> <<>>])
  OBVIOUS
<1>4. [name |-> name, entries |-> <<>>] \in SavedSchedule
  BY DEF SavedSchedule
<1>5. list \in Seq(SavedSchedule)
  BY <1>1, <1>3, <1>4
<1>6. Sends
  BY <1>2, <1>3, <1>5, SendsSet DEF Kind, ListOf
<1>7. PagesOK'
  BY <1>1 DEF NewSaved, Seen, PagesOK
<1> QED
  BY <1>6, <1>7 DEF NewSaved, Turns

LEMMA OffsetsType ==
  ASSUME Seen PROVE Offsets \subseteq Nat
<1>1. now \in Nat /\ shown["schedule"] \in Seq(Entry)
  BY ShownTypes DEF Seen, PagesOK
<1> DEFINE n == Len(shown["schedule"])
           f == [i \in 1 .. n + 1 |-> IF i = n + 1 THEN now
                                      ELSE shown["schedule"][i].endTime]
           S == {now} \cup {shown["schedule"][i].endTime : i \in 1 .. Len(shown["schedule"])}
<1>2. n \in Nat /\ \A i \in 1 .. n : shown["schedule"][i] \in Entry
  BY <1>1
<1>3. \A i \in 1 .. n : shown["schedule"][i].endTime \in Nat
  BY <1>2 DEF Entry
<1>4. f \in [1 .. n + 1 -> Nat]
  <2> HIDE DEF n
  <2> QED
    BY <1>1, <1>2, <1>3
<1>5. PICK g, m : g = f /\ m = n + 1
  OBVIOUS
<1>6. Latest({g[i] : i \in 1 .. m}) \in Nat
  <2>1. g \in [1 .. m -> Nat] /\ m \in Nat \ {0}
    <3> HIDE DEF f, n
    <3> QED
      BY <1>2, <1>4, <1>5
  <2> QED
    BY <2>1, LatestType
<1>7. S = {g[i] : i \in 1 .. m}
  <2>1. m \in 1 .. m /\ g[m] = now
    BY <1>2, <1>5
  <2>2. \A i \in 1 .. n : i \in 1 .. m /\ g[i] = shown["schedule"][i].endTime
    BY <1>2, <1>5
  <2>3. \A i \in 1 .. m : i = m \/ i \in 1 .. n
    BY <1>2, <1>5
  <2> HIDE DEF f
  <2> QED
    BY <2>1, <2>2, <2>3
<1> HIDE DEF S
<1>8. Latest(S) \in Nat
  BY <1>6, <1>7
<1>9. \A d \in StartIn \cup {0} : now + d \in Nat
  BY <1>1, EditingAssumption
<1> QED
  BY <1>8, <1>9 DEF Offsets, S

LEMMA StartSavedTurns ==
  ASSUME Seen, StartSaved PROVE Turns
<1>1. PICK i \in 1 .. Len(shown["saved"]), offset \in Offsets :
        RequestSet("schedule", shown["schedule"] \o
          [j \in 1 .. Len(shown["saved"][i].entries) |->
             [shown["saved"][i].entries[j] EXCEPT !.startTime = @ + offset,
                                                  !.endTime = @ + offset]])
  BY DEF StartSaved
<1>2. PICK entries : entries = shown["saved"][i].entries
  OBVIOUS
<1>3. entries \in Seq(Entry) /\ offset \in Nat /\ shown["schedule"] \in Seq(Entry)
  BY <1>2, SavedTypes, ShownTypes, OffsetsType DEF Seen
<1>4. PICK moved : moved = [j \in 1 .. Len(entries) |->
             [entries[j] EXCEPT !.startTime = @ + offset, !.endTime = @ + offset]]
  OBVIOUS
<1>5. moved \in Seq(Entry)
  BY <1>3, <1>4, MovedType
<1>6. PICK list : list = shown["schedule"] \o moved
  OBVIOUS
<1>7. list \in Seq(Entry)
  BY <1>3, <1>5, <1>6
<1>8. RequestSet("schedule", list)
  BY <1>1, <1>2, <1>4, <1>6
<1>9. Sends
  BY <1>7, <1>8, SendsSet DEF Kind, ListOf
<1>10. PagesOK'
  BY DEF StartSaved, Seen, PagesOK, Kind
<1> QED
  BY <1>9, <1>10 DEF StartSaved, Turns

TurnPages ==
  \/ OpenScheduleList \/ OpenSavedSchedules
  \/ CloseEntries \/ CloseSaved \/ ChooseEntry \/ ChooseSaved
  \/ SaveEntry \/ DeleteEntry \/ CancelEditing
  \/ RenameSaved \/ DeleteSaved \/ NewSaved \/ StartSaved

LEMMA PagesTurn ==
  ASSUME Seen, TurnPages PROVE Turns
BY OpenScheduleListTurns, OpenSavedSchedulesTurns, CloseTurns, ChooseTurns,
   SaveEntryTurns, DeleteEntryTurns, CancelEditingTurns, RenameSavedTurns,
   DeleteSavedTurns, NewSavedTurns, StartSavedTurns DEF TurnPages

------------------------------------------------------------------------------
(* Types of the lists and messages.                                          *)

OwnRecord == [list : AnyList, sent : Nat, disturbed : BOOLEAN, behind : BOOLEAN]

LEMMA ListTypes ==
  ASSUME NEW k \in Kind, NEW list \in ListOf(k)
  PROVE  list \in AnyList
BY DEF ListOf, AnyList

LEMMA TwoListsExcept ==
  ASSUME NEW two \in TwoLists, NEW k \in Kind, NEW list \in ListOf(k)
  PROVE  [two EXCEPT ![k] = list] \in TwoLists
<1>1. list \in AnyList
  BY ListTypes
<1> QED
  BY <1>1 DEF TwoLists

LEMMA GetWire ==
  ASSUME WireOK, NEW kinds \in SUBSET Kind, RequestGet(kinds), UNCHANGED cloud
  PROVE  WireOK'
<1>1. PICK id \in [kinds -> Ids] :
        requests' = requests \cup
          {[kind |-> k, type |-> "get", sent |-> own[k].sent, id |-> id[k]] : k \in kinds}
  BY DEF RequestGet
<1>2. \A k \in kinds :
        [kind |-> k, type |-> "get", sent |-> own[k].sent, id |-> id[k]] \in Get
  BY DEF Get, Ids, WireOK
<1>3. requests' \subseteq Get \cup Set
  BY <1>1, <1>2 DEF WireOK
<1>4. loaded' \in [Kind -> BOOLEAN] /\ lost' \subseteq Kind
  BY DEF RequestGet, WireOK
<1> QED
  BY <1>3, <1>4 DEF RequestGet, WireOK, cloud

LEMMA SetWire ==
  ASSUME WireOK, NEW k \in Kind, NEW list \in ListOf(k), RequestSet(k, list),
         UNCHANGED cloud
  PROVE  WireOK'
<1>1. CASE Quiet
  BY <1>1 DEF WireOK, Quiet, wire, lists, cloud
<1>2. CASE loaded[k] /\ ~Quiet
  <2>1. PICK id \in Ids :
          requests' = requests \cup
            {[kind |-> k, type |-> "set", sent |-> own[k].sent + 1, id |-> id,
              list |-> list]}
    BY <1>2 DEF RequestSet
  <2>2. own[k] \in OwnRecord /\ own[k].sent + 1 \in Nat /\ list \in AnyList
    BY ListTypes DEF WireOK, OwnRecord
  <2>3. [kind |-> k, type |-> "set", sent |-> own[k].sent + 1, id |-> id, list |-> list]
          \in Set
    BY <2>2 DEF Set, Ids
  <2>4. requests' \subseteq Get \cup Set
    BY <2>1, <2>3 DEF WireOK
  <2>5. own' = [own EXCEPT ![k] =
          [list |-> list, sent |-> own[k].sent + 1, disturbed |-> FALSE, behind |-> FALSE]]
    BY <1>2 DEF RequestSet, WireOK
  <2>6. own' \in [Kind -> OwnRecord] /\ \A j \in Kind : own'[j].list \in ListOf(j)
    BY <2>2, <2>5 DEF WireOK, OwnRecord
  <2>7. loaded' \in [Kind -> BOOLEAN] /\ lost' \subseteq Kind /\ UNCHANGED <<answers, shown>>
    BY <1>2 DEF RequestSet, WireOK
  <2> QED
    BY <2>4, <2>6, <2>7 DEF WireOK, cloud, OwnRecord
<1> QED
  BY <1>1, <1>2 DEF RequestSet

LEMMA SendsWire ==
  ASSUME WireOK, Sends, UNCHANGED cloud PROVE WireOK'
<1>1. CASE Quiet
  BY <1>1 DEF WireOK, Quiet, wire, lists, cloud
<1> QED
  BY <1>1, GetWire, SetWire DEF Sends

LEMMA RequestTypes ==
  ASSUME WireOK, NEW r \in requests
  PROVE  /\ r.kind \in Kind /\ r.sent \in Nat /\ r.id \in Id /\ r.type \in {"get", "set"}
         /\ r.type = "set" => r.list \in ListOf(r.kind)
BY DEF WireOK, Get, Set

LEMMA AnswerTypes ==
  ASSUME WireOK, NEW a \in answers
  PROVE  /\ a.kind \in Kind /\ a.sent \in Nat /\ a.id \in Id /\ a.behind \in BOOLEAN
         /\ a.list \in ListOf(a.kind)
BY DEF WireOK, Answer

LEMMA DisturbType ==
  ASSUME WireOK, NEW k \in Kind, NEW really, Disturb(k, really)
  PROVE  /\ own' \in [Kind -> OwnRecord]
         /\ \A j \in Kind : own'[j].list = own[j].list /\ own'[j].sent = own[j].sent
                            /\ own'[j].behind = own[j].behind
         /\ \A j \in Kind : j # k => own'[j] = own[j]
         /\ ~own'[k].disturbed => ~own[k].disturbed /\ ~really
<1>1. own \in [Kind -> OwnRecord]
  BY DEF WireOK, OwnRecord
<1>2. PICK was : was = (own[k].disturbed \/ really) /\ was \in BOOLEAN
  OBVIOUS
<1>3. own' = [own EXCEPT ![k] = [own[k] EXCEPT !.disturbed = was]]
  BY <1>1, <1>2 DEF Disturb
<1>4. [own[k] EXCEPT !.disturbed = was] \in OwnRecord
  BY <1>1, <1>2 DEF OwnRecord
<1>5. own' \in [Kind -> OwnRecord] /\ \A j \in Kind : j # k => own'[j] = own[j]
  BY <1>1, <1>3, <1>4
<1>6. own'[k] = [own[k] EXCEPT !.disturbed = was]
  BY <1>1, <1>3
<1>7. /\ own'[k].list = own[k].list /\ own'[k].sent = own[k].sent
      /\ own'[k].behind = own[k].behind /\ own'[k].disturbed = was
  BY <1>1, <1>6 DEF OwnRecord
<1> QED
  BY <1>2, <1>5, <1>7

LEMMA HandleGetWire ==
  ASSUME WireOK, HandleGet PROVE WireOK'
<1>1. PICK r \in requests : \E list \in {stored[r.kind], previous[r.kind]} :
        /\ r.type = "get"
        /\ requests' = requests \ {r}
        /\ answers' = answers \cup
             {[kind |-> r.kind, sent |-> r.sent, id |-> r.id, list |-> list,
               behind |-> list # stored[r.kind] \/ SetWaiting(r.kind)]}
  BY DEF HandleGet
<1>2. PICK list \in {stored[r.kind], previous[r.kind]} :
        /\ requests' = requests \ {r}
        /\ answers' = answers \cup
             {[kind |-> r.kind, sent |-> r.sent, id |-> r.id, list |-> list,
               behind |-> list # stored[r.kind] \/ SetWaiting(r.kind)]}
  BY <1>1
<1>3. PICK behind : behind = (list # stored[r.kind] \/ SetWaiting(r.kind))
                    /\ behind \in BOOLEAN
  OBVIOUS
<1>4. list \in ListOf(r.kind) /\ list \in AnyList
  BY RequestTypes, ListTypes DEF WireOK, TwoLists
<1>5. [kind |-> r.kind, sent |-> r.sent, id |-> r.id, list |-> list, behind |-> behind]
        \in Answer
  BY <1>3, <1>4, RequestTypes DEF Answer
<1>6. answers' \subseteq Answer
  BY <1>2, <1>3, <1>5 DEF WireOK
<1>7. requests' \subseteq Get \cup Set
  BY <1>2 DEF WireOK
<1> QED
  BY <1>6, <1>7 DEF HandleGet, WireOK, cloud, lists

LEMMA WriteWire ==
  ASSUME WireOK, NEW k \in Kind, NEW list \in ListOf(k), Write(k, list)
  PROVE  stored' \in TwoLists /\ previous' \in TwoLists
<1>1. stored[k] \in ListOf(k)
  BY DEF WireOK, TwoLists
<1> QED
  BY <1>1, TwoListsExcept DEF WireOK, Write

LEMMA HandleSetWire ==
  ASSUME WireOK, HandleSet PROVE WireOK'
<1>1. PICK r \in requests :
        /\ r.type = "set" /\ Write(r.kind, r.list)
        /\ requests' = requests \ {r}
        /\ answers' = answers \cup
             {[kind |-> r.kind, sent |-> r.sent, id |-> r.id, list |-> r.list,
               behind |-> \E q \in requests \ {r} : q.kind = r.kind /\ q.type = "set"]}
        /\ Disturb(r.kind, Swapped(r))
  BY DEF HandleSet
<1>2. PICK behind : behind = (\E q \in requests \ {r} : q.kind = r.kind /\ q.type = "set")
                    /\ behind \in BOOLEAN
  OBVIOUS
<1>3. r.kind \in Kind /\ r.list \in ListOf(r.kind) /\ r.list \in AnyList
  BY <1>1, RequestTypes, ListTypes
<1>4. [kind |-> r.kind, sent |-> r.sent, id |-> r.id, list |-> r.list, behind |-> behind]
        \in Answer
  BY <1>2, <1>3, RequestTypes DEF Answer
<1>5. answers' \subseteq Answer /\ requests' \subseteq Get \cup Set
  BY <1>1, <1>2, <1>4 DEF WireOK
<1>6. stored' \in TwoLists /\ previous' \in TwoLists
  BY <1>1, <1>3, WriteWire
<1>7. own' \in [Kind -> OwnRecord] /\ \A j \in Kind : own'[j].list = own[j].list
  <2>1. PICK really : really = Swapped(r)
    OBVIOUS
  <2> QED
    BY <1>1, <1>3, <2>1, DisturbType
<1>8. \A j \in Kind : own'[j].list \in ListOf(j)
  BY <1>7 DEF WireOK
<1> QED
  BY <1>5, <1>6, <1>7, <1>8 DEF HandleSet, WireOK, lists, OwnRecord

LEMMA FailWire ==
  ASSUME WireOK, Fail PROVE WireOK'
<1>1. PICK r \in requests :
        /\ requests' = requests \ {r} /\ lost' = lost \cup {r.kind}
        /\ \/ r.type = "get" /\ UNCHANGED <<cloud, own>>
           \/ /\ r.type = "set" /\ Disturb(r.kind, r.sent = own[r.kind].sent)
              /\ UNCHANGED cloud
           \/ /\ r.type = "set" /\ Disturb(r.kind, Swapped(r))
              /\ Write(r.kind, r.list)
  BY DEF Fail
<1>2. r.kind \in Kind /\ (r.type = "set" => r.list \in ListOf(r.kind))
  BY RequestTypes
<1>3. requests' \subseteq Get \cup Set /\ lost' \subseteq Kind
  BY <1>1, <1>2 DEF WireOK
<1>4. stored' \in TwoLists /\ previous' \in TwoLists
  BY <1>1, <1>2, WriteWire DEF WireOK, cloud
<1>5. own' \in [Kind -> OwnRecord] /\ \A j \in Kind : own'[j].list = own[j].list
  <2>1. PICK swapped, last : swapped = Swapped(r) /\ last = (r.sent = own[r.kind].sent)
    OBVIOUS
  <2>2. CASE UNCHANGED own
    BY <2>2 DEF WireOK, OwnRecord
  <2>3. CASE Disturb(r.kind, swapped)
    BY <1>2, <2>3, DisturbType
  <2>4. CASE Disturb(r.kind, last)
    BY <1>2, <2>4, DisturbType
  <2> QED
    BY <1>1, <2>1, <2>2, <2>3, <2>4
<1>6. \A j \in Kind : own'[j].list \in ListOf(j)
  BY <1>5 DEF WireOK
<1> QED
  BY <1>3, <1>4, <1>5, <1>6 DEF Fail, WireOK, lists, OwnRecord

LEMMA LoseWire ==
  ASSUME WireOK, Lose PROVE WireOK'
<1>1. PICK a \in answers : answers' = answers \ {a} /\ lost' = lost \cup {a.kind}
  BY DEF Lose
<1> QED
  BY <1>1, AnswerTypes DEF Lose, WireOK, cloud, lists

LEMMA HandleJsonMessageOwn ==
  ASSUME WireOK, NEW a \in answers,
         own' = [own EXCEPT ![a.kind].behind = a.behind \/ a.sent # own[a.kind].sent]
  PROVE  /\ own' \in [Kind -> OwnRecord]
         /\ \A j \in Kind : own'[j].list = own[j].list /\ own'[j].sent = own[j].sent
                            /\ own'[j].disturbed = own[j].disturbed
         /\ \A j \in Kind : j # a.kind => own'[j] = own[j]
         /\ ~own'[a.kind].behind => ~a.behind /\ a.sent = own[a.kind].sent
<1>1. own \in [Kind -> OwnRecord] /\ a.kind \in Kind
  BY AnswerTypes DEF WireOK, OwnRecord
<1>2. PICK was : was = (a.behind \/ a.sent # own[a.kind].sent) /\ was \in BOOLEAN
  OBVIOUS
<1>3. own' = [own EXCEPT ![a.kind] = [own[a.kind] EXCEPT !.behind = was]]
  BY <1>1, <1>2
<1>4. [own[a.kind] EXCEPT !.behind = was] \in OwnRecord
  BY <1>1, <1>2 DEF OwnRecord
<1>5. own' \in [Kind -> OwnRecord] /\ \A j \in Kind : j # a.kind => own'[j] = own[j]
  BY <1>1, <1>3, <1>4
<1>6. own'[a.kind] = [own[a.kind] EXCEPT !.behind = was]
  BY <1>1, <1>3
<1>7. /\ own'[a.kind].list = own[a.kind].list /\ own'[a.kind].sent = own[a.kind].sent
      /\ own'[a.kind].disturbed = own[a.kind].disturbed /\ own'[a.kind].behind = was
  BY <1>1, <1>6 DEF OwnRecord
<1> QED
  BY <1>2, <1>5, <1>7

LEMMA HandleJsonMessageWire ==
  ASSUME WireOK, HandleJsonMessage PROVE WireOK'
<1>1. PICK a \in answers :
        /\ answers' = answers \ {a}
        /\ shown' = [shown EXCEPT ![a.kind] = a.list]
        /\ loaded' = [loaded EXCEPT ![a.kind] = TRUE]
        /\ own' = [own EXCEPT ![a.kind].behind = a.behind \/ a.sent # own[a.kind].sent]
        /\ lost' = lost \ {a.kind}
  BY DEF HandleJsonMessage
<1>2. a.kind \in Kind /\ a.list \in ListOf(a.kind)
  BY AnswerTypes
<1>3. shown' \in TwoLists
  BY <1>1, <1>2, TwoListsExcept DEF WireOK
<1>4. own' \in [Kind -> OwnRecord] /\ \A j \in Kind : own'[j].list \in ListOf(j)
  BY <1>1, HandleJsonMessageOwn DEF WireOK
<1>5. /\ loaded' \in [Kind -> BOOLEAN] /\ lost' \subseteq Kind
      /\ answers' \subseteq Answer
  BY <1>1 DEF WireOK
<1> QED
  BY <1>3, <1>4, <1>5 DEF HandleJsonMessage, WireOK, cloud, OwnRecord

LEMMA OthersWriteWire ==
  ASSUME WireOK, OthersWrite PROVE WireOK'
<1>1. PICK k \in Kind : \E list \in Lists[k] : Write(k, list) /\ Disturb(k, TRUE)
  BY DEF OthersWrite
<1>2. PICK list \in Lists[k] : Write(k, list) /\ Disturb(k, TRUE)
  BY <1>1
<1>3. list \in ListOf(k)
  BY EditingAssumption
<1>4. stored' \in TwoLists /\ previous' \in TwoLists
  BY <1>2, <1>3, WriteWire
<1>5. own' \in [Kind -> OwnRecord] /\ \A j \in Kind : own'[j].list = own[j].list
  BY <1>2, DisturbType
<1>6. \A j \in Kind : own'[j].list \in ListOf(j)
  BY <1>5 DEF WireOK
<1> QED
  BY <1>4, <1>5, <1>6 DEF OthersWrite, WireOK, wire, lists, OwnRecord

LEMMA SeenParts == TypeOK <=> Seen
BY TypeParts DEF Seen

LEMMA RenderType ==
  ASSUME Seen, WireOK', PagesOK', Render PROVE editor' \in Editor \cup {None}
<1>1. (WireOK /\ PagesOK)' => (Mounted \in Editor)'
  BY MountedType, PTL
<1>2. Mounted' \in Editor
  BY <1>1 DEF Editor
<1>3. editor' = None \/ editor' = editor \/ editor' = Mounted'
  BY DEF Render
<1> QED
  BY <1>2, <1>3 DEF Seen

LEMMA TypeStep ==
  ASSUME Seen, [Next]_vars PROVE Seen'
<1> USE DEF Seen
<1>1. CASE TurnPages
  <2>1. Turns
    BY <1>1, PagesTurn
  <2>2. WireOK' /\ PagesOK'
    BY <2>1, SendsWire DEF Turns
  <2> QED
    BY <2>1, <2>2, RenderType DEF Turns
<1>2. CASE HandleGet
  <2>1. PagesOK' /\ editor' = editor
    BY <1>2 DEF HandleGet, PagesOK, pages
  <2> QED
    BY <1>2, <2>1, HandleGetWire DEF Editor
<1>3. CASE HandleSet
  <2>1. PagesOK' /\ editor' = editor
    BY <1>3 DEF HandleSet, PagesOK, pages
  <2> QED
    BY <1>3, <2>1, HandleSetWire DEF Editor
<1>4. CASE Fail
  <2>1. PagesOK' /\ editor' = editor
    BY <1>4 DEF Fail, Incident, PagesOK, pages
  <2> QED
    BY <1>4, <2>1, FailWire DEF Editor
<1>5. CASE Lose
  <2>1. PagesOK' /\ editor' = editor
    BY <1>5 DEF Lose, Incident, PagesOK, pages
  <2> QED
    BY <1>5, <2>1, LoseWire DEF Editor
<1>6. CASE HandleJsonMessage
  <2>1. PagesOK' /\ Render
    BY <1>6 DEF HandleJsonMessage, PagesOK, pages
  <2> QED
    BY <1>6, <2>1, HandleJsonMessageWire, RenderType
<1>7. CASE OthersWrite
  <2>1. PagesOK' /\ editor' = editor
    BY <1>7 DEF OthersWrite, Incident, PagesOK, pages
  <2> QED
    BY <1>7, <2>1, OthersWriteWire DEF Editor
<1>8. CASE Tick
  <2>1. PagesOK' /\ editor' = editor
    BY <1>8 DEF Tick, PagesOK, pages
  <2>2. WireOK'
    BY <1>8 DEF Tick, WireOK, cloud, wire, lists
  <2> QED
    BY <2>1, <2>2 DEF Editor
<1>9. CASE UNCHANGED vars
  <2>1. PagesOK' /\ editor' = editor
    BY <1>9 DEF vars, PagesOK, pages
  <2>2. WireOK'
    BY <1>9 DEF vars, WireOK, cloud, wire, lists
  <2> QED
    BY <2>1, <2>2 DEF Editor
<1> QED
  BY <1>1, <1>2, <1>3, <1>4, <1>5, <1>6, <1>7, <1>8, <1>9 DEF Next, TurnPages

LEMMA TypeInit ==
  ASSUME Init PROVE Seen
<1>1. \A k \in Kind : stored[k] \in ListOf(k)
  BY EditingAssumption DEF Init
<1>2. stored \in TwoLists
  <2>1. \A k \in Kind : stored[k] \in AnyList
    BY <1>1, ListTypes
  <2> QED
    BY <1>1, <2>1 DEF Init, TwoLists
<1>3. shown \in TwoLists
  <2>1. \A k \in Kind : <<>> \in ListOf(k)
    BY DEF ListOf
  <2>2. \A k \in Kind : <<>> \in AnyList
    BY <2>1, ListTypes
  <2> QED
    BY <2>1, <2>2 DEF Init, TwoLists
<1>4. own \in [Kind -> OwnRecord] /\ \A k \in Kind : own[k].list = stored[k]
  BY <1>1, ListTypes DEF Init, OwnRecord
<1>5. \A k \in Kind : own[k].list \in ListOf(k)
  BY <1>1, <1>4
<1>6. WireOK
  BY <1>2, <1>3, <1>4, <1>5 DEF Init, WireOK, OwnRecord
<1>7. PagesOK /\ editor = None
  BY DEF Init, PagesOK
<1> QED
  BY <1>6, <1>7 DEF Seen

\* The lists are well formed wherever they are: what pages send, whatever is
\* chosen on them, are entries that run something for some time.
THEOREM TypeCorrect == Spec => []TypeOK
<1>1. Init => Seen
  BY TypeInit
<1>2. Seen /\ [Next]_vars => Seen'
  BY TypeStep
<1>3. Seen <=> TypeOK
  BY SeenParts
<1> QED
  BY <1>1, <1>2, <1>3, PTL DEF Spec

------------------------------------------------------------------------------
(* The lists.  The last change either waits to be stored or is what is      *)
(* stored, unless it was disturbed; an answer that is not behind it has it. *)

UpToDate(k, list) ==
  /\ ~SetWaiting(k)
  /\ ~own[k].disturbed => list = own[k].list /\ stored[k] = own[k].list

Sent ==
  \A r \in requests :
    /\ r.sent <= own[r.kind].sent
    /\ r.type = "set" /\ r.sent = own[r.kind].sent => r.list = own[r.kind].list
Stores ==
  \A k \in Kind :
    ~own[k].disturbed =>
      \/ stored[k] = own[k].list
      \/ \E r \in requests : r.kind = k /\ r.type = "set" /\ r.sent = own[k].sent
Answered ==
  \A a \in answers :
    /\ a.sent <= own[a.kind].sent
    /\ a.sent = own[a.kind].sent /\ ~a.behind => UpToDate(a.kind, a.list)
Shows ==
  \A k \in Kind : loaded[k] /\ ~own[k].behind => UpToDate(k, shown[k])
ListsInv == Sent /\ Stores /\ Answered /\ Shows

LEMMA ShowsParts == ShowsOwnChanges <=> Shows
BY DEF ShowsOwnChanges, Shows, UpToDate

LEMMA SameLists ==
  ASSUME ListsInv, UNCHANGED <<requests, answers, own, shown, loaded, stored>>
  PROVE  ListsInv'
<1>1. \A k, list : UpToDate(k, list)' <=> UpToDate(k, list)
  BY DEF UpToDate, SetWaiting
<1> QED
  BY <1>1 DEF ListsInv, Sent, Stores, Answered, Shows

LEMMA GetLists ==
  ASSUME WireOK, ListsInv, NEW kinds \in SUBSET Kind, RequestGet(kinds), UNCHANGED cloud
  PROVE  ListsInv'
<1>1. PICK id \in [kinds -> Ids] :
        requests' = requests \cup
          {[kind |-> k, type |-> "get", sent |-> own[k].sent, id |-> id[k]] : k \in kinds}
  BY DEF RequestGet
<1>2. UNCHANGED <<answers, shown, own, stored>>
  BY DEF RequestGet, cloud
<1>3. \A r \in requests' :
        r \in requests \/ (r.kind \in Kind /\ r.type = "get" /\ r.sent = own[r.kind].sent)
  BY <1>1
<1>4. \A k \in Kind : own[k].sent \in Nat
  BY DEF WireOK
<1>5. requests \subseteq requests' /\ \A r \in requests' : r.type = "set" => r \in requests
  BY <1>1, <1>3
<1>6. \A k \in Kind : SetWaiting(k)' <=> SetWaiting(k)
  BY <1>5 DEF SetWaiting
<1>7. \A k \in Kind : \A list : UpToDate(k, list)' <=> UpToDate(k, list)
  BY <1>2, <1>6 DEF UpToDate
<1>8. Sent'
  BY <1>2, <1>3, <1>4 DEF ListsInv, Sent
<1>9. Stores'
  BY <1>2, <1>5 DEF ListsInv, Stores
<1>10. Answered'
  BY <1>2, <1>7, AnswerTypes DEF ListsInv, Answered
<1>11. Shows'
  <2>1. \A k \in Kind : loaded'[k] => loaded[k]
    BY DEF RequestGet
  <2> QED
    BY <1>2, <1>7, <2>1 DEF ListsInv, Shows
<1> QED
  BY <1>8, <1>9, <1>10, <1>11 DEF ListsInv

LEMMA SetLists ==
  ASSUME WireOK, ListsInv, NEW k \in Kind, NEW list \in ListOf(k),
         RequestSet(k, list), UNCHANGED cloud
  PROVE  ListsInv'
<1>1. CASE Quiet
  BY <1>1, SameLists DEF Quiet, wire, lists, cloud
<1>2. CASE loaded[k] /\ ~Quiet
  <2>1. PICK id \in Ids :
          requests' = requests \cup
            {[kind |-> k, type |-> "set", sent |-> own[k].sent + 1, id |-> id,
              list |-> list]}
    BY <1>2 DEF RequestSet
  <2>2. UNCHANGED <<answers, shown, stored>> /\ loaded' = [loaded EXCEPT ![k] = FALSE]
    BY <1>2 DEF RequestSet, cloud
  <2>3. own \in [Kind -> OwnRecord] /\ \A j \in Kind : own[j].sent \in Nat
    BY DEF WireOK, OwnRecord
  <2>4. own' = [own EXCEPT ![k] =
          [list |-> list, sent |-> own[k].sent + 1, disturbed |-> FALSE, behind |-> FALSE]]
    BY <1>2, <2>3 DEF RequestSet
  <2>5. /\ own'[k].list = list /\ own'[k].sent = own[k].sent + 1
        /\ \A j \in Kind : j # k => own'[j] = own[j]
    BY <2>3, <2>4
  <2>6. \A r \in requests' :
          \/ r \in requests
          \/ r.kind = k /\ r.sent = own[k].sent + 1 /\ r.list = list
    BY <2>1
  <2>7. \A r \in requests : r.kind \in Kind /\ r.sent \in Nat
    BY RequestTypes
  <2>8. \A j \in Kind : j # k => (SetWaiting(j)' <=> SetWaiting(j))
    BY <2>1 DEF SetWaiting
  <2>9. \A j \in Kind : \A l : j # k => (UpToDate(j, l)' <=> UpToDate(j, l))
    BY <2>2, <2>5, <2>8 DEF UpToDate
  <2>10. Sent'
    <3>1. SUFFICES ASSUME NEW r \in requests'
                   PROVE  /\ r.sent <= own'[r.kind].sent
                          /\ r.type = "set" /\ r.sent = own'[r.kind].sent
                               => r.list = own'[r.kind].list
      BY DEF Sent
    <3>2. CASE r \in requests /\ r.kind # k
      BY <2>5, <2>7, <3>2 DEF ListsInv, Sent
    <3>3. CASE r \in requests /\ r.kind = k
      BY <2>3, <2>5, <2>7, <3>3 DEF ListsInv, Sent
    <3>4. CASE r.kind = k /\ r.sent = own[k].sent + 1 /\ r.list = list
      BY <2>3, <2>5, <3>4
    <3> QED
      BY <2>6, <3>2, <3>3, <3>4
  <2>11. Stores'
    <3>1. \E r \in requests' : r.kind = k /\ r.type = "set" /\ r.sent = own'[k].sent
      <4>1. PICK r : r = [kind |-> k, type |-> "set", sent |-> own[k].sent + 1, id |-> id,
                          list |-> list]
        OBVIOUS
      <4>2. r \in requests' /\ r.kind = k /\ r.type = "set" /\ r.sent = own[k].sent + 1
        BY <2>1, <4>1
      <4> QED
        BY <2>5, <4>2
    <3>2. requests \subseteq requests'
      BY <2>1
    <3> QED
      BY <2>2, <2>5, <3>1, <3>2 DEF ListsInv, Stores
  <2>12. Answered'
    <3>1. SUFFICES ASSUME NEW a \in answers
                   PROVE  /\ a.sent <= own'[a.kind].sent
                          /\ a.sent = own'[a.kind].sent /\ ~a.behind
                               => UpToDate(a.kind, a.list)'
      BY <2>2 DEF Answered
    <3>2. a.kind \in Kind /\ a.sent \in Nat /\ a.sent <= own[a.kind].sent
      BY AnswerTypes DEF ListsInv, Answered
    <3>3. CASE a.kind = k
      BY <2>3, <2>5, <3>2, <3>3
    <3>4. CASE a.kind # k
      BY <2>5, <2>9, <3>2, <3>4 DEF ListsInv, Answered
    <3> QED
      BY <3>3, <3>4
  <2>13. Shows'
    <3>1. \A j \in Kind : loaded'[j] => j # k /\ loaded[j]
      BY <2>2 DEF WireOK
    <3> QED
      BY <2>2, <2>5, <2>9, <3>1 DEF ListsInv, Shows
  <2> QED
    BY <2>10, <2>11, <2>12, <2>13 DEF ListsInv
<1> QED
  BY <1>1, <1>2 DEF RequestSet

LEMMA SendsLists ==
  ASSUME WireOK, ListsInv, Sends, UNCHANGED cloud PROVE ListsInv'
<1>1. CASE Quiet
  BY <1>1, SameLists DEF Quiet, wire, lists, cloud
<1> QED
  BY <1>1, GetLists, SetLists DEF Sends

LEMMA HandleGetLists ==
  ASSUME WireOK, ListsInv, HandleGet PROVE ListsInv'
<1>1. PICK r \in requests : \E list \in {stored[r.kind], previous[r.kind]} :
        /\ r.type = "get"
        /\ requests' = requests \ {r}
        /\ answers' = answers \cup
             {[kind |-> r.kind, sent |-> r.sent, id |-> r.id, list |-> list,
               behind |-> list # stored[r.kind] \/ SetWaiting(r.kind)]}
  BY DEF HandleGet
<1>2. PICK list \in {stored[r.kind], previous[r.kind]} :
        /\ requests' = requests \ {r}
        /\ answers' = answers \cup
             {[kind |-> r.kind, sent |-> r.sent, id |-> r.id, list |-> list,
               behind |-> list # stored[r.kind] \/ SetWaiting(r.kind)]}
  BY <1>1
<1>3. UNCHANGED <<stored, shown, loaded, own>>
  BY DEF HandleGet, cloud, lists
<1>4. \A k : SetWaiting(k)' <=> SetWaiting(k)
  BY <1>1 DEF SetWaiting
<1>5. \A k, l : UpToDate(k, l)' <=> UpToDate(k, l)
  BY <1>3, <1>4 DEF UpToDate
<1>6. r.kind \in Kind
  BY RequestTypes
<1>7. \A a \in answers' :
        \/ a \in answers
        \/ /\ a.kind = r.kind /\ a.sent = r.sent /\ a.list = list
           /\ ~a.behind => list = stored[r.kind] /\ ~SetWaiting(r.kind)
  <2>1. PICK behind : behind = (list # stored[r.kind] \/ SetWaiting(r.kind))
    OBVIOUS
  <2>2. \A a \in answers' :
          \/ a \in answers
          \/ a.kind = r.kind /\ a.sent = r.sent /\ a.list = list /\ a.behind = behind
    BY <1>2, <2>1
  <2> QED
    BY <2>1, <2>2
<1>8. Sent'
  BY <1>1, <1>3 DEF ListsInv, Sent
<1>9. Stores'
  BY <1>1, <1>3 DEF ListsInv, Stores
<1>10. ~SetWaiting(r.kind) => UpToDate(r.kind, stored[r.kind])
  BY <1>6 DEF ListsInv, Stores, UpToDate, SetWaiting
<1>11. Answered'
  <2>1. SUFFICES ASSUME NEW a \in answers'
                 PROVE  /\ a.sent <= own[a.kind].sent
                        /\ a.sent = own[a.kind].sent /\ ~a.behind => UpToDate(a.kind, a.list)
    BY <1>3, <1>5 DEF Answered
  <2>2. CASE a \in answers
    BY <2>2 DEF ListsInv, Answered
  <2>3. CASE a \notin answers
    <3>1. a.kind = r.kind /\ a.sent = r.sent /\ a.list = list
          /\ (~a.behind => list = stored[r.kind] /\ ~SetWaiting(r.kind))
      BY <1>7, <2>3
    <3> QED
      BY <1>10, <3>1 DEF ListsInv, Sent
  <2> QED
    BY <2>2, <2>3
<1>12. Shows'
  BY <1>3, <1>5 DEF ListsInv, Shows
<1> QED
  BY <1>8, <1>9, <1>11, <1>12 DEF ListsInv

\* A set is taken from the requests, and is stored: by HandleSet, or by Fail.
Taken(r) ==
  /\ r \in requests /\ r.type = "set" /\ Write(r.kind, r.list)
  /\ requests' = requests \ {r}
  /\ Disturb(r.kind, Swapped(r))

LEMMA TakenFacts ==
  ASSUME WireOK, ListsInv, NEW r, Taken(r), UNCHANGED <<shown, loaded>>
  PROVE  /\ r.kind \in Kind /\ own' \in [Kind -> OwnRecord]
         /\ \A k \in Kind : own'[k].list = own[k].list /\ own'[k].sent = own[k].sent
                            /\ own'[k].behind = own[k].behind
         /\ stored'[r.kind] = r.list
         /\ \A k \in Kind : k # r.kind =>
               /\ stored'[k] = stored[k]
               /\ \A list : UpToDate(k, list)' <=> UpToDate(k, list)
         /\ \A list : ~UpToDate(r.kind, list)
         /\ Sent' /\ Stores' /\ Shows'
<1>1. r \in requests /\ r.type = "set" /\ r.kind \in Kind
  BY RequestTypes DEF Taken
<1>2. PICK swapped : swapped = Swapped(r)
  OBVIOUS
<1>3. Disturb(r.kind, swapped)
  BY <1>2 DEF Taken
<1>4. /\ own' \in [Kind -> OwnRecord]
      /\ \A k \in Kind : own'[k].list = own[k].list /\ own'[k].sent = own[k].sent
                         /\ own'[k].behind = own[k].behind
      /\ \A k \in Kind : k # r.kind => own'[k] = own[k]
      /\ ~own'[r.kind].disturbed => ~own[r.kind].disturbed /\ ~swapped
  BY <1>1, <1>3, DisturbType
<1>5. stored'[r.kind] = r.list /\ \A k \in Kind : k # r.kind => stored'[k] = stored[k]
  BY <1>1 DEF Taken, Write, WireOK, TwoLists
<1>6. \A k \in Kind : k # r.kind => (SetWaiting(k)' <=> SetWaiting(k))
  BY DEF Taken, SetWaiting
<1>7. \A k \in Kind : k # r.kind => \A list : UpToDate(k, list)' <=> UpToDate(k, list)
  BY <1>4, <1>5, <1>6 DEF UpToDate
<1>8. \A list : ~UpToDate(r.kind, list)
  BY <1>1 DEF UpToDate, SetWaiting
<1>9. Sent'
  <2>1. \A q \in requests' : q \in requests /\ q.kind \in Kind
    BY RequestTypes DEF Taken
  <2> QED
    BY <1>4, <2>1 DEF ListsInv, Sent
<1>10. Stores'
  <2>1. SUFFICES ASSUME NEW k \in Kind, ~own'[k].disturbed
                 PROVE  \/ stored'[k] = own'[k].list
                        \/ \E q \in requests' : q.kind = k /\ q.type = "set"
                                               /\ q.sent = own'[k].sent
    BY DEF Stores
  <2>2. CASE k # r.kind
    <3>1. \A q \in requests : q.kind = k => q \in requests'
      BY <2>2 DEF Taken
    <3> QED
      BY <1>4, <1>5, <2>1, <2>2, <3>1 DEF ListsInv, Stores
  <2>3. CASE k = r.kind /\ r.sent = own[k].sent
    BY <1>1, <1>4, <1>5, <2>3 DEF ListsInv, Sent
  <2>4. CASE k = r.kind /\ r.sent # own[k].sent
    <3>1. r.sent < own[k].sent
      <4>1. r.sent \in Nat /\ own[k].sent \in Nat /\ r.sent <= own[k].sent
        BY <1>1, <2>4, RequestTypes DEF ListsInv, Sent, WireOK
      <4> QED
        BY <2>4, <4>1
    <3>2. PICK q \in requests : q.kind = k /\ q.type = "set" /\ q.sent = own[k].sent
      BY <1>2, <1>4, <2>1, <2>4, <3>1 DEF Swapped
    <3>3. q \in requests'
      BY <2>4, <3>2 DEF Taken
    <3> QED
      BY <1>4, <3>2, <3>3
  <2> QED
    BY <2>2, <2>3, <2>4
<1>11. Shows'
  BY <1>4, <1>7, <1>8 DEF ListsInv, Shows
<1> QED
  BY <1>1, <1>4, <1>5, <1>7, <1>8, <1>9, <1>10, <1>11

LEMMA HandleSetLists ==
  ASSUME WireOK, ListsInv, HandleSet PROVE ListsInv'
<1>1. PICK r : /\ Taken(r)
               /\ answers' = answers \cup
                    {[kind |-> r.kind, sent |-> r.sent, id |-> r.id, list |-> r.list,
                      behind |-> \E q \in requests \ {r} :
                                   q.kind = r.kind /\ q.type = "set"]}
  BY DEF HandleSet, Taken
<1>2. UNCHANGED <<shown, loaded>>
  BY DEF HandleSet, lists
<1>3. /\ r.kind \in Kind
      /\ \A k \in Kind : own'[k].list = own[k].list /\ own'[k].sent = own[k].sent
      /\ stored'[r.kind] = r.list
      /\ \A k \in Kind : k # r.kind => \A list : UpToDate(k, list)' <=> UpToDate(k, list)
      /\ \A list : ~UpToDate(r.kind, list)
      /\ Sent' /\ Stores' /\ Shows'
  BY <1>1, <1>2, TakenFacts
<1>4. r \in requests /\ r.type = "set" /\ requests' = requests \ {r}
  BY <1>1 DEF Taken
<1>5. \A a \in answers' :
        \/ a \in answers
        \/ /\ a.kind = r.kind /\ a.sent = r.sent /\ a.list = r.list
           /\ ~a.behind => ~\E q \in requests' : q.kind = r.kind /\ q.type = "set"
  BY <1>1, <1>4
<1>6. Answered'
  <2>1. SUFFICES ASSUME NEW a \in answers'
                 PROVE  /\ a.sent <= own'[a.kind].sent
                        /\ a.sent = own'[a.kind].sent /\ ~a.behind
                             => UpToDate(a.kind, a.list)'
    BY DEF Answered
  <2>2. CASE a \in answers
    BY <1>3, <2>2, AnswerTypes DEF ListsInv, Answered
  <2>3. CASE a \notin answers
    <3>1. /\ a.kind = r.kind /\ a.sent = r.sent /\ a.list = r.list
          /\ ~a.behind => ~\E q \in requests' : q.kind = r.kind /\ q.type = "set"
      BY <1>5, <2>3
    <3>2. r.sent <= own[r.kind].sent /\ (r.sent = own[r.kind].sent => r.list = own[r.kind].list)
      BY <1>4 DEF ListsInv, Sent
    <3>3. ~a.behind => ~SetWaiting(a.kind)'
      BY <3>1 DEF SetWaiting
    <3> QED
      BY <1>3, <3>1, <3>2, <3>3 DEF UpToDate
  <2> QED
    BY <2>2, <2>3
<1> QED
  BY <1>3, <1>6 DEF ListsInv

LEMMA FailLists ==
  ASSUME WireOK, ListsInv, Fail PROVE ListsInv'
<1>1. PICK r \in requests :
        /\ requests' = requests \ {r}
        /\ \/ r.type = "get" /\ UNCHANGED <<cloud, own>>
           \/ /\ r.type = "set" /\ Disturb(r.kind, r.sent = own[r.kind].sent)
              /\ UNCHANGED cloud
           \/ /\ r.type = "set" /\ Disturb(r.kind, Swapped(r))
              /\ Write(r.kind, r.list)
  BY DEF Fail
<1>2. UNCHANGED <<answers, shown, loaded>> /\ r.kind \in Kind
  BY RequestTypes DEF Fail, lists
<1>3. CASE r.type = "get" /\ UNCHANGED <<cloud, own>>
  <2>1. UNCHANGED <<stored, own>>
    BY <1>3 DEF cloud
  <2>2. \A k : SetWaiting(k)' <=> SetWaiting(k)
    BY <1>1, <1>3 DEF SetWaiting
  <2>3. \A k, l : UpToDate(k, l)' <=> UpToDate(k, l)
    BY <2>1, <2>2 DEF UpToDate
  <2>4. Sent' /\ Stores'
    BY <1>1, <1>3, <2>1 DEF ListsInv, Sent, Stores
  <2>5. Answered' /\ Shows'
    BY <1>2, <2>1, <2>3 DEF ListsInv, Answered, Shows
  <2> QED
    BY <2>4, <2>5 DEF ListsInv
<1>4. CASE Taken(r)
  <2>1. /\ \A k \in Kind : own'[k].list = own[k].list /\ own'[k].sent = own[k].sent
        /\ \A k \in Kind : k # r.kind =>
              \A list : UpToDate(k, list)' <=> UpToDate(k, list)
        /\ \A list : ~UpToDate(r.kind, list)
        /\ Sent' /\ Stores' /\ Shows'
    BY <1>2, <1>4, TakenFacts
  <2>2. Answered'
    BY <1>2, <2>1, AnswerTypes DEF ListsInv, Answered
  <2> QED
    BY <2>1, <2>2 DEF ListsInv
<1>5. CASE /\ r.type = "set" /\ Disturb(r.kind, r.sent = own[r.kind].sent)
           /\ UNCHANGED cloud
  <2>1. PICK last : last = (r.sent = own[r.kind].sent)
    OBVIOUS
  <2>2. Disturb(r.kind, last) /\ UNCHANGED stored
    BY <1>5, <2>1 DEF cloud
  <2>3. /\ \A k \in Kind : own'[k].list = own[k].list /\ own'[k].sent = own[k].sent
                           /\ own'[k].behind = own[k].behind
        /\ \A k \in Kind : k # r.kind => own'[k] = own[k]
        /\ ~own'[r.kind].disturbed => ~own[r.kind].disturbed /\ ~last
    BY <1>2, <2>2, DisturbType
  <2>4. \A k \in Kind : k # r.kind => (SetWaiting(k)' <=> SetWaiting(k))
    BY <1>1 DEF SetWaiting
  <2>5. \A k \in Kind : k # r.kind => \A list : UpToDate(k, list)' <=> UpToDate(k, list)
    BY <2>2, <2>3, <2>4 DEF UpToDate
  <2>6. \A list : ~UpToDate(r.kind, list)
    BY <1>5 DEF UpToDate, SetWaiting
  <2>7. Sent'
    <3>1. \A q \in requests' : q \in requests /\ q.kind \in Kind
      BY <1>1, RequestTypes
    <3> QED
      BY <2>3, <3>1 DEF ListsInv, Sent
  <2>8. Stores'
    <3>1. SUFFICES ASSUME NEW k \in Kind, ~own'[k].disturbed
                   PROVE  \/ stored[k] = own'[k].list
                          \/ \E q \in requests' : q.kind = k /\ q.type = "set"
                                                 /\ q.sent = own'[k].sent
      BY <2>2 DEF Stores
    <3>2. ~own[k].disturbed
      BY <2>3, <3>1
    <3>3. CASE stored[k] = own[k].list
      BY <2>3, <3>3
    <3>4. ASSUME NEW q \in requests, q.kind = k, q.type = "set", q.sent = own[k].sent
          PROVE  q \in requests'
      BY <1>1, <2>1, <2>3, <3>1, <3>4
    <3> QED
      BY <2>3, <3>2, <3>3, <3>4 DEF ListsInv, Stores
  <2>9. Answered'
    BY <1>2, <2>3, <2>5, <2>6, AnswerTypes DEF ListsInv, Answered
  <2>10. Shows'
    BY <1>2, <2>3, <2>5, <2>6 DEF ListsInv, Shows
  <2> QED
    BY <2>7, <2>8, <2>9, <2>10 DEF ListsInv
<1> QED
  BY <1>1, <1>3, <1>4, <1>5 DEF Taken

LEMMA LoseLists ==
  ASSUME WireOK, ListsInv, Lose PROVE ListsInv'
<1>1. answers' \subseteq answers /\ UNCHANGED <<requests, shown, loaded, stored, own>>
  BY DEF Lose, cloud, lists
<1>2. \A k, l : UpToDate(k, l)' <=> UpToDate(k, l)
  BY <1>1 DEF UpToDate, SetWaiting
<1> QED
  BY <1>1, <1>2 DEF ListsInv, Sent, Stores, Answered, Shows

LEMMA HandleJsonMessageLists ==
  ASSUME WireOK, ListsInv, HandleJsonMessage PROVE ListsInv'
<1>1. PICK a \in answers :
        /\ answers' = answers \ {a}
        /\ shown' = [shown EXCEPT ![a.kind] = a.list]
        /\ loaded' = [loaded EXCEPT ![a.kind] = TRUE]
        /\ own' = [own EXCEPT ![a.kind].behind = a.behind \/ a.sent # own[a.kind].sent]
  BY DEF HandleJsonMessage
<1>2. UNCHANGED <<requests, stored>> /\ a.kind \in Kind
  BY AnswerTypes DEF HandleJsonMessage, cloud
<1>3. /\ \A k \in Kind : own'[k].list = own[k].list /\ own'[k].sent = own[k].sent
                         /\ own'[k].disturbed = own[k].disturbed
      /\ \A k \in Kind : k # a.kind => own'[k] = own[k]
      /\ ~own'[a.kind].behind => ~a.behind /\ a.sent = own[a.kind].sent
  BY <1>1, HandleJsonMessageOwn
<1>4. \A k \in Kind : \A l : UpToDate(k, l)' <=> UpToDate(k, l)
  BY <1>2, <1>3 DEF UpToDate, SetWaiting
<1>5. Sent' /\ Stores'
  BY <1>2, <1>3, RequestTypes DEF ListsInv, Sent, Stores
<1>6. Answered'
  BY <1>1, <1>3, <1>4, AnswerTypes DEF ListsInv, Answered
<1>7. Shows'
  <2>1. SUFFICES ASSUME NEW k \in Kind, NEW list, list = shown'[k],
                        loaded'[k], ~own'[k].behind
                 PROVE  UpToDate(k, list)'
    BY DEF Shows, UpToDate
  <2>2. CASE k = a.kind
    <3>1. list = a.list
      BY <1>1, <2>1, <2>2 DEF WireOK, TwoLists
    <3>2. UpToDate(a.kind, a.list)
      BY <1>3, <2>1, <2>2 DEF ListsInv, Answered
    <3> QED
      BY <1>4, <2>2, <3>1, <3>2
  <2>3. CASE k # a.kind
    <3>1. list = shown[k] /\ loaded'[k] = loaded[k] /\ own'[k] = own[k]
      BY <1>1, <1>3, <2>1, <2>3 DEF WireOK, TwoLists
    <3>2. UpToDate(k, shown[k])
      BY <2>1, <3>1 DEF ListsInv, Shows
    <3> QED
      BY <1>4, <3>1, <3>2
  <2> QED
    BY <2>2, <2>3
<1> QED
  BY <1>5, <1>6, <1>7 DEF ListsInv

LEMMA OthersWriteLists ==
  ASSUME WireOK, ListsInv, OthersWrite PROVE ListsInv'
<1>1. PICK k \in Kind : \E list \in Lists[k] : Write(k, list) /\ Disturb(k, TRUE)
  BY DEF OthersWrite
<1>2. PICK list \in Lists[k] : Write(k, list) /\ Disturb(k, TRUE)
  BY <1>1
<1>3. UNCHANGED <<requests, answers, shown, loaded>>
  BY DEF OthersWrite, wire, lists
<1>4. /\ \A j \in Kind : own'[j].list = own[j].list /\ own'[j].sent = own[j].sent
                         /\ own'[j].behind = own[j].behind
      /\ \A j \in Kind : j # k => own'[j] = own[j]
      /\ own'[k].disturbed
  BY <1>2, DisturbType
<1>5. \A j \in Kind : j # k => stored'[j] = stored[j]
  BY <1>2 DEF Write, WireOK, TwoLists
<1>6. \A j \in Kind : \A l : UpToDate(j, l) => UpToDate(j, l)'
  BY <1>3, <1>4, <1>5 DEF UpToDate, SetWaiting
<1>7. Sent'
  BY <1>3, <1>4, RequestTypes DEF ListsInv, Sent
<1>8. Stores'
  BY <1>3, <1>4, <1>5 DEF ListsInv, Stores
<1>9. Answered'
  BY <1>3, <1>4, <1>6, AnswerTypes DEF ListsInv, Answered
<1>10. Shows'
  BY <1>3, <1>4, <1>6 DEF ListsInv, Shows
<1> QED
  BY <1>7, <1>8, <1>9, <1>10 DEF ListsInv

LEMMA ListsStep ==
  ASSUME Seen, ListsInv, [Next]_vars PROVE ListsInv'
<1>1. WireOK
  BY DEF Seen
<1>2. CASE TurnPages
  BY <1>1, <1>2, PagesTurn, SendsLists DEF Turns
<1>3. CASE Tick \/ UNCHANGED vars
  BY <1>3, SameLists DEF Tick, vars, cloud, wire, lists
<1> QED
  BY <1>1, <1>2, <1>3, HandleGetLists, HandleSetLists, FailLists, LoseLists,
     HandleJsonMessageLists, OthersWriteLists DEF Next, TurnPages

LEMMA ListsInit ==
  ASSUME Init PROVE ListsInv
<1>1. \A k \in Kind : stored[k] = own[k].list
  BY DEF Init
<1> QED
  BY <1>1 DEF Init, ListsInv, Sent, Stores, Answered, Shows

\* A list that can be changed has all own changes, whatever was delayed or
\* overtaken on the way: the next change, which sends the whole list, undoes none.
THEOREM ShowsOwnChangesCorrect == Spec => []ShowsOwnChanges
<1>1. Init => Seen /\ ListsInv
  BY TypeInit, ListsInit
<1>2. Seen /\ ListsInv /\ [Next]_vars => Seen' /\ ListsInv'
  BY TypeStep, ListsStep
<1>3. ListsInv => ShowsOwnChanges
  BY ShowsParts DEF ListsInv
<1> QED
  BY <1>1, <1>2, <1>3, PTL DEF Spec

------------------------------------------------------------------------------
(* The editor.  One that was not exposed shows the entry at its index as it *)
(* is, for no answer can come before the editor is closed.                  *)

Copied(e) ==
  /\ editor.propertyIds = e.propertyIds /\ editor.startTime = e.startTime
  /\ e.startTime # 0 => editor.runTime = e.endTime - e.startTime
EditorInv ==
  /\ editor = None <=> ~EditorOpen
  /\ editor # None /\ ~editor.exposed =>
       /\ ~UnderWay(openPage)
       /\ scheduleEntryIndex # New =>
            /\ editor.shows = Chosen /\ editor.relativeStartTime = None
            /\ Chosen # None => Copied(Chosen)

MountedAs(m) ==
  /\ m # None
  /\ m.exposed <=> UnderWay(openPage)
  /\ scheduleEntryIndex # New =>
       /\ m.shows = Chosen /\ m.relativeStartTime = None
       /\ Chosen # None =>
            /\ m.propertyIds = Chosen.propertyIds /\ m.startTime = Chosen.startTime
            /\ Chosen.startTime # 0 => m.runTime = Chosen.endTime - Chosen.startTime

LEMMA MountedCopies ==
  WireOK /\ PagesOK => MountedAs(Mounted)
<1> SUFFICES ASSUME WireOK, PagesOK PROVE MountedAs(Mounted)
  OBVIOUS
<1>1. Mounted # None
  BY MountedType, EditingAssumption
<1>2. Mounted.exposed <=> UnderWay(openPage)
  BY DEF Mounted
<1>3. scheduleEntryIndex # New =>
        Mounted.shows = Chosen /\ Mounted.relativeStartTime = None
  BY DEF Mounted
<1>4. Chosen # None =>
        /\ Mounted.propertyIds = Chosen.propertyIds /\ Mounted.startTime = Chosen.startTime
        /\ Chosen.startTime # 0 => Mounted.runTime = Chosen.endTime - Chosen.startTime
  BY DEF Mounted
<1> QED
  BY <1>1, <1>2, <1>3, <1>4 DEF MountedAs

\* A step that opens an editor, or leaves none open.
LEMMA RenderEditor ==
  ASSUME WireOK', PagesOK', Render, editor = None \/ ~EditorOpen'
  PROVE  EditorInv'
<1>1. CASE ~EditorOpen'
  BY <1>1 DEF Render, EditorInv
<1>2. CASE EditorOpen'
  <2>1. editor' = Mounted'
    BY <1>2 DEF Render
  <2>2. (WireOK /\ PagesOK)' => MountedAs(Mounted)'
    BY MountedCopies, PTL
  <2>3. MountedAs(Mounted)'
    BY <2>2
  <2>4. /\ editor' # None /\ (editor'.exposed <=> UnderWay(openPage)')
        /\ scheduleEntryIndex' # New =>
             /\ editor'.shows = Chosen' /\ editor'.relativeStartTime = None
             /\ Chosen' # None =>
                  /\ editor'.propertyIds = Chosen'.propertyIds
                  /\ editor'.startTime = Chosen'.startTime
                  /\ Chosen'.startTime # 0 =>
                       editor'.runTime = Chosen'.endTime - Chosen'.startTime
    BY <2>1, <2>3 DEF MountedAs
  <2> QED
    BY <1>2, <2>4 DEF EditorInv, Copied
<1> QED
  BY <1>1, <1>2

\* No step of a page leaves an open editor open.
LEMMA TurnPagesEditor ==
  ASSUME Seen, EditorInv, TurnPages PROVE EditorInv'
<1>1. Turns
  BY PagesTurn
<1>2. WireOK' /\ PagesOK' /\ Render
  BY <1>1, SendsWire DEF Turns, Seen
<1>3. editor = None \/ ~EditorOpen'
  <2>1. SUFFICES ASSUME EditorOpen PROVE editor = None \/ ~EditorOpen'
    BY DEF EditorInv
  <2>2. openPage # "tabs" /\ (openPage = "saved" => savedScheduleIndex # None)
    BY <2>1 DEF EditorOpen
  <2>3. ~OpenScheduleList /\ ~OpenSavedSchedules /\ ~SavedOpen
    BY <2>2 DEF OpenScheduleList, OpenSavedSchedules, SavedOpen
  <2>4. CASE EntriesOpen
    BY <2>4 DEF EntriesOpen
  <2>5. CASE EndEditing
    BY <2>5 DEF EndEditing, EditorOpen
  <2> QED
    BY <2>3, <2>4, <2>5 DEF TurnPages, CloseEntries, CloseSaved, ChooseEntry, ChooseSaved,
       SaveEntry, DeleteEntry, CancelEditing, RenameSaved, DeleteSaved, NewSaved, StartSaved
<1> QED
  BY <1>2, <1>3, RenderEditor

\* A step of the cloud, or time.
LEMMA SameEditor ==
  ASSUME EditorInv, UNCHANGED <<pages, lists, editor>>,
         UnderWay(openPage)' => UnderWay(openPage)
  PROVE  EditorInv'
<1>1. /\ UNCHANGED <<openPage, scheduleEntryIndex, savedScheduleIndex>>
      /\ UNCHANGED <<shown, loaded, editor>>
  BY DEF pages, lists
<1>2. EditorOpen' <=> EditorOpen
  BY <1>1 DEF EditorOpen
<1>3. Chosen' = Chosen
  BY <1>1 DEF Chosen, Listed, SavedEntries
<1> QED
  BY <1>1, <1>2, <1>3 DEF EditorInv, Copied

LEMMA HandleJsonMessageEditor ==
  ASSUME Seen, EditorInv, HandleJsonMessage PROVE EditorInv'
<1>1. WireOK' /\ PagesOK' /\ Render
  BY HandleJsonMessageWire DEF HandleJsonMessage, Seen, PagesOK, pages
<1>2. CASE editor = None \/ ~EditorOpen'
  BY <1>1, <1>2, RenderEditor
<1>3. CASE editor # None /\ EditorOpen'
  <2>1. editor' = editor
    BY <1>1, <1>3 DEF Render
  <2>2. CASE editor.exposed
    BY <1>3, <2>1, <2>2 DEF EditorInv
  <2>3. CASE ~editor.exposed
    <3>1. ~UnderWay(openPage)
      BY <1>3, <2>3 DEF EditorInv
    <3>2. PICK a \in answers :
            /\ answers' = answers \ {a}
            /\ shown' = [shown EXCEPT ![a.kind] = a.list]
      BY DEF HandleJsonMessage
    <3>3. a.kind # openPage
      BY <3>1 DEF UnderWay
    <3>4. /\ UNCHANGED <<requests, openPage, scheduleEntryIndex, savedScheduleIndex>>
          /\ openPage \in {"schedule", "saved"}
      <4>1. EditorOpen
        BY <1>3 DEF EditorInv
      <4> QED
        BY <4>1 DEF HandleJsonMessage, pages, Seen, PagesOK, Kind, EditorOpen
    <3>5. shown'[openPage] = shown[openPage]
      BY <3>2, <3>3, <3>4 DEF Seen, WireOK, TwoLists, Kind
    <3>6. Chosen' = Chosen
      <4>1. CASE openPage = "schedule"
        BY <3>4, <3>5, <4>1 DEF Chosen, Listed
      <4>2. CASE openPage = "saved"
        BY <3>4, <3>5, <4>2 DEF Chosen, Listed, SavedEntries
      <4> QED
        BY <3>4, <4>1, <4>2
    <3>7. ~UnderWay(openPage)'
      BY <3>1, <3>2, <3>4 DEF UnderWay
    <3> QED
      BY <1>3, <2>1, <2>3, <3>4, <3>6, <3>7 DEF EditorInv, Copied
  <2> QED
    BY <2>2, <2>3
<1> QED
  BY <1>2, <1>3

\* What is on its way is answered or lost, and nothing else comes under way.
LEMMA CloudMessages ==
  ASSUME WireOK, HandleGet \/ HandleSet \/ Fail \/ Lose \/ OthersWrite \/ Tick
  PROVE  /\ UNCHANGED <<pages, lists>> /\ editor' = editor
         /\ \A k \in Kind : UnderWay(k)' => UnderWay(k)
         /\ \A k \in Kind : UnderWay(k) => UnderWay(k)' \/ k \in lost'
         /\ lost \subseteq lost'
<1>1. UNCHANGED <<pages, lists>> /\ editor' = editor
  BY DEF HandleGet, HandleSet, Fail, Lose, OthersWrite, Tick
<1>2. CASE HandleGet \/ HandleSet
  <2>1. PICK r \in requests :
          /\ requests' = requests \ {r}
          /\ \E a : a.kind = r.kind /\ answers' = answers \cup {a}
    <3>1. CASE HandleGet
      <4>1. PICK r \in requests : \E list :
              /\ requests' = requests \ {r}
              /\ answers' = answers \cup
                   {[kind |-> r.kind, sent |-> r.sent, id |-> r.id, list |-> list,
                     behind |-> list # stored[r.kind] \/ SetWaiting(r.kind)]}
        BY <3>1 DEF HandleGet
      <4>2. PICK list :
              answers' = answers \cup
                {[kind |-> r.kind, sent |-> r.sent, id |-> r.id, list |-> list,
                  behind |-> list # stored[r.kind] \/ SetWaiting(r.kind)]}
        BY <4>1
      <4>3. PICK a : a = [kind |-> r.kind, sent |-> r.sent, id |-> r.id, list |-> list,
                          behind |-> list # stored[r.kind] \/ SetWaiting(r.kind)]
        OBVIOUS
      <4> QED
        BY <4>1, <4>2, <4>3
    <3>2. CASE HandleSet
      <4>1. PICK r \in requests :
              /\ requests' = requests \ {r}
              /\ answers' = answers \cup
                   {[kind |-> r.kind, sent |-> r.sent, id |-> r.id, list |-> r.list,
                     behind |-> \E q \in requests \ {r} :
                                  q.kind = r.kind /\ q.type = "set"]}
        BY <3>2 DEF HandleSet
      <4>2. PICK a : a = [kind |-> r.kind, sent |-> r.sent, id |-> r.id, list |-> r.list,
                          behind |-> \E q \in requests \ {r} :
                                       q.kind = r.kind /\ q.type = "set"]
        OBVIOUS
      <4> QED
        BY <4>1, <4>2
    <3> QED
      BY <1>2, <3>1, <3>2
  <2>2. PICK a : a.kind = r.kind /\ answers' = answers \cup {a}
    BY <2>1
  <2>3. lost' = lost
    BY <1>2 DEF HandleGet, HandleSet
  <2> QED
    BY <1>1, <2>1, <2>2, <2>3 DEF UnderWay
<1>3. CASE Fail
  <2>1. PICK r \in requests : requests' = requests \ {r} /\ lost' = lost \cup {r.kind}
    BY <1>3 DEF Fail
  <2>2. answers' = answers
    BY <1>3 DEF Fail
  <2> QED
    BY <1>1, <2>1, <2>2 DEF UnderWay
<1>4. CASE Lose
  <2>1. PICK a \in answers : answers' = answers \ {a} /\ lost' = lost \cup {a.kind}
    BY <1>4 DEF Lose
  <2>2. requests' = requests
    BY <1>4 DEF Lose
  <2> QED
    BY <1>1, <2>1, <2>2 DEF UnderWay
<1>5. CASE OthersWrite \/ Tick
  <2>1. UNCHANGED <<requests, answers, lost>>
    BY <1>5 DEF OthersWrite, Tick, wire
  <2> QED
    BY <1>1, <2>1 DEF UnderWay
<1> QED
  BY <1>2, <1>3, <1>4, <1>5

LEMMA EditorStep ==
  ASSUME Seen, EditorInv, [Next]_vars PROVE EditorInv'
<1>1. CASE TurnPages
  BY <1>1, TurnPagesEditor
<1>2. CASE HandleJsonMessage
  BY <1>2, HandleJsonMessageEditor
<1>3. CASE HandleGet \/ HandleSet \/ Fail \/ Lose \/ OthersWrite \/ Tick
  <2>1. /\ UNCHANGED <<pages, lists>> /\ editor' = editor
        /\ \A k \in Kind : UnderWay(k)' => UnderWay(k)
    BY <1>3, CloudMessages DEF Seen
  <2>2. openPage' = openPage
    BY <2>1 DEF pages
  <2>3. CASE EditorOpen
    <3>1. openPage \in Kind
      BY <2>3 DEF EditorOpen, Seen, PagesOK
    <3>2. UnderWay(openPage)' => UnderWay(openPage)
      BY <2>1, <2>2, <3>1 DEF UnderWay
    <3> QED
      BY <2>1, <3>2, SameEditor
  <2>4. CASE ~EditorOpen
    <3>1. ~EditorOpen'
      BY <2>1, <2>4 DEF EditorOpen, pages, lists
    <3> QED
      BY <2>1, <2>4, <3>1 DEF EditorInv
  <2> QED
    BY <2>3, <2>4
<1>4. CASE UNCHANGED vars
  <2>1. UNCHANGED <<pages, lists, editor, requests, answers, openPage>>
    BY <1>4 DEF vars, wire, pages
  <2> QED
    BY <2>1, SameEditor DEF UnderWay
<1> QED
  BY <1>1, <1>2, <1>3, <1>4 DEF Next, TurnPages

LEMMA EditorInit ==
  ASSUME Init PROVE EditorInv
BY DEF Init, EditorInv, EditorOpen

LEMMA UnchangedResult ==
  ASSUME Seen, EditorInv PROVE EditorShowsEntry
<1>1. SUFFICES ASSUME editor # None, ~editor.exposed, scheduleEntryIndex # New,
                      Chosen # None, Chosen.startTime # 0,
                      Close(Listed, scheduleEntryIndex, Chosen) = {}
               PROVE  Result(editor.propertyIds, StartTime, editor.runTime) = Chosen
  BY DEF EditorInv, EditorShowsEntry
<1>2. editor.relativeStartTime = None /\ Copied(Chosen)
  BY <1>1 DEF EditorInv
<1>3. PICK entry : entry = Chosen
  OBVIOUS
<1>4. entry \in Entry
  BY <1>1, <1>3, ChosenType DEF Seen
<1>5. entry \in [propertyIds : (SUBSET PropertyId) \ {{}}, startTime : Nat, endTime : Nat]
  BY <1>4 DEF Entry
<1>6. /\ editor.propertyIds = entry.propertyIds /\ StartTime = entry.startTime
      /\ editor.runTime = entry.endTime - entry.startTime
  BY <1>1, <1>2, <1>3 DEF Copied, StartTime
<1>7. StartTime + editor.runTime = entry.endTime
  BY <1>5, <1>6
<1>8. [propertyIds |-> editor.propertyIds, startTime |-> StartTime,
       endTime |-> StartTime + editor.runTime] = entry
  BY <1>5, <1>6, <1>7
<1>9. Snapped(Listed, scheduleEntryIndex, entry) = entry
  BY <1>1, <1>3 DEF Snapped
<1> QED
  BY <1>3, <1>8, <1>9 DEF Result

\* An editor opened with nothing under way is for the entry at its index as long
\* as it is open, and saving it untouched changes nothing.
THEOREM EditorShowsEntryCorrect == Spec => []EditorShowsEntry
<1>1. Init => Seen /\ EditorInv
  BY TypeInit, EditorInit
<1>2. Seen /\ EditorInv /\ [Next]_vars => Seen' /\ EditorInv'
  BY TypeStep, EditorStep
<1>3. Seen /\ EditorInv => EditorShowsEntry
  BY UnchangedResult
<1> QED
  BY <1>1, <1>2, <1>3, PTL DEF Spec

------------------------------------------------------------------------------
(* Pages.  What a page needs is asked for when it is opened, and whatever    *)
(* makes a list out of date asks for it again.                               *)

Waiting(k) == loaded[k] \/ UnderWay(k) \/ k \in lost

LEMMA GetUnderWay ==
  ASSUME NEW kinds, RequestGet(kinds), NEW k \in kinds PROVE UnderWay(k)'
<1>1. PICK id \in [kinds -> Ids] :
        requests' = requests \cup
          {[kind |-> j, type |-> "get", sent |-> own[j].sent, id |-> id[j]] : j \in kinds}
  BY DEF RequestGet
<1>2. PICK r : r = [kind |-> k, type |-> "get", sent |-> own[k].sent, id |-> id[k]]
  OBVIOUS
<1>3. r \in requests' /\ r.kind = k
  BY <1>1, <1>2
<1> QED
  BY <1>3 DEF UnderWay

LEMMA SendsWaiting ==
  ASSUME WireOK, Sends, NEW k \in Kind, Waiting(k) PROVE Waiting(k)'
<1>1. CASE Quiet
  BY <1>1 DEF Quiet, Waiting, UnderWay, wire, lists
<1>2. CASE \E kinds \in SUBSET Kind : RequestGet(kinds)
  <2>1. PICK kinds \in SUBSET Kind : RequestGet(kinds)
    BY <1>2
  <2>2. CASE k \in kinds
    BY <2>1, <2>2, GetUnderWay DEF Waiting
  <2>3. CASE k \notin kinds
    <3>1. requests \subseteq requests' /\ answers' = answers
      BY <2>1 DEF RequestGet
    <3>2. loaded'[k] = loaded[k] /\ (k \in lost => k \in lost')
      BY <2>1, <2>3 DEF RequestGet, WireOK
    <3> QED
      BY <3>1, <3>2 DEF Waiting, UnderWay
  <2> QED
    BY <2>2, <2>3
<1>3. ASSUME NEW j \in Kind, NEW list \in ListOf(j), RequestSet(j, list), ~Quiet
      PROVE  Waiting(k)'
  <2>1. PICK id \in Ids :
          requests' = requests \cup
            {[kind |-> j, type |-> "set", sent |-> own[j].sent + 1, id |-> id,
              list |-> list]}
    BY <1>3 DEF RequestSet
  <2>2. PICK r : r = [kind |-> j, type |-> "set", sent |-> own[j].sent + 1, id |-> id,
                      list |-> list]
    OBVIOUS
  <2>3. r.kind = j /\ r \in requests' /\ requests \subseteq requests'
    BY <2>1, <2>2
  <2>4. answers' = answers /\ loaded' = [loaded EXCEPT ![j] = FALSE] /\ lost' = lost \ {j}
    BY <1>3 DEF RequestSet
  <2>5. CASE k = j
    BY <2>3, <2>5 DEF Waiting, UnderWay
  <2>6. CASE k # j
    BY <2>3, <2>4, <2>6 DEF Waiting, UnderWay, WireOK
  <2> QED
    BY <2>5, <2>6
<1> QED
  BY <1>1, <1>2, <1>3 DEF Sends

Needs(page) == {k \in Kind : page = k \/ (page = "saved" /\ k = "schedule")}

LEMMA NeverStuckParts == NeverStuck <=> \A k \in Needs(openPage) : Waiting(k)
BY DEF NeverStuck, Needs, Waiting

LEMMA TurnPagesWaiting ==
  ASSUME Seen, NeverStuck, TurnPages PROVE NeverStuck'
<1>1. WireOK /\ Sends
  BY PagesTurn DEF Seen, Turns
<1>2. \A k \in Needs(openPage) : Waiting(k)'
  BY <1>1, NeverStuckParts, SendsWaiting DEF Needs
<1>3. SUFFICES ASSUME NEW page, page = openPage', NEW k \in Needs(page)
               PROVE  Waiting(k)'
  BY DEF NeverStuck, Needs, Waiting, UnderWay
<1>4. CASE k \in Needs(openPage)
  BY <1>2, <1>4
<1>5. CASE OpenScheduleList
  <2>1. RequestGet({"schedule"}) /\ k \in {"schedule"}
    BY <1>3, <1>5 DEF OpenScheduleList, Needs
  <2> QED
    BY <2>1, GetUnderWay DEF Waiting
<1>6. CASE OpenSavedSchedules
  <2>1. RequestGet({"schedule", "saved"}) /\ k \in {"schedule", "saved"}
    BY <1>3, <1>6 DEF OpenSavedSchedules, Needs, Kind
  <2> QED
    BY <2>1, GetUnderWay DEF Waiting
<1>7. CASE ~OpenScheduleList /\ ~OpenSavedSchedules
  <2>1. \/ openPage' = openPage \/ openPage' = "tabs"
        \/ openPage = "saved" /\ openPage' = "schedule"
    BY <1>7 DEF TurnPages, CloseEntries, CloseSaved, ChooseEntry, ChooseSaved, SavedOpen,
       SaveEntry, DeleteEntry, CancelEditing, EndEditing, RenameSaved, DeleteSaved, NewSaved,
       StartSaved, pages
  <2> QED
    BY <1>3, <1>4, <2>1 DEF Needs, Kind
<1> QED
  BY <1>5, <1>6, <1>7

LEMMA WaitingStep ==
  ASSUME Seen, NeverStuck, [Next]_vars PROVE NeverStuck'
<1>1. \A k \in Needs(openPage) : Waiting(k)
  BY NeverStuckParts
<1>2. ASSUME openPage' = openPage, \A k \in Kind : Waiting(k) => Waiting(k)'
      PROVE  NeverStuck'
  <2>1. \A k \in Kind : openPage = k \/ (openPage = "saved" /\ k = "schedule") => Waiting(k)'
    BY <1>1, <1>2 DEF Needs
  <2> QED
    BY <1>2, <2>1 DEF NeverStuck, Waiting
<1>3. CASE HandleJsonMessage
  <2>1. PICK a \in answers :
          /\ answers' = answers \ {a}
          /\ loaded' = [loaded EXCEPT ![a.kind] = TRUE]
          /\ lost' = lost \ {a.kind}
    BY <1>3 DEF HandleJsonMessage
  <2>2. UNCHANGED <<requests, openPage>>
    BY <1>3 DEF HandleJsonMessage, pages
  <2>3. \A k \in Kind : Waiting(k) => Waiting(k)'
    <3> TAKE k \in Kind
    <3>1. CASE k = a.kind
      BY <2>1, <3>1 DEF Waiting, Seen, WireOK
    <3>2. CASE k # a.kind
      BY <2>1, <2>2, <3>2 DEF Waiting, UnderWay, Seen, WireOK
    <3> QED
      BY <3>1, <3>2
  <2> QED
    BY <1>2, <2>2, <2>3
<1>4. CASE HandleGet \/ HandleSet \/ Fail \/ Lose \/ OthersWrite \/ Tick
  <2>1. /\ UNCHANGED <<pages, lists>> /\ lost \subseteq lost'
        /\ \A k \in Kind : UnderWay(k) => UnderWay(k)' \/ k \in lost'
    BY <1>4, CloudMessages DEF Seen
  <2>2. UNCHANGED <<openPage, loaded>>
    BY <2>1 DEF pages, lists
  <2>3. \A k \in Kind : Waiting(k) => Waiting(k)'
    BY <2>1, <2>2 DEF Waiting
  <2> QED
    BY <1>2, <2>2, <2>3
<1>5. CASE UNCHANGED vars
  <2>1. UNCHANGED <<requests, answers, loaded, lost, openPage>>
    BY <1>5 DEF vars, wire, lists, pages
  <2> QED
    BY <1>2, <2>1 DEF Waiting, UnderWay
<1> QED
  BY <1>3, <1>4, <1>5, TurnPagesWaiting DEF Next, TurnPages

\* No page waits for a list that nobody will send, unless a message was lost.
THEOREM NeverStuckCorrect == Spec => []NeverStuck
<1>1. Init => Seen /\ NeverStuck
  BY TypeInit DEF Init, NeverStuck, Kind
<1>2. Seen /\ NeverStuck /\ [Next]_vars => Seen' /\ NeverStuck'
  BY TypeStep, WaitingStep
<1> QED
  BY <1>1, <1>2, PTL DEF Spec

==============================================================================
