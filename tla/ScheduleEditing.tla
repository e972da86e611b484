--------------------------- MODULE ScheduleEditing ---------------------------
(***************************************************************************)
(* One web client editing the schedule of a device and the saved           *)
(* schedules: the pages of the web UI, the copies of both lists in its     *)
(* store, and the requests that the cloud handles.  A change is made by    *)
(* sending the whole list again.                                           *)
(***************************************************************************)
EXTENDS Integers, Sequences, FiniteSets

CONSTANTS
  PropertyId, Name,
  StartIn, RunTime,   \* what can be chosen for "Start in" and "Run for"
  DefaultRunTime,     \* defaultRunTime
  Minute,             \* 60000
  Lists,              \* the lists that others write, of each kind
  None,               \* undefined, null
  Id,                 \* tells messages apart; as many may be under way
  MaxTime, MaxEntries, MaxVisits, MaxEvents    \* bounds

Kind == {"schedule", "saved"}

Entry ==
  {e \in [propertyIds : (SUBSET PropertyId) \ {{}}, startTime : Nat, endTime : Nat] :
     e.startTime < e.endTime}
SavedSchedule == [name : Name, entries : Seq(Entry)]
ListOf(k) == IF k = "schedule" THEN Seq(Entry) ELSE Seq(SavedSchedule)
AnyList == Seq(Entry) \cup Seq(SavedSchedule)

\* The state of an editor: the entry it shows, what its fields hold, and if an
\* answer was under way when it was opened.
Editor ==
  [shows : Entry \cup {None}, propertyIds : SUBSET PropertyId, startTime : Nat,
   relativeStartTime : {None, 0}, runTime : Nat \ {0}, exposed : BOOLEAN]

ASSUME EditingAssumption ==
  /\ StartIn \subseteq Nat
  /\ RunTime \subseteq Nat \ {0} /\ DefaultRunTime \in Nat \ {0}
  /\ Minute \in Nat
  /\ \A k \in Kind : Lists[k] # {} /\ Lists[k] \subseteq ListOf(k)
  /\ None \notin Entry /\ None \notin Nat /\ None \notin Editor

VARIABLES
  now,
  stored, previous,      \* the lists in the cloud, and before the last write
  requests, answers,     \* of this client, on their way
  shown, loaded,         \* scheduleEntries and savedSchedules, and if up to date
  openPage, scheduleEntryIndex, savedScheduleIndex,
  defaultPropertyIds,    \* scheduleEntryDefaultPropertyIds
  editor,                \* the state of a mounted ScheduleEntryEditor
  own,                   \* observed: this client's last change of each list
  lost,                  \* observed: lists that may still be waited for in vain
  visits, incidents      \* counts of pages opened and of what may go wrong

pages == <<openPage, scheduleEntryIndex, savedScheduleIndex, defaultPropertyIds>>
cloud == <<stored, previous>>
wire == <<requests, answers>>
lists == <<shown, loaded>>
vars == <<now, pages, cloud, wire, lists, editor, own, lost, visits, incidents>>

\* Indices count from 1 here, and -1 of the code is New.
New == 0

------------------------------------------------------------------------------
(* Lists.                                                                    *)

Updated(list, index, item) ==
  [i \in 1 .. Len(list) |-> IF i = index THEN item ELSE list[i]]
Without(list, index) ==
  IF index \notin 1 .. Len(list) THEN list
  ELSE [i \in 1 .. Len(list) - 1 |-> IF i < index THEN list[i] ELSE list[i + 1]]

Latest(times) == CHOOSE t \in times : \A other \in times : other <= t

\* The latest end of the other entries, but that of the first always counts.
LastTimes(entries, index) ==
  IF entries = <<>> THEN {}
  ELSE {Latest({entries[1].endTime} \cup
               {entries[i].endTime : i \in 1 .. Len(entries) \ {index}})}

\* "Snap entry start time to other entry end time if one is close"
Close(entries, index, entry) ==
  {i \in 1 .. Len(entries) \ {index} :
     /\ entries[i].endTime < entry.startTime + Minute
     /\ entries[i].endTime > entry.startTime - Minute}
Snapped(entries, index, entry) ==
  LET close == Close(entries, index, entry)
  IN  IF close = {} THEN entry
      ELSE LET first == CHOOSE i \in close : \A j \in close : i <= j
               end == entries[first].endTime
           IN  [entry EXCEPT !.startTime = end,
                             !.endTime = @ + (end - entry.startTime)]

------------------------------------------------------------------------------
(* Requests of the store.                                                    *)

\* own[k] is the list last sent by this client and how many were; "disturbed" if
\* that is not known to be stored last, "behind" if what is shown was read or
\* written before or while it was.
UnderWay(k) == \E m \in requests \cup answers : m.kind = k
SetWaiting(k) == \E r \in requests : r.kind = k /\ r.type = "set"

\* For messages that are sent now.
Ids == {i \in Id : \A m \in requests \cup answers : m.id # i}

\* Bound: changes sent by this client, losses, failures, and writes of others.
Bounded == own["schedule"].sent + own["saved"].sent + incidents < MaxEvents

Quiet == UNCHANGED <<wire, lists, own, lost>>

\* requestSchedule, requestSavedSchedules
RequestGet(kinds) ==
  /\ loaded' = [k \in Kind |-> loaded[k] /\ k \notin kinds]
  /\ \E id \in [kinds -> Ids] :
       /\ \A j, k \in kinds : j # k => id[j] # id[k]
       /\ requests' = requests \cup
            {[kind |-> k, type |-> "get", sent |-> own[k].sent, id |-> id[k]] :
               k \in kinds}
  /\ lost' = lost \ kinds
  /\ UNCHANGED <<answers, shown, own>>

\* requestSetSchedule, requestSetSavedSchedules: while the list is not loaded
\* nothing is sent, and nobody is told.
RequestSet_KeepsLoaded(k, list) ==
  \/ /\ loaded[k]
     /\ Bounded /\ Len(list) <= MaxEntries
     /\ \E id \in Ids :
          requests' = requests \cup
            {[kind |-> k, type |-> "set", sent |-> own[k].sent + 1, id |-> id,
              list |-> list]}
     /\ own' = [own EXCEPT ![k] =
          [list |-> list, sent |-> @.sent + 1, disturbed |-> FALSE, behind |-> FALSE]]
     /\ lost' = lost \ {k}
     /\ UNCHANGED <<answers, lists>>
  \/ ~loaded[k] /\ Quiet
RequestSet(k, list) ==
  \/ /\ loaded[k]
     /\ Bounded /\ Len(list) <= MaxEntries
     /\ \E id \in Ids :
          requests' = requests \cup
            {[kind |-> k, type |-> "set", sent |-> own[k].sent + 1, id |-> id,
              list |-> list]}
     /\ loaded' = [loaded EXCEPT ![k] = FALSE]
     /\ own' = [own EXCEPT ![k] =
          [list |-> list, sent |-> @.sent + 1, disturbed |-> FALSE, behind |-> FALSE]]
     /\ lost' = lost \ {k}
     /\ UNCHANGED <<answers, shown>>
  \/ ~loaded[k] /\ Quiet

------------------------------------------------------------------------------
(* What the pages render.                                                    *)

SavedEntries ==
  IF savedScheduleIndex \in 1 .. Len(shown["saved"])
  THEN shown["saved"][savedScheduleIndex].entries
  ELSE <<>>
Listed == IF openPage = "schedule" THEN shown["schedule"] ELSE SavedEntries
Chosen ==
  IF scheduleEntryIndex \in 1 .. Len(Listed) THEN Listed[scheduleEntryIndex]
  ELSE None

EditorOpen ==
  /\ openPage # "tabs"
  /\ openPage = "saved" => savedScheduleIndex # None
  /\ scheduleEntryIndex # None
  /\ loaded[openPage]

\* getNow: times of saved schedules are relative.
Clock == IF openPage = "schedule" THEN now ELSE 0

Mounted_Moved ==
  [shows |-> Chosen,
   propertyIds |-> IF Chosen # None THEN Chosen.propertyIds ELSE defaultPropertyIds,
   startTime |-> IF Chosen # None THEN Chosen.startTime ELSE Clock,
   relativeStartTime |-> 0,
   runTime |-> IF Chosen = None THEN DefaultRunTime
               ELSE Chosen.endTime - Chosen.startTime,
   exposed |-> UnderWay(openPage)]
\* The first state of an editor; what it was opened with is not looked at again.
\* The run time is that of the entry if neither its start nor its end is 0, and
\* the default otherwise.
Mounted ==
  LET entry == Chosen
  IN  [shows |-> entry,
       propertyIds |->
         IF entry # None THEN entry.propertyIds
         ELSE IF openPage = "schedule" /\ scheduleEntryIndex = New
         THEN defaultPropertyIds ELSE {},
       startTime |-> IF entry # None THEN entry.startTime ELSE Clock,
       relativeStartTime |-> IF scheduleEntryIndex = New THEN 0 ELSE None,
       runTime |->
         IF entry = None THEN DefaultRunTime
         ELSE IF entry.startTime = 0 THEN DefaultRunTime
         ELSE entry.endTime - entry.startTime,
       exposed |-> UnderWay(openPage)]

\* Every step ends with it. A component that is still there keeps its state.
Render ==
  editor' = IF ~EditorOpen' THEN None
            ELSE IF editor # None THEN editor
            ELSE Mounted'

------------------------------------------------------------------------------
(* Opening and closing pages.                                                *)

OpenScheduleList ==
  /\ openPage = "tabs"
  /\ visits < MaxVisits /\ visits' = visits + 1
  /\ RequestGet({"schedule"})
  /\ openPage' = "schedule"
  /\ \E ids \in {{}} \cup {{id} : id \in PropertyId} :
       /\ defaultPropertyIds' = ids
       /\ scheduleEntryIndex' = IF ids = {} THEN scheduleEntryIndex ELSE New
  /\ UNCHANGED <<now, cloud, savedScheduleIndex, incidents>>
  /\ Render

OpenSavedSchedules_NoSchedule ==
  /\ openPage = "tabs"
  /\ visits < MaxVisits /\ visits' = visits + 1
  /\ RequestGet({"saved"})
  /\ openPage' = "saved"
  /\ savedScheduleIndex' = None
  /\ UNCHANGED <<now, cloud, scheduleEntryIndex, defaultPropertyIds, incidents>>
  /\ Render
OpenSavedSchedules ==
  /\ openPage = "tabs"
  /\ visits < MaxVisits /\ visits' = visits + 1
  /\ RequestGet({"schedule", "saved"})
  /\ openPage' = "saved"
  /\ savedScheduleIndex' = None
  /\ UNCHANGED <<now, cloud, scheduleEntryIndex, defaultPropertyIds, incidents>>
  /\ Render

\* The lists of entries, and that of saved schedules.
EntriesOpen ==
  /\ openPage # "tabs" /\ editor = None
  /\ openPage = "saved" => savedScheduleIndex # None
SavedOpen == openPage = "saved" /\ savedScheduleIndex = None

\* An entry that was chosen stays chosen.
CloseEntries ==
  /\ EntriesOpen
  /\ IF openPage = "saved"
     THEN savedScheduleIndex' = None /\ UNCHANGED openPage
     ELSE openPage' = "tabs" /\ UNCHANGED savedScheduleIndex
  /\ Quiet
  /\ UNCHANGED <<now, cloud, scheduleEntryIndex, defaultPropertyIds,
                 visits, incidents>>
  /\ Render

CloseSaved ==
  /\ SavedOpen
  /\ openPage' = "tabs"
  /\ Quiet
  /\ UNCHANGED <<now, cloud, scheduleEntryIndex, savedScheduleIndex,
                 defaultPropertyIds,
                 visits, incidents>>
  /\ Render

\* An entry that has not ended can be chosen before the list is up to date.
ChooseEntry ==
  /\ EntriesOpen
  /\ \/ \E i \in 1 .. Len(Listed) :
          Listed[i].endTime > Clock /\ scheduleEntryIndex' = i
     \/ loaded[openPage] /\ scheduleEntryIndex' = New
  /\ Quiet
  /\ UNCHANGED <<now, cloud, openPage, savedScheduleIndex, defaultPropertyIds,
                 visits, incidents>>
  /\ Render

ChooseSaved ==
  /\ SavedOpen
  /\ \E i \in 1 .. Len(shown["saved"]) : savedScheduleIndex' = i
  /\ Quiet
  /\ UNCHANGED <<now, cloud, openPage, scheduleEntryIndex, defaultPropertyIds,
                 visits, incidents>>
  /\ Render

------------------------------------------------------------------------------
(* The editor of an entry.                                                   *)

\* What "Update" or "Add" stores, when the fields have these values.
Result(ids, start, run) ==
  Snapped(Listed, scheduleEntryIndex,
          [propertyIds |-> ids, startTime |-> start, endTime |-> start + run])

StartTime ==
  IF editor.relativeStartTime = None THEN editor.startTime
  ELSE Clock + editor.relativeStartTime

Results_Unchecked ==
  {Result(ids, start, run) :
     ids \in SUBSET PropertyId,
     start \in {StartTime} \cup {Clock + d : d \in StartIn},
     run \in {editor.runTime} \cup RunTime}
\* Each field is left as it is or changed; "After last" gives a start, too.
Results ==
  {Result(ids, start, run) :
     ids \in (SUBSET PropertyId) \ {{}},
     start \in {StartTime} \cup {Clock + d : d \in StartIn}
                 \cup LastTimes(Listed, scheduleEntryIndex),
     run \in {editor.runTime} \cup RunTime}

\* requestUpdateSavedSchedule
RequestUpdateSaved(name, entries) ==
  RequestSet("saved",
    IF savedScheduleIndex \in 1 .. Len(shown["saved"])
    THEN Updated(shown["saved"], savedScheduleIndex,
                 [name |-> name, entries |-> entries])
    ELSE shown["saved"])
SavedName ==
  IF savedScheduleIndex \in 1 .. Len(shown["saved"])
  THEN shown["saved"][savedScheduleIndex].name ELSE None

\* What is on the page becomes a list of these entries.
RequestEntries(entries) ==
  /\ Len(entries) <= MaxEntries
  /\ IF openPage = "schedule" THEN RequestSet("schedule", entries)
     ELSE RequestUpdateSaved(SavedName, entries)

EndEditing ==
  /\ scheduleEntryIndex' = None
  /\ UNCHANGED <<now, cloud, openPage, savedScheduleIndex, defaultPropertyIds,
                 visits, incidents>>
  /\ Render

SaveEntry ==
  /\ editor # None
  /\ \E entry \in Results :
       \/ /\ scheduleEntryIndex \in 1 .. Len(Listed)
          /\ RequestEntries(Updated(Listed, scheduleEntryIndex, entry))
       \/ /\ scheduleEntryIndex = New
          /\ RequestEntries(Append(Listed, entry))
       \/ /\ scheduleEntryIndex > Len(Listed)
          /\ IF openPage = "schedule" THEN Quiet ELSE RequestEntries(Listed)
  /\ EndEditing

\* Only what exists can be deleted; without its schedule, onDelete throws.
DeleteEntry ==
  /\ editor # None /\ scheduleEntryIndex # New
  /\ openPage = "saved" => savedScheduleIndex \in 1 .. Len(shown["saved"])
  /\ RequestEntries(Without(Listed, scheduleEntryIndex))
  /\ EndEditing

CancelEditing == editor # None /\ Quiet /\ EndEditing

------------------------------------------------------------------------------
(* Saved schedules.                                                          *)

RenameSaved ==
  /\ EntriesOpen /\ openPage = "saved"
  /\ \E name \in Name : RequestUpdateSaved(name, SavedEntries)
  /\ UNCHANGED <<now, cloud, pages, visits, incidents>>
  /\ Render

DeleteSaved ==
  /\ EntriesOpen /\ openPage = "saved"
  /\ RequestSet("saved", Without(shown["saved"], savedScheduleIndex))
  /\ savedScheduleIndex' = None
  /\ UNCHANGED <<now, cloud, openPage, scheduleEntryIndex, defaultPropertyIds,
                 visits, incidents>>
  /\ Render

NewSaved ==
  /\ SavedOpen /\ loaded["saved"]
  /\ \E name \in Name :
       RequestSet("saved",
         Append(shown["saved"], [name |-> name, entries |-> <<>>]))
  /\ savedScheduleIndex' = Len(shown["saved"]) + 1
  /\ UNCHANGED <<now, cloud, openPage, scheduleEntryIndex, defaultPropertyIds,
                 visits, incidents>>
  /\ Render

\* requestStartSavedSchedule: now, in some time, or after what is scheduled.
Offsets ==
  {now + d : d \in StartIn \cup {0}} \cup
  {Latest({now} \cup {shown["schedule"][i].endTime : i \in 1 .. Len(shown["schedule"])})}
StartSaved ==
  /\ SavedOpen
  /\ \E i \in 1 .. Len(shown["saved"]), offset \in Offsets :
       LET entries == shown["saved"][i].entries
       IN  /\ entries # <<>>
           /\ RequestSet("schedule", shown["schedule"] \o
                [j \in 1 .. Len(entries) |->
                   [entries[j] EXCEPT !.startTime = @ + offset,
                                      !.endTime = @ + offset]])
  /\ openPage' = "schedule"
  /\ UNCHANGED <<now, cloud, scheduleEntryIndex, savedScheduleIndex,
                 defaultPropertyIds,
                 visits, incidents>>
  /\ Render

------------------------------------------------------------------------------
(* The cloud.                                                                *)

Incident == Bounded /\ incidents' = incidents + 1

\* What is stored may not be the last own set now.
Disturb(k, really) == own' = [own EXCEPT ![k].disturbed = @ \/ really]

\* An older own set is stored when the last one is past.
Swapped(r) ==
  /\ r.sent < own[r.kind].sent
  /\ \A q \in requests :
       ~(q.kind = r.kind /\ q.type = "set" /\ q.sent = own[r.kind].sent)

Write(k, list) ==
  /\ stored' = [stored EXCEPT ![k] = list]
  /\ previous' = [previous EXCEPT ![k] = stored[k]]

\* device/getSchedule, device/getSavedSchedules: reads are not consistent.
HandleGet ==
  /\ \E r \in requests : \E list \in {stored[r.kind], previous[r.kind]} :
       /\ r.type = "get"
       /\ requests' = requests \ {r}
       /\ answers' = answers \cup
            {[kind |-> r.kind, sent |-> r.sent, id |-> r.id, list |-> list,
              behind |-> list # stored[r.kind] \/ SetWaiting(r.kind)]}
  /\ UNCHANGED <<now, pages, cloud, lists, editor, own, lost, visits, incidents>>

\* device/setSchedule, device/setSavedSchedules
HandleSet ==
  /\ \E r \in requests :
       /\ r.type = "set"
       /\ Write(r.kind, r.list)
       /\ requests' = requests \ {r}
       /\ answers' = answers \cup
            {[kind |-> r.kind, sent |-> r.sent, id |-> r.id, list |-> r.list,
              behind |-> \E q \in requests \ {r} :
                           q.kind = r.kind /\ q.type = "set"]}
       /\ Disturb(r.kind, Swapped(r))
  /\ UNCHANGED <<now, pages, lists, editor, lost, visits, incidents>>

\* The handler throws, before or after the list was stored, or the connection is
\* lost. An error is logged and changes nothing.
Fail ==
  /\ Incident
  /\ \E r \in requests :
       /\ requests' = requests \ {r}
       /\ lost' = lost \cup {r.kind}
       /\ \/ r.type = "get" /\ UNCHANGED <<cloud, own>>
          \/ /\ r.type = "set" /\ Disturb(r.kind, r.sent = own[r.kind].sent)
             /\ UNCHANGED cloud
          \/ /\ r.type = "set" /\ Disturb(r.kind, Swapped(r))
             /\ Write(r.kind, r.list)
  /\ UNCHANGED <<now, pages, answers, lists, editor, visits>>

Lose ==
  /\ Incident
  /\ \E a \in answers :
       /\ answers' = answers \ {a}
       /\ lost' = lost \cup {a.kind}
  /\ UNCHANGED <<now, pages, cloud, requests, lists, editor, own, visits>>

\* handleJsonMessage
HandleJsonMessage ==
  /\ \E a \in answers :
       /\ answers' = answers \ {a}
       /\ shown' = [shown EXCEPT ![a.kind] = a.list]
       /\ loaded' = [loaded EXCEPT ![a.kind] = TRUE]
       /\ own' = [own EXCEPT ![a.kind].behind =
                    a.behind \/ a.sent # own[a.kind].sent]
       /\ lost' = lost \ {a.kind}
  /\ UNCHANGED <<now, pages, cloud, requests, visits, incidents>>
  /\ Render

\* Other clients, and evaluations, which remove what has ended.
OthersWrite ==
  /\ Incident
  /\ \E k \in Kind : \E list \in Lists[k] :
       Write(k, list) /\ Disturb(k, TRUE)
  /\ UNCHANGED <<now, pages, wire, lists, editor, lost, visits>>

Tick ==
  /\ now < MaxTime
  /\ now' = now + 1
  /\ UNCHANGED <<pages, cloud, wire, lists, editor, own, lost, visits, incidents>>

Init ==
  /\ now = 1
  /\ stored \in {two \in [Kind -> Lists["schedule"] \cup Lists["saved"]] :
                  \A k \in Kind : two[k] \in Lists[k]}
  /\ previous = stored
  /\ requests = {} /\ answers = {}
  /\ shown = [k \in Kind |-> <<>>] /\ loaded = [k \in Kind |-> FALSE]
  /\ openPage = "tabs" /\ scheduleEntryIndex = None /\ savedScheduleIndex = None
  /\ defaultPropertyIds = {}
  /\ editor = None
  /\ own = [k \in Kind |->
       [list |-> stored[k], sent |-> 0, disturbed |-> FALSE, behind |-> FALSE]]
  /\ lost = {} /\ visits = 0 /\ incidents = 0

Next ==
  \/ OpenScheduleList \/ OpenSavedSchedules
  \/ CloseEntries \/ CloseSaved \/ ChooseEntry \/ ChooseSaved
  \/ SaveEntry \/ DeleteEntry \/ CancelEditing
  \/ RenameSaved \/ DeleteSaved \/ NewSaved \/ StartSaved
  \/ HandleGet \/ HandleSet \/ Fail \/ Lose \/ HandleJsonMessage
  \/ OthersWrite \/ Tick

Spec == Init /\ [][Next]_vars

------------------------------------------------------------------------------
(* Properties.                                                               *)

\* Both lists are well formed wherever they are, what is stored runs for some
\* time and runs something, and indices are those of the code's types.
TwoLists == {two \in [Kind -> AnyList] : \A k \in Kind : two[k] \in ListOf(k)}
Answer ==
  {a \in [kind : Kind, sent : Nat, id : Id, list : AnyList, behind : BOOLEAN] :
     a.list \in ListOf(a.kind)}
Get == [kind : Kind, type : {"get"}, sent : Nat, id : Id]
Set ==
  {r \in [kind : Kind, type : {"set"}, sent : Nat, id : Id, list : AnyList] :
     r.list \in ListOf(r.kind)}
TypeOK ==
  /\ now \in Nat /\ visits \in Nat /\ incidents \in Nat
  /\ stored \in TwoLists /\ previous \in TwoLists /\ shown \in TwoLists
  /\ own \in [Kind -> [list : AnyList, sent : Nat, disturbed : BOOLEAN, behind : BOOLEAN]]
  /\ \A k \in Kind : own[k].list \in ListOf(k)
  /\ loaded \in [Kind -> BOOLEAN]
  /\ requests \subseteq Get \cup Set /\ answers \subseteq Answer
  /\ openPage \in Kind \cup {"tabs"}
  /\ scheduleEntryIndex \in Nat \cup {None}
  /\ savedScheduleIndex \in Nat \cup {None}
  /\ defaultPropertyIds \in SUBSET PropertyId
  /\ editor \in Editor \cup {None}
  /\ lost \subseteq Kind

\* A list that can be changed is the one that results from the client's own
\* changes and is what is stored, and no change waits to be stored: so that
\* the next change is made to it and loses nothing. Exceptions: it was read
\* before the last change was stored, or too early ("behind"); others have
\* changed the list, the change has failed, or an older one came after it.
ShowsOwnChanges ==
  \A k \in Kind :
    loaded[k] /\ ~own[k].behind =>
      /\ ~SetWaiting(k)
      /\ ~own[k].disturbed => shown[k] = own[k].list /\ stored[k] = own[k].list

\* "Update" and "Cancel" are for the entry that the editor was opened with: its
\* index still names it, and an update in which nothing was changed gives the
\* entry itself. Exceptions: another answer was under way when it was opened;
\* an entry that starts at once loses its run time; one that starts close to
\* the end of another is moved there.
EditorShowsEntry ==
  editor # None /\ ~editor.exposed =>
    /\ ~UnderWay(openPage)
    /\ scheduleEntryIndex # New => editor.shows = Chosen
    /\ scheduleEntryIndex # New /\ editor.shows # None =>
         \/ editor.shows.startTime = 0
         \/ Close(Listed, scheduleEntryIndex, editor.shows) # {}
         \/ Result(editor.propertyIds, StartTime, editor.runTime) = editor.shows

\* A page that shows a list which is not up to date waits for an answer, unless
\* a request or an answer was lost.
NeverStuck ==
  \A k \in Kind :
    openPage = k \/ (openPage = "saved" /\ k = "schedule") =>
      loaded[k] \/ UnderWay(k) \/ k \in lost

==============================================================================
