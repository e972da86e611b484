---------------------------- MODULE ReportingProofs ----------------------------
(***************************************************************************)
(* Proofs about Reporting for buffers and queues of every capacity, clocks *)
(* that run for any time, and any number of changes, restarts, failures,   *)
(* disconnections and visits.                                              *)
(***************************************************************************)
EXTENDS Reporting, FiniteSetTheorems, SequenceTheorems, WellFoundedInduction,
        TLAPS

------------------------------------------------------------------------------
(* Queues of events *)

\* What can be said of an attribute, and a statement about some of them.
Fact(a) == IF a = "status" THEN Status ELSE BOOLEAN
Statement ==
  {s \in [Attribute -> BOOLEAN \cup Status \cup {None}] :
     \A a \in Attribute : s[a] \in Fact(a) \cup {None}}

Event == {ValueChanged(b) : b \in BOOLEAN} \cup {StatusIs(s) : s \in Status}
Request == {"getProperties", "getConfig", "turnOn", "turnOff"}

LEMMA NoneApart == None \notin BOOLEAN /\ None \notin Status
BY ReportingAssumption, Zenon

LEMMA NothingSaid ==
  Nothing \in Statement /\ \A a \in Attribute : Nothing[a] = None
BY DEF Nothing, Statement

LEMMA ValueEvent ==
  ASSUME NEW b \in BOOLEAN
  PROVE  /\ ValueChanged(b) \in Event /\ ValueChanged(b) \in Statement
         /\ ValueChanged(b)["value"] = b
         /\ ValueChanged(b)["status"] = None
         /\ ValueChanged(b)["connected"] = None
<1>1. ValueChanged(b) \in Event
  BY DEF Event
<1>2. /\ ValueChanged(b)["value"] = b
      /\ ValueChanged(b)["status"] = None
      /\ ValueChanged(b)["connected"] = None
  BY DEF ValueChanged, Nothing, Attribute
<1>3. ValueChanged(b) \in [Attribute -> BOOLEAN \cup Status \cup {None}]
  BY DEF ValueChanged, Nothing, Attribute
<1>4. \A a \in Attribute : ValueChanged(b)[a] \in Fact(a) \cup {None}
  BY <1>2 DEF Attribute, Fact
<1> QED
  BY <1>1, <1>2, <1>3, <1>4 DEF Statement

LEMMA StatusEvent ==
  ASSUME NEW s \in Status
  PROVE  /\ StatusIs(s) \in Event /\ StatusIs(s) \in Statement
         /\ StatusIs(s)["status"] = s
         /\ StatusIs(s)["value"] = None
         /\ StatusIs(s)["connected"] = None
<1>1. StatusIs(s) \in Event
  BY DEF Event
<1>2. /\ StatusIs(s)["status"] = s
      /\ StatusIs(s)["value"] = None
      /\ StatusIs(s)["connected"] = None
  BY DEF StatusIs, Nothing, Attribute
<1>3. StatusIs(s) \in [Attribute -> BOOLEAN \cup Status \cup {None}]
  BY DEF StatusIs, Nothing, Attribute
<1>4. \A a \in Attribute : StatusIs(s)[a] \in Fact(a) \cup {None}
  BY <1>2 DEF Attribute, Fact
<1> QED
  BY <1>1, <1>2, <1>3, <1>4 DEF Statement

\* An event tells of the value or of the status.
LEMMA EventSays ==
  ASSUME NEW e \in Event
  PROVE  /\ e \in Statement /\ e["connected"] = None
         /\ e["value"] # None <=> e["status"] = None
<1>1. ASSUME NEW b \in BOOLEAN, e = ValueChanged(b)
      PROVE  /\ e \in Statement /\ e["connected"] = None
             /\ e["value"] # None <=> e["status"] = None
  BY <1>1, ValueEvent, NoneApart
<1>2. ASSUME NEW s \in Status, e = StatusIs(s)
      PROVE  /\ e \in Statement /\ e["connected"] = None
             /\ e["value"] # None <=> e["status"] = None
  BY <1>2, StatusEvent, NoneApart
<1> QED
  BY <1>1, <1>2 DEF Event

LEMMA TellingFinite ==
  ASSUME NEW queue \in Seq(Event), NEW a \in Attribute
  PROVE  /\ Telling(queue, a) \subseteq 1 .. Len(queue)
         /\ IsFiniteSet(Telling(queue, a))
         /\ Cardinality(Telling(queue, a)) \in Nat
<1>1. Telling(queue, a) \subseteq 1 .. Len(queue)
  BY DEF Telling
<1>2. IsFiniteSet(1 .. Len(queue))
  BY FS_Interval
<1>3. IsFiniteSet(Telling(queue, a))
  BY <1>1, <1>2, FS_Subset
<1> QED
  BY <1>1, <1>3, FS_CardinalityType

LEMMA SizeNat == \A queue \in Seq(Event) : Size(queue) \in Nat
<1>1. "value" \in Attribute
  BY DEF Attribute
<1> QED
  BY <1>1, TellingFinite DEF Size

LEMMA SizeEmpty == Size(<<>>) = 0
<1>1. Telling(<<>>, "value") = {}
  BY DEF Telling
<1> QED
  BY <1>1, FS_EmptySet DEF Size

\* An event that does not tell of the value takes one place, one that does two.
LEMMA SizeSingle ==
  ASSUME NEW e \in Event
  PROVE  Size(<<e>>) <= 2
<1>1. Telling(<<e>>, "value") \in SUBSET {1}
  BY DEF Telling
<1>2. Cardinality(Telling(<<e>>, "value")) <= 1
  <2>1. IsFiniteSet({1}) /\ Cardinality({1}) = 1
    BY FS_Singleton
  <2> QED
    BY <1>1, <2>1, FS_Subset
<1>3. Cardinality(Telling(<<e>>, "value")) \in Nat
  <2>1. <<e>> \in Seq(Event)
    OBVIOUS
  <2> QED
    BY <2>1, TellingFinite DEF Attribute
<1> QED
  BY <1>2, <1>3 DEF Size

\* What is left of a queue takes no more room than the queue.
LEMMA SizeRest ==
  ASSUME NEW queue \in Seq(Event), NEW k \in 0 .. Len(queue)
  PROVE  LET rest == SubSeq(queue, k + 1, Len(queue))
         IN  rest \in Seq(Event) /\ Size(rest) <= Size(queue)
<1> DEFINE rest == SubSeq(queue, k + 1, Len(queue))
<1>1. /\ rest \in Seq(Event) /\ Len(rest) = Len(queue) - k
      /\ \A j \in 1 .. Len(rest) : rest[j] = queue[j + k]
  <2>1. \A j \in k + 1 .. Len(queue) : queue[j] \in Event
    OBVIOUS
  <2>2. k + 1 \in Int /\ Len(queue) \in Int
    OBVIOUS
  <2>3. /\ rest \in Seq(Event)
        /\ Len(rest) = IF k + 1 <= Len(queue) THEN Len(queue) - (k + 1) + 1 ELSE 0
        /\ \A j \in 1 .. Len(queue) - (k + 1) + 1 : rest[j] = queue[(k + 1) + j - 1]
    BY <2>1, <2>2, SubSeqProperties
  <2>4. Len(rest) = Len(queue) - k
    BY <2>3
  <2> QED
    BY <2>3, <2>4
<1> HIDE DEF rest
<1> DEFINE S == Telling(rest, "value")
           T == Telling(queue, "value")
           f == [j \in S |-> j + k]
<1>2. "value" \in Attribute
  BY DEF Attribute
<1>3. S \subseteq 1 .. Len(rest) /\ IsFiniteSet(T) /\ Cardinality(S) \in Nat
        /\ Cardinality(T) \in Nat
  BY <1>1, <1>2, TellingFinite
<1>4. f \in [S -> T]
  <2>1. ASSUME NEW j \in S PROVE j + k \in T
    <3>1. j \in 1 .. Len(rest) /\ rest[j]["value"] # None
      BY <1>3 DEF Telling
    <3> QED
      BY <1>1, <3>1 DEF Telling
  <2> HIDE DEF S, T
  <2> QED
    BY <2>1
<1>5. \A x, y \in S : f[x] = f[y] => x = y
  <2>1. ASSUME NEW x \in S, NEW y \in S, f[x] = f[y] PROVE x = y
    <3>1. x \in Nat /\ y \in Nat /\ k \in Nat
      BY <1>3
    <3>2. x + k = y + k
      BY <2>1
    <3> QED
      BY <3>1, <3>2
  <2> QED
    BY <2>1
<1>6. f \in Injection(S, T)
  <2> HIDE DEF S, T, f
  <2> QED
    BY <1>4, <1>5 DEF Injection, IsInjective
<1>7. Cardinality(S) <= Cardinality(T)
  <2> HIDE DEF S, T, f
  <2> QED
    BY <1>3, <1>6, FS_Injection
<1> QED
  BY <1>1, <1>3, <1>7 DEF Size, rest

\* Every nonempty set of naturals with a bound has a greatest element.
LEMMA Greatest ==
  ASSUME NEW T \in SUBSET Nat, T # {}, NEW n \in Nat, \A x \in T : x <= n
  PROVE  \E x \in T : \A y \in T : y <= x
<1> DEFINE R == OpToRel(<, Nat)
           S == {n - x : x \in T}
<1>1. IsWellFoundedOn(R, Nat)
  BY NatLessThanWellFounded
<1>2. \A x, y \in Nat : y < x => <<y, x>> \in R
  BY DEF OpToRel
<1>3. S \subseteq Nat /\ S # {}
  <2>1. \A x \in T : x \in Nat /\ x <= n
    OBVIOUS
  <2>2. \A x \in T : n - x \in Nat
    BY <2>1
  <2> QED
    BY <2>2
<1> HIDE DEF R
<1>4. \E x \in S : \A y \in S : ~(<<y, x>> \in R)
  <2> HIDE DEF S
  <2> QED
    BY <1>1, <1>3, WFMin
<1>5. PICK d \in S : \A y \in S : ~(<<y, d>> \in R)
  BY <1>4
<1>6. PICK x \in T : d = n - x
  OBVIOUS
<1>7. ASSUME NEW y \in T PROVE y <= x
  <2>1. n - y \in S /\ n - y \in Nat /\ d \in Nat
    BY <1>3
  <2>2. ~(n - y < d)
    BY <1>2, <1>5, <2>1
  <2>3. x \in Nat /\ y \in Nat
    OBVIOUS
  <2> QED
    BY <1>6, <2>2, <2>3
<1> QED
  BY <1>7

\* The last event of a queue that tells of an attribute says v.
TellsLast(queue, a, v) ==
  \E k \in Telling(queue, a) :
    queue[k][a] = v /\ \A j \in Telling(queue, a) : j <= k

LEMMA TellsLastExists ==
  ASSUME NEW queue \in Seq(Event), NEW a \in Attribute, Telling(queue, a) # {}
  PROVE  \E v : TellsLast(queue, a, v)
<1>1. /\ Telling(queue, a) \in SUBSET Nat /\ Len(queue) \in Nat
      /\ \A k \in Telling(queue, a) : k <= Len(queue)
  BY TellingFinite
<1>2. PICK k \in Telling(queue, a) : \A j \in Telling(queue, a) : j <= k
  BY <1>1, Greatest
<1> QED
  BY <1>2 DEF TellsLast

\* A batch says what its last event says.
LEMMA SaidLast ==
  ASSUME NEW queue \in Seq(Event), NEW a \in Attribute, NEW v, TellsLast(queue, a, v)
  PROVE  Said(queue)[a] = v
<1>1. PICK k \in Telling(queue, a) :
        queue[k][a] = v /\ \A j \in Telling(queue, a) : j <= k
  BY DEF TellsLast
<1>2. Telling(queue, a) \subseteq Nat
  BY TellingFinite
<1> DEFINE T == Telling(queue, a)
<1>3. Max(T) \in T /\ \A y \in T : Max(T) >= y
  <2> HIDE DEF T
  <2>1. \E x \in T : \A y \in T : x >= y
    BY <1>1, <1>2 DEF T
  <2> QED
    BY <2>1 DEF Max
<1>4. Max(T) = k
  BY <1>1, <1>2, <1>3
<1> QED
  BY <1>1, <1>4 DEF Said

LEMMA SaidNone ==
  ASSUME NEW queue, NEW a \in Attribute, Telling(queue, a) = {}
  PROVE  Said(queue)[a] = None
BY DEF Said

LEMMA SaidType ==
  ASSUME NEW queue \in Seq(Event)
  PROVE  Said(queue) \in Statement /\ Said(queue)["connected"] = None
<1>1. ASSUME NEW a \in Attribute
      PROVE  /\ Said(queue)[a] \in Fact(a) \cup {None}
             /\ Said(queue)[a] \in BOOLEAN \cup Status \cup {None}
             /\ a = "connected" => Said(queue)[a] = None
  <2>1. CASE Telling(queue, a) = {}
    BY <2>1, SaidNone
  <2>2. CASE Telling(queue, a) # {}
    <3>1. PICK v : TellsLast(queue, a, v)
      BY <2>2, TellsLastExists
    <3>2. PICK k \in Telling(queue, a) : queue[k][a] = v
      BY <3>1 DEF TellsLast
    <3>3. queue[k] \in Event /\ v # None
      BY <3>2, TellingFinite DEF Telling
    <3>4. Said(queue)[a] = v
      BY <3>1, SaidLast
    <3> QED
      BY <3>2, <3>3, <3>4, EventSays DEF Statement
  <2> QED
    BY <2>1, <2>2
<1>2. Said(queue) \in [Attribute -> BOOLEAN \cup Status \cup {None}]
  <2>1. \A a \in Attribute : Said(queue)[a] \in BOOLEAN \cup Status \cup {None}
    BY <1>1
  <2> DEFINE g(a) == IF Telling(queue, a) = {} THEN None
                     ELSE queue[Max(Telling(queue, a))][a]
  <2>2. Said(queue) = [a \in Attribute |-> g(a)]
    BY DEF Said
  <2>3. \A a \in Attribute : g(a) \in BOOLEAN \cup Status \cup {None}
    BY <2>1, <2>2
  <2> HIDE DEF g
  <2> QED
    BY <2>2, <2>3
<1> QED
  BY <1>1, <1>2 DEF Statement, Attribute
------------------------------------------------------------------------------
(* Type correctness *)

\* Reports: an event never tells of the connection, a refresh always of the
\* value and nothing else, and so on.
ReportSet ==
  {m \in [n : Nat, time : Nat, type : {"event", "properties", "config", "presence"},
          sets : Statement, ready : BOOLEAN] :
     /\ m.type = "event" => m.sets["connected"] = None
     /\ m.type = "properties" => /\ m.sets["value"] # None
                                 /\ m.sets["status"] = None
                                 /\ m.sets["connected"] = None
     /\ m.type = "config" => \A a \in Attribute : m.sets[a] = None
     /\ m.type = "presence" => m.sets["value"] = None /\ m.sets["status"] = None}

Work == [report : ReportSet, writes : SUBSET Row, asks : BOOLEAN, pushes : BOOLEAN]

\* Reports that are not handled to the end.
Reports == reports \cup {i.report : i \in running}

DeviceType ==
  /\ on \in BOOLEAN /\ online \in BOOLEAN /\ status \in Status
  /\ events \in Seq(Event) /\ Size(events) <= EventCapacity
  /\ batch \in Seq(Event) /\ Size(batch) <= BatchCapacity
  /\ inbound \in Seq(Request) /\ Len(inbound) <= QueueCapacity
  /\ handled \in 0 .. Len(inbound)
  /\ requests \in Seq(Request)

\* The numbers of reports tell them apart, and each one is handled once.
Numbered ==
  /\ \A m \in Reports : m.n \in 1 .. sent /\ m.time \in 0 .. now
  /\ \A m, p \in Reports : m.n = p.n => m = p
  /\ \A i, j \in running : i.report = j.report => i = j
  /\ \A i \in running : i.report \notin reports

CloudType ==
  /\ sent \in Nat /\ now \in 0 .. MaxTime
  /\ reports \subseteq ReportSet /\ running \subseteq Work
  /\ \A i \in running : "property" \in i.writes => i.report.sets["value"] # None
  /\ Numbered
  /\ store \in Statement /\ \A a \in Attribute : store[a] # None
  /\ updated \in [Row -> 0 .. now]
  /\ replica \in [sets : Statement, from : [Attribute -> Nat]]
  /\ \A a \in Attribute : replica.sets[a] # None
  /\ by \in [Attribute -> Nat] /\ newest \in [Attribute -> Nat]
  /\ \A a \in Attribute : newest[a] <= sent
  /\ overtaken \subseteq Attribute

ClientType ==
  /\ subscribed \in BOOLEAN /\ asking \in BOOLEAN
  /\ pushes \subseteq [sets : Statement, from : [Attribute -> Nat]]
  /\ view \in Statement /\ seen \in [Attribute -> Nat] /\ back \subseteq Attribute
  /\ lost \subseteq Attribute \cup {"view"}

TypeInv == DeviceType /\ CloudType /\ ClientType

LEMMA TypeInvTypeOK == ASSUME TypeInv PROVE TypeOK
<1> USE DEF TypeInv
<1>1. \A m \in reports : m.n \in 1 .. sent /\ m.time \in 0 .. now
  BY DEF CloudType, Numbered, Reports
<1>2. \A i \in running : i.writes \subseteq Row
  BY DEF CloudType, Work
<1>3. /\ store["value"] \in BOOLEAN /\ store["status"] \in Status
      /\ store["connected"] \in BOOLEAN
  BY DEF CloudType, Statement, Fact, Attribute
<1>4. replica.sets["value"] \in BOOLEAN
  BY DEF CloudType, Statement, Fact, Attribute
<1> QED
  BY <1>1, <1>2, <1>3, <1>4 DEF DeviceType, CloudType, ClientType, TypeOK

LEMMA RaiseType ==
  ASSUME DeviceType, ClientType, NEW e \in Event, Raise(e)
  PROVE  /\ events' \in Seq(Event) /\ Size(events') <= EventCapacity
         /\ lost' \subseteq Attribute \cup {"view"}
<1>1. events' \in Seq(Event) /\ Size(events') <= EventCapacity
  BY DEF Raise, Buffered, Fits, DeviceType
<1>2. lost' \subseteq Attribute \cup {"view"}
  BY DEF Raise, About, ClientType, Attribute
<1> QED
  BY <1>1, <1>2

LEMMA ReportType ==
  ASSUME CloudType, NEW type \in {"event", "properties", "config", "presence"},
         NEW sets \in Statement, NEW ready \in BOOLEAN,
         type = "event" => sets["connected"] = None,
         type = "properties" => /\ sets["value"] # None /\ sets["status"] = None
                                /\ sets["connected"] = None,
         type = "config" => \A a \in Attribute : sets[a] = None,
         type = "presence" => sets["value"] = None /\ sets["status"] = None
  PROVE  /\ Report(type, sets, ready) \in ReportSet
         /\ Report(type, sets, ready).n = sent + 1
         /\ Report(type, sets, ready).time = now
         /\ Report(type, sets, ready).sets = sets
         /\ Report(type, sets, ready).ready = ready
<1>1. sent + 1 \in Nat /\ now \in Nat
  BY DEF CloudType
<1>2. Report(type, sets, ready) \in
        [n : Nat, time : Nat, type : {"event", "properties", "config", "presence"},
         sets : Statement, ready : BOOLEAN]
  BY <1>1 DEF Report
<1> QED
  BY <1>1, <1>2 DEF Report, ReportSet

\* What a published report does to the cloud.
Published(r) ==
  /\ r \in ReportSet /\ r.n = sent + 1 /\ r.time = now
  /\ sent' = sent + 1 /\ reports' = reports \cup {r}

LEMMA PublishedType ==
  ASSUME CloudType, NEW r, Published(r), UNCHANGED <<now, cloudVars>>
  PROVE  CloudType'
<1> USE DEF CloudType
<1>1. /\ sent' = sent + 1 /\ reports' = reports \cup {r} /\ now' = now
      /\ UNCHANGED running /\ UNCHANGED store /\ UNCHANGED updated
      /\ UNCHANGED by /\ UNCHANGED newest /\ UNCHANGED overtaken
      /\ UNCHANGED replica
      /\ r \in ReportSet /\ r.n = sent + 1 /\ r.time = now
  BY DEF Published, cloudVars
<1>2. Reports' = Reports \cup {r}
  BY <1>1 DEF Reports
<1>3. \A m \in Reports : m.n \in 1 .. sent /\ m.n # r.n /\ m # r
  <2>1. \A m \in Reports : m.n \in 1 .. sent
    BY DEF Numbered
  <2>2. \A k \in 1 .. sent : k # sent + 1
    OBVIOUS
  <2> QED
    BY <1>1, <2>1, <2>2
<1>4. Numbered'
  <2>1. ASSUME NEW m \in Reports' PROVE m.n \in 1 .. sent' /\ m.time \in 0 .. now'
    BY <1>1, <1>2, <2>1 DEF Numbered
  <2>2. ASSUME NEW m \in Reports', NEW p \in Reports', m.n = p.n PROVE m = p
    BY <1>1, <1>2, <1>3, <2>2 DEF Numbered
  <2>3. \A i, j \in running' : i.report = j.report => i = j
    BY <1>1 DEF Numbered
  <2>4. ASSUME NEW i \in running' PROVE i.report \notin reports'
    <3>1. i \in running /\ i.report \in Reports
      BY <1>1, <2>4 DEF Reports
    <3> QED
      BY <1>1, <1>3, <3>1 DEF Numbered
  <2> QED
    BY <2>1, <2>2, <2>3, <2>4 DEF Numbered
<1>5. \A a \in Attribute : newest'[a] <= sent'
  BY <1>1
<1> QED
  BY <1>1, <1>4, <1>5

LEMMA CloudSame ==
  ASSUME CloudType, UNCHANGED <<now, sent, reports, cloudVars>>
  PROVE  CloudType'
BY DEF CloudType, Numbered, Reports, cloudVars

\* An invocation goes on.
Goes(i, j) ==
  /\ j \in Work /\ j.report = i.report /\ j.writes \subseteq i.writes
  /\ running' = (running \ {i}) \cup Unfinished(j)
  /\ UNCHANGED <<now, sent, reports>>

LEMMA GoesType ==
  ASSUME CloudType, NEW i \in running, NEW j, Goes(i, j)
  PROVE  /\ Reports' \subseteq Reports /\ running' \subseteq Work /\ Numbered'
         /\ \A k \in running' : "property" \in k.writes => k.report.sets["value"] # None
<1> USE DEF CloudType, Goes
<1>1. \A k \in running' : k \in running \ {i} \/ k = j
  BY DEF Unfinished
<1>2. Reports' \subseteq Reports
  BY <1>1 DEF Reports
<1>3. running' \subseteq Work
  BY <1>1
<1>4. Numbered'
  <2>1. \A m \in Reports' : m.n \in 1 .. sent' /\ m.time \in 0 .. now'
    BY <1>2 DEF Numbered
  <2>2. \A m, p \in Reports' : m.n = p.n => m = p
    BY <1>2 DEF Numbered
  <2>3. ASSUME NEW k \in running', NEW l \in running', k.report = l.report
        PROVE  k = l
    BY <1>1, <2>3 DEF Numbered
  <2>4. \A k \in running' : k.report \notin reports'
    BY <1>1 DEF Numbered
  <2> QED
    BY <2>1, <2>2, <2>3, <2>4 DEF Numbered
<1>5. ASSUME NEW k \in running', "property" \in k.writes
      PROVE  k.report.sets["value"] # None
  BY <1>1, <1>5
<1> QED
  BY <1>2, <1>3, <1>4, <1>5

\* What a query finds of an attribute, in the store or in a replica of it.
LEMMA VersionAt ==
  ASSUME CloudType, NEW behind, NEW a \in Attribute
  PROVE  \/ /\ Version(behind).sets[a] = store[a]
            /\ Version(behind).from[a] = by[a]
         \/ /\ Version(behind).sets[a] = replica.sets[a]
            /\ Version(behind).from[a] = replica.from[a]
BY DEF Version

LEMMA VersionType ==
  ASSUME CloudType, NEW behind
  PROVE  /\ Version(behind) \in [sets : Statement, from : [Attribute -> Nat]]
         /\ \A a \in Attribute : Version(behind).sets[a] # None
<1> DEFINE v == Version(behind)
<1>1. ASSUME NEW a \in Attribute
      PROVE  /\ v.sets[a] \in BOOLEAN \cup Status \cup {None}
             /\ v.sets[a] \in Fact(a) \cup {None} /\ v.sets[a] # None
             /\ v.from[a] \in Nat
  BY VersionAt DEF CloudType, Statement
<1>2. v = [sets |-> [a \in Attribute |-> v.sets[a]],
           from |-> [a \in Attribute |-> v.from[a]]]
  BY DEF Version
<1> HIDE DEF v
<1>3. [a \in Attribute |-> v.sets[a]] \in Statement
  BY <1>1 DEF Statement
<1>4. [a \in Attribute |-> v.from[a]] \in [Attribute -> Nat]
  BY <1>1
<1>5. v \in [sets : Statement, from : [Attribute -> Nat]]
  BY <1>2, <1>3, <1>4
<1> QED
  BY <1>1, <1>5 DEF v

\* An invocation as it starts, with the value it has read.
Begun(m, value) ==
  [report |-> m, writes |-> Writes(m, value), asks |-> m.ready,
   pushes |-> Writes(m, value) # {}]

\* What the value read shows to be in the store already.
Confirmed(m, value) == IF value = store["value"] THEN Unwritten(m, value) ELSE {}

Starts(m, value) ==
  /\ reports' = reports \ {m}
  /\ running' = running \cup Unfinished(Begun(m, value))
  /\ newest' = [a \in Attribute |-> IF a \in Unwritten(m, value) THEN m.n ELSE newest[a]]
  /\ by' = [a \in Attribute |-> IF a \in Confirmed(m, value) THEN m.n ELSE by[a]]
  /\ overtaken' = (overtaken \ Confirmed(m, value))
                    \cup (Unwritten(m, value) \ Confirmed(m, value))
  /\ lost' = IF Confirmed(m, value) \cap overtaken # {} THEN lost \cup {"view"} ELSE lost
  /\ UNCHANGED <<now, sent, store, updated, replica>>

LEMMA StartStep ==
  ASSUME NEW m, Start(m)
  PROVE  \E value : Starts(m, value)
<1>1. PICK behind \in SUBSET {row \in {"property"} : m.type = "properties"} :
        LET value == Version(behind).sets["value"]
            writes == Writes(m, value)
            unwritten == Unwritten(m, value)
            confirmed == IF value = store["value"] THEN unwritten ELSE {}
        IN  /\ running' = running \cup
                 Unfinished([report |-> m, writes |-> writes, asks |-> m.ready,
                             pushes |-> writes # {}])
            /\ newest' = [a \in Attribute |-> IF a \in unwritten THEN m.n ELSE newest[a]]
            /\ by' = [a \in Attribute |-> IF a \in confirmed THEN m.n ELSE by[a]]
            /\ overtaken' = (overtaken \ confirmed) \cup (unwritten \ confirmed)
            /\ lost' = IF confirmed \cap overtaken # {} THEN lost \cup {"view"} ELSE lost
  BY DEF Start
<1>2. reports' = reports \ {m} /\ UNCHANGED <<now, sent, store, updated, replica>>
  BY DEF Start
<1> DEFINE value == Version(behind).sets["value"]
<1>3. Starts(m, value)
  BY <1>1, <1>2 DEF Starts, Begun, Confirmed
<1> QED
  BY <1>3

LEMMA BegunType ==
  ASSUME CloudType, NEW m \in reports, NEW value
  PROVE  /\ Begun(m, value) \in Work /\ m \in ReportSet /\ m \in Reports
         /\ "property" \in Writes(m, value) => m.sets["value"] # None
         /\ \A a \in Unwritten(m, value) :
              /\ a = "value" /\ m.n > newest[a] /\ m.sets["value"] = value
              /\ Writes(m, value) = {} /\ m.type = "properties"
         /\ Confirmed(m, value) \subseteq Unwritten(m, value)
         /\ \A a \in Confirmed(m, value) : m.sets["value"] = store["value"]
<1>1. m \in ReportSet /\ m \in Reports
  BY DEF CloudType, Reports
<1>2. /\ Writes(m, value) \subseteq Row /\ (Writes(m, value) # {}) \in BOOLEAN
      /\ m.ready \in BOOLEAN
  BY <1>1 DEF Writes, ReportSet
<1>3. "property" \in Writes(m, value) => m.sets["value"] # None
  BY <1>1 DEF Writes, ReportSet
<1>4. Begun(m, value) \in Work
  BY <1>1, <1>2 DEF Begun, Work
<1>5. ASSUME NEW a \in Unwritten(m, value)
      PROVE  /\ a = "value" /\ m.n > newest[a] /\ m.sets["value"] = value
             /\ Writes(m, value) = {} /\ m.type = "properties"
  <2>1. a = "value" /\ m.type = "properties" /\ Writes(m, value) = {} /\ m.n > newest[a]
    BY DEF Unwritten
  <2>2. "property" \notin Writes(m, value) /\ "property" \in Row
    BY <2>1 DEF Row
  <2> QED
    BY <2>1, <2>2 DEF Writes
<1>6. /\ Confirmed(m, value) \subseteq Unwritten(m, value)
      /\ \A a \in Confirmed(m, value) : m.sets["value"] = store["value"]
  BY <1>5 DEF Confirmed
<1> QED
  BY <1>1, <1>3, <1>4, <1>5, <1>6

LEMMA StartType ==
  ASSUME CloudType, NEW m \in reports, NEW value, Starts(m, value)
  PROVE  CloudType' /\ Reports' \subseteq Reports
<1> USE DEF CloudType
<1> DEFINE k == Begun(m, value)
<1>1. /\ reports' = reports \ {m} /\ running' = running \cup Unfinished(k)
      /\ newest' = [a \in Attribute |-> IF a \in Unwritten(m, value) THEN m.n ELSE newest[a]]
      /\ by' = [a \in Attribute |-> IF a \in Confirmed(m, value) THEN m.n ELSE by[a]]
      /\ overtaken' \subseteq overtaken \cup Unwritten(m, value)
      /\ UNCHANGED now /\ UNCHANGED sent /\ UNCHANGED store /\ UNCHANGED updated
      /\ UNCHANGED replica
  BY DEF Starts
<1>2. k \in Work /\ k.report = m /\ k.writes = Writes(m, value)
  BY BegunType DEF Begun
<1> HIDE DEF k
<1>3. \A l \in running' : l \in running \/ l = k
  BY <1>1 DEF Unfinished
<1>4. m \in Reports /\ m.n \in 1 .. sent
  BY DEF Reports, Numbered
<1>5. Reports' \subseteq Reports
  BY <1>1, <1>2, <1>3 DEF Reports
<1>6. Numbered'
  <2>1. \A p \in Reports' : p.n \in 1 .. sent' /\ p.time \in 0 .. now'
    BY <1>1, <1>5 DEF Numbered
  <2>2. \A q, p \in Reports' : q.n = p.n => q = p
    BY <1>5 DEF Numbered
  <2>3. ASSUME NEW j \in running', NEW l \in running', j.report = l.report
        PROVE  j = l
    BY <1>2, <1>3, <2>3 DEF Numbered
  <2>4. \A l \in running' : l.report \notin reports'
    BY <1>1, <1>2, <1>3 DEF Numbered
  <2> QED
    BY <2>1, <2>2, <2>3, <2>4 DEF Numbered
<1>7. /\ newest' \in [Attribute -> Nat] /\ by' \in [Attribute -> Nat]
      /\ \A a \in Attribute : newest'[a] <= sent'
  <2>1. m.n \in Nat /\ m.n <= sent
    BY <1>4
  <2> QED
    BY <1>1, <2>1
<1>8. \A l \in running' : "property" \in l.writes => l.report.sets["value"] # None
  BY <1>2, <1>3, BegunType
<1>9. overtaken' \subseteq Attribute
  BY <1>1, BegunType DEF Attribute
<1> QED
  BY <1>1, <1>2, <1>3, <1>5, <1>6, <1>7, <1>8, <1>9

\* What an invocation has left to do gets less.
LEMMA WriteGoes ==
  ASSUME CloudType, NEW i \in running, NEW row \in Row, Write(i, row)
  PROVE  /\ i.report \in ReportSet /\ i.report \in Reports
         /\ row = "property" => i.report.sets["value"] # None
         /\ \/ /\ UpdateRow(i.report, row)
               /\ Goes(i, [i EXCEPT !.writes = @ \ {row}])
               /\ lost' = lost
            \/ /\ UpdateRow(i.report, row)
               /\ lost' = lost \cup {"view"}
               /\ Goes(i, [i EXCEPT !.writes = @ \ {row}, !.pushes = FALSE])
            \/ /\ UNCHANGED <<store, by, updated, newest, overtaken>>
               /\ UNCHANGED replica
               /\ lost' = lost \cup Columns(row) \cup {"view"}
               /\ Goes(i, [i EXCEPT !.writes = @ \ {row}, !.pushes = FALSE])
<1>1. i \in Work /\ row \in i.writes
  BY DEF CloudType, Write
<1>2. i.report \in ReportSet /\ i.report \in Reports
         /\ (row = "property" => i.report.sets["value"] # None)
  BY <1>1 DEF Work, Reports, CloudType
<1>3. UNCHANGED <<now, sent, reports>>
  BY DEF Write, brokerVars
<1>4. /\ [i EXCEPT !.writes = @ \ {row}] \in Work
      /\ [i EXCEPT !.writes = @ \ {row}].report = i.report
      /\ [i EXCEPT !.writes = @ \ {row}].writes \subseteq i.writes
  BY <1>1 DEF Work
<1>5. /\ [i EXCEPT !.writes = @ \ {row}, !.pushes = FALSE] \in Work
      /\ [i EXCEPT !.writes = @ \ {row}, !.pushes = FALSE].report = i.report
      /\ [i EXCEPT !.writes = @ \ {row}, !.pushes = FALSE].writes \subseteq i.writes
  BY <1>1 DEF Work
<1>6. CASE /\ UpdateRow(i.report, row)
           /\ lost' = lost
           /\ Continues(i, [i EXCEPT !.writes = @ \ {row}])
  BY <1>2, <1>3, <1>4, <1>6 DEF Goes, Continues
<1>7. CASE /\ FailsAs(Columns(row) \cup {"view"})
           /\ Continues(i, [i EXCEPT !.writes = @ \ {row}, !.pushes = FALSE])
           /\ UNCHANGED <<store, by, updated, replica, newest, overtaken>>
  BY <1>2, <1>3, <1>5, <1>7 DEF Goes, Continues, FailsAs
<1>8. CASE /\ FailsAs({"view"}) /\ UpdateRow(i.report, row)
           /\ Continues(i, [i EXCEPT !.writes = @ \ {row}, !.pushes = FALSE])
  BY <1>2, <1>3, <1>5, <1>8 DEF Goes, Continues, FailsAs
<1> QED
  BY <1>6, <1>7, <1>8 DEF Write, Succeeds

\* A replica has the version of each row that it had or the store has.
LEMMA UpdateRowReplica ==
  ASSUME CloudType, NEW m, NEW row, UpdateRow(m, row)
  PROVE  replica' = replica \/ replica' = Version(Row \ {row})
BY DEF UpdateRow, Replicate

LEMMA WriteType ==
  ASSUME CloudType, NEW i \in running, NEW row \in Row, Write(i, row)
  PROVE  CloudType' /\ Reports' \subseteq Reports
<1> USE DEF CloudType
<1> DEFINE m == i.report
<1>1. m \in ReportSet /\ m \in Reports /\ m.n \in 1 .. sent /\ m.time \in 0 .. now
  BY WriteGoes DEF Numbered
<1>2. /\ Reports' \subseteq Reports /\ running' \subseteq Work /\ Numbered'
      /\ \A k \in running' : "property" \in k.writes => k.report.sets["value"] # None
      /\ UNCHANGED <<now, sent, reports>>
  <2>1. PICK j : Goes(i, j)
    BY WriteGoes
  <2> QED
    BY <2>1, GoesType DEF Goes
<1>3. /\ store' \in Statement /\ \A a \in Attribute : store'[a] # None
      /\ updated' \in [Row -> 0 .. now']
      /\ by' \in [Attribute -> Nat] /\ newest' \in [Attribute -> Nat]
      /\ \A a \in Attribute : newest'[a] <= sent'
      /\ overtaken' \subseteq Attribute
  <2>1. CASE UNCHANGED <<store, by, updated, newest, overtaken>>
    BY <1>2, <2>1
  <2>2. CASE UpdateRow(m, row)
    <3> DEFINE set == {a \in Columns(row) : m.sets[a] # None}
               newer == {a \in set : m.n >= newest[a]}
    <3>1. set \subseteq Attribute
      BY DEF Columns, Attribute
    <3>2. newest' = [a \in Attribute |-> IF a \in newer THEN m.n ELSE newest[a]]
      BY <2>2 DEF UpdateRow
    <3>3. overtaken' \subseteq overtaken \cup set
      BY <2>2 DEF UpdateRow
    <3>4. \/ UNCHANGED <<store, by, updated>>
          \/ /\ store' = [a \in Attribute |-> IF a \in set THEN m.sets[a] ELSE store[a]]
             /\ by' = [a \in Attribute |-> IF a \in set THEN m.n ELSE by[a]]
             /\ updated' = [updated EXCEPT ![row] = m.time]
      BY <2>2 DEF UpdateRow
    <3>5. \A a \in set : m.sets[a] # None
      OBVIOUS
    <3> HIDE DEF set, newer
    <3>6. m.n \in Nat /\ m.n <= sent /\ m.sets \in Statement
      BY <1>1 DEF ReportSet
    <3>7. newest' \in [Attribute -> Nat] /\ \A a \in Attribute : newest'[a] <= sent'
      BY <1>2, <3>2, <3>6
    <3>8. CASE UNCHANGED <<store, by, updated>>
      BY <1>2, <3>1, <3>3, <3>7, <3>8
    <3>9. CASE /\ store' = [a \in Attribute |-> IF a \in set THEN m.sets[a] ELSE store[a]]
               /\ by' = [a \in Attribute |-> IF a \in set THEN m.n ELSE by[a]]
               /\ updated' = [updated EXCEPT ![row] = m.time]
      <4>1. by' \in [Attribute -> Nat] /\ updated' \in [Row -> 0 .. now']
        BY <1>1, <1>2, <3>6, <3>9
      <4>2. \A a \in Attribute : store'[a] \in Fact(a) \cup {None} /\ store'[a] # None
        BY <3>5, <3>6, <3>9 DEF Statement
      <4>3. store' \in [Attribute -> BOOLEAN \cup Status \cup {None}]
        <5>1. \A a \in Attribute : /\ m.sets[a] \in BOOLEAN \cup Status \cup {None}
                                   /\ store[a] \in BOOLEAN \cup Status \cup {None}
          BY <3>6 DEF Statement
        <5> QED
          BY <3>9, <5>1
      <4> QED
        BY <1>2, <3>1, <3>3, <3>7, <4>1, <4>2, <4>3 DEF Statement
    <3> QED
      BY <3>4, <3>8, <3>9
  <2> QED
    BY <2>1, <2>2, WriteGoes
<1>4. /\ replica' \in [sets : Statement, from : [Attribute -> Nat]]
      /\ \A a \in Attribute : replica'.sets[a] # None
  <2>1. UNCHANGED replica \/ UpdateRow(m, row)
    BY WriteGoes
  <2> QED
    BY <2>1, UpdateRowReplica, VersionType
<1> QED
  BY <1>2, <1>3, <1>4

LEMMA AsksGoes ==
  ASSUME CloudType, NEW i \in running, RequestDeviceState(i)
  PROVE  /\ Goes(i, [i EXCEPT !.asks = FALSE]) /\ i.asks /\ i.report \in Reports
         /\ UNCHANGED <<store, updated, by, newest, overtaken>> /\ UNCHANGED replica
<1>1. i \in Work /\ i.report \in Reports
  BY DEF CloudType, Reports
<1>2. /\ [i EXCEPT !.asks = FALSE] \in Work
      /\ [i EXCEPT !.asks = FALSE].report = i.report
      /\ [i EXCEPT !.asks = FALSE].writes \subseteq i.writes
  BY <1>1 DEF Work
<1> QED
  BY <1>1, <1>2 DEF RequestDeviceState, Goes, Continues

LEMMA PushGoes ==
  ASSUME CloudType, NEW i \in running, Push(i)
  PROVE  /\ Goes(i, [i EXCEPT !.pushes = FALSE]) /\ i.pushes /\ i.writes = {}
         /\ i.report \in Reports
         /\ UNCHANGED <<store, updated, by, newest, overtaken>> /\ UNCHANGED replica
<1>1. i \in Work /\ i.report \in Reports
  BY DEF CloudType, Reports
<1>2. /\ [i EXCEPT !.pushes = FALSE] \in Work
      /\ [i EXCEPT !.pushes = FALSE].report = i.report
      /\ [i EXCEPT !.pushes = FALSE].writes \subseteq i.writes
  BY <1>1 DEF Work
<1> QED
  BY <1>1, <1>2 DEF Push, MayPush, Goes, Continues, brokerVars

LEMMA GoesOnType ==
  ASSUME CloudType, NEW i \in running, NEW j, Goes(i, j),
         UNCHANGED <<store, updated, by, newest, overtaken>>, UNCHANGED replica
  PROVE  CloudType' /\ Reports' \subseteq Reports
BY GoesType DEF CloudType, Goes

BatchReport(all) == Report("event", Said(all), Contains(all, StatusIs("Ready")))

LEMMA BatchReportType ==
  ASSUME CloudType, NEW all \in Seq(Event), Publish(BatchReport(all))
  PROVE  /\ Published(BatchReport(all)) /\ BatchReport(all).sets = Said(all)
         /\ BatchReport(all).ready = Contains(all, StatusIs("Ready"))
<1>1. Contains(all, StatusIs("Ready")) \in BOOLEAN
  BY DEF Contains
<1>2. Said(all) \in Statement /\ Said(all)["connected"] = None
  BY SaidType
<1>3. /\ BatchReport(all) \in ReportSet /\ BatchReport(all).n = sent + 1
      /\ BatchReport(all).time = now /\ BatchReport(all).sets = Said(all)
      /\ BatchReport(all).ready = Contains(all, StatusIs("Ready"))
  <2> HIDE DEF BatchReport
  <2> QED
    BY <1>1, <1>2, ReportType DEF BatchReport
<1> QED
  BY <1>3 DEF Publish, Published

LEMMA PublishEventsStep ==
  ASSUME TypeInv, PublishEvents
  PROVE  \E k \in 0 .. Len(events) :
           LET all == batch \o SubSeq(events, 1, k)
           IN  /\ all \in Seq(Event) /\ Size(all) <= BatchCapacity
               /\ events' = SubSeq(events, k + 1, Len(events))
               /\ lost' = lost
               /\ \/ batch' = <<>> /\ Publish(BatchReport(all))
                  \/ batch' = all /\ Publish(BatchReport(all))
                  \/ batch' = all /\ UNCHANGED <<sent, reports>>
<1>1. PICK k \in 0 .. Len(events) :
        LET all == batch \o SubSeq(events, 1, k)
            report == Report("event", Said(all), Contains(all, StatusIs("Ready")))
        IN  /\ Moves(k)
            /\ events' = SubSeq(events, k + 1, Len(events))
            /\ \/ batch' = <<>> /\ Publish(report) /\ Succeeds
               \/ /\ batch' = all /\ FailsAs({})
                  /\ Publish(report) \/ UNCHANGED <<sent, reports>>
  BY DEF PublishEvents
<1> DEFINE all == batch \o SubSeq(events, 1, k)
<1>2. all \in Seq(Event)
  <2>1. \A j \in 1 .. k : events[j] \in Event
    BY DEF TypeInv, DeviceType
  <2>2. SubSeq(events, 1, k) \in Seq(Event)
    BY <2>1, SubSeqProperties
  <2> QED
    BY <2>2 DEF TypeInv, DeviceType
<1>3. Size(all) <= BatchCapacity
  BY <1>1 DEF Moves
<1>4. lost' = lost
  BY <1>1 DEF Succeeds, FailsAs
<1> QED
  BY <1>1, <1>2, <1>3, <1>4 DEF BatchReport

LEMMA PropertiesReportType ==
  ASSUME CloudType, NEW b \in BOOLEAN,
         Publish(Report("properties", ValueChanged(b), FALSE))
  PROVE  /\ Published(Report("properties", ValueChanged(b), FALSE))
         /\ Report("properties", ValueChanged(b), FALSE).sets = ValueChanged(b)
<1>1. /\ Report("properties", ValueChanged(b), FALSE) \in ReportSet
      /\ Report("properties", ValueChanged(b), FALSE).n = sent + 1
      /\ Report("properties", ValueChanged(b), FALSE).time = now
      /\ Report("properties", ValueChanged(b), FALSE).sets = ValueChanged(b)
  BY ValueEvent, NoneApart, ReportType
<1> QED
  BY <1>1 DEF Publish, Published

LEMMA ConfigReportType ==
  ASSUME CloudType, Publish(Report("config", Nothing, FALSE))
  PROVE  /\ Published(Report("config", Nothing, FALSE))
         /\ Report("config", Nothing, FALSE).sets = Nothing
<1>1. /\ Report("config", Nothing, FALSE) \in ReportSet
      /\ Report("config", Nothing, FALSE).n = sent + 1
      /\ Report("config", Nothing, FALSE).time = now
      /\ Report("config", Nothing, FALSE).sets = Nothing
  BY NothingSaid, ReportType
<1> QED
  BY <1>1 DEF Publish, Published

Presence(b) == [Nothing EXCEPT !["connected"] = b]

LEMMA PresenceSays ==
  ASSUME NEW b \in BOOLEAN
  PROVE  /\ Presence(b) \in Statement /\ Presence(b)["connected"] = b
         /\ Presence(b)["value"] = None /\ Presence(b)["status"] = None
<1>1. /\ Presence(b)["connected"] = b
      /\ Presence(b)["value"] = None /\ Presence(b)["status"] = None
  BY DEF Presence, Nothing, Attribute
<1>2. Presence(b) \in [Attribute -> BOOLEAN \cup Status \cup {None}]
  BY DEF Presence, Nothing, Attribute
<1>3. \A a \in Attribute : Presence(b)[a] \in Fact(a) \cup {None}
  BY <1>1 DEF Attribute, Fact
<1> QED
  BY <1>1, <1>2, <1>3 DEF Statement

LEMMA PresenceReportType ==
  ASSUME CloudType, NEW b \in BOOLEAN, ConnectionIs(b)
  PROVE  /\ online' = b
         /\ Published(Report("presence", Presence(b), FALSE))
         /\ Report("presence", Presence(b), FALSE).sets = Presence(b)
<1>1. /\ Report("presence", Presence(b), FALSE) \in ReportSet
      /\ Report("presence", Presence(b), FALSE).n = sent + 1
      /\ Report("presence", Presence(b), FALSE).time = now
      /\ Report("presence", Presence(b), FALSE).sets = Presence(b)
  BY PresenceSays, ReportType
<1>2. online' = b /\ Publish(Report("presence", Presence(b), FALSE))
  BY DEF ConnectionIs, Presence
<1> QED
  BY <1>1, <1>2 DEF Publish, Published

\* What the device does when it is asked, by what it publishes.
LEMMA AnswerStep ==
  ASSUME TypeInv, NEW request \in Request, Answer(request)
  PROVE  \/ /\ request = "getProperties" /\ UNCHANGED <<on, events>>
            /\ Publish(Report("properties", ValueChanged(on), FALSE))
            /\ lost' \in {lost, Refreshed}
         \/ /\ request = "getProperties" /\ UNCHANGED <<on, events, sent, reports>>
            /\ lost' = lost \cup {"value"}
         \/ /\ request = "getConfig" /\ UNCHANGED <<on, events, lost>>
            /\ \/ Publish(Report("config", Nothing, FALSE))
               \/ UNCHANGED <<sent, reports>>
         \/ /\ request \in {"turnOn", "turnOff"} /\ UNCHANGED <<sent, reports>>
            /\ Change(request = "turnOn")
         \/ /\ status = "Unconfigured"
            /\ UNCHANGED <<on, events, sent, reports, lost>>
<1>0. ASSUME NEW attributes, Unsent(attributes)
      PROVE  UNCHANGED <<sent, reports>> /\ lost' = lost \cup attributes
  BY <1>0 DEF Unsent, FailsAs
<1>1. CASE /\ request = "getProperties" /\ status # "Unconfigured"
           /\ LET report == Report("properties", ValueChanged(on), FALSE)
              IN  \/ online /\ Publish(report) /\ lost' = Refreshed /\ UNCHANGED left
                  \/ online /\ Publish(report) /\ FailsAs({})
                  \/ Unsent({"value"})
           /\ UNCHANGED <<on, events>>
  <2>1. lost \cup {} = lost
    OBVIOUS
  <2> QED
    BY <1>0, <1>1, <2>1 DEF FailsAs
<1>2. CASE /\ request = "getConfig"
           /\ \/ online /\ Publish(Report("config", Nothing, FALSE)) /\ Succeeds
              \/ Unsent({})
           /\ UNCHANGED <<on, events>>
  <2>1. lost \cup {} = lost
    OBVIOUS
  <2> QED
    BY <1>0, <1>2, <2>1 DEF Succeeds
<1>3. CASE /\ request \in {"turnOn", "turnOff"} /\ status # "Unconfigured"
           /\ Change(request = "turnOn")
           /\ UNCHANGED <<sent, reports, left>>
  BY <1>3
<1>4. CASE /\ status = "Unconfigured" /\ request # "getConfig"
           /\ UNCHANGED <<on, events, sent, reports, left, lost>>
  BY <1>4
<1> QED
  BY <1>1, <1>2, <1>3, <1>4 DEF Answer

LEMMA ChangeType ==
  ASSUME TypeInv, NEW b \in BOOLEAN, Change(b)
  PROVE  /\ on' = b /\ events' \in Seq(Event) /\ Size(events') <= EventCapacity
         /\ lost' \subseteq Attribute \cup {"view"}
<1>1. CASE b # on
  BY <1>1, ValueEvent, RaiseType DEF Change, TypeInv
<1>2. CASE b = on
  BY <1>2 DEF Change, TypeInv, DeviceType, ClientType
<1> QED
  BY <1>1, <1>2

\* What a step does to the cloud.
CloudStep ==
  \/ UNCHANGED <<sent, reports, cloudVars>> /\ now' \in {now, now + 1}
       /\ now' \in 0 .. MaxTime
  \/ \E r : Published(r) /\ UNCHANGED <<now, cloudVars>>
  \/ \E m \in reports : Start(m)
  \/ \E i \in running :
       \/ \E row \in Row : Write(i, row)
       \/ RequestDeviceState(i) \/ Push(i)

LEMMA CloudStepType ==
  ASSUME CloudType, CloudStep
  PROVE  CloudType'
<1>1. CASE /\ UNCHANGED <<sent, reports, cloudVars>> /\ now' \in {now, now + 1}
           /\ now' \in 0 .. MaxTime
  <2>1. Reports' = Reports
    BY <1>1 DEF Reports, cloudVars
  <2>2. now \in Nat /\ now <= now' /\ now' \in Nat
    BY <1>1 DEF CloudType
  <2>3. \A t \in 0 .. now : t \in 0 .. now'
    BY <2>2
  <2>4. Numbered'
    BY <1>1, <2>1, <2>3 DEF CloudType, Numbered, cloudVars
  <2>5. updated' \in [Row -> 0 .. now']
    BY <1>1, <2>3 DEF CloudType, cloudVars
  <2> QED
    BY <1>1, <2>4, <2>5 DEF CloudType, cloudVars
<1>2. ASSUME NEW r, Published(r) /\ UNCHANGED <<now, cloudVars>> PROVE CloudType'
  BY <1>2, PublishedType
<1>3. ASSUME NEW m \in reports, Start(m) PROVE CloudType'
  BY <1>3, StartStep, StartType
<1>4. ASSUME NEW i \in running, NEW row \in Row, Write(i, row) PROVE CloudType'
  BY <1>4, WriteType
<1>5. ASSUME NEW i \in running, RequestDeviceState(i) PROVE CloudType'
  BY <1>5, AsksGoes, GoesOnType
<1>6. ASSUME NEW i \in running, Push(i) PROVE CloudType'
  BY <1>6, PushGoes, GoesOnType
<1> QED
  BY <1>1, <1>2, <1>3, <1>4, <1>5, <1>6 DEF CloudStep

LEMMA HandleMessageStep ==
  ASSUME TypeInv, HandleMessage
  PROVE  \E request \in Request :
           /\ handled < Len(inbound) /\ request = inbound[handled + 1]
           /\ handled' = handled + 1 /\ Answer(request)
           /\ UNCHANGED <<status, batch, inbound, online, now, requests, cloudVars,
                          clientVars>>
<1>1. handled < Len(inbound) /\ handled' = handled + 1 /\ Answer(inbound[handled'])
        /\ UNCHANGED <<status, batch, inbound, online, now, requests, cloudVars,
                       clientVars>>
  BY DEF HandleMessage
<1>2. handled + 1 \in 1 .. Len(inbound)
  BY <1>1 DEF TypeInv, DeviceType
<1>3. inbound[handled + 1] \in Request
  BY <1>2 DEF TypeInv, DeviceType
<1>4. Answer(inbound[handled + 1])
  BY <1>1, Zenon
<1> QED
  BY <1>1, <1>3, <1>4

\* A step of the device, the broker or somebody else, for the cloud and the
\* clients: a report may be published.
Apart ==
  /\ UNCHANGED cloudVars /\ UNCHANGED clientVars
  /\ "view" \in lost' <=> "view" \in lost
  /\ \/ UNCHANGED <<sent, reports>> /\ now' \in {now, now + 1} /\ now' \in 0 .. MaxTime
     \/ UNCHANGED now /\ \E r : Published(r)

Client == Subscribe \/ Respond \/ (\E push \in pushes : Show(push)) \/ Leave

LEMMA RaiseApart ==
  ASSUME NEW e, Raise(e)
  PROVE  "view" \in lost' <=> "view" \in lost
BY DEF Raise, About

LEMMA NextApart ==
  ASSUME TypeInv, [Next]_vars
  PROVE  Apart \/ Cloud \/ Client
<1>0. ASSUME UNCHANGED <<sent, reports>>, UNCHANGED now, UNCHANGED cloudVars,
             UNCHANGED clientVars, "view" \in lost' <=> "view" \in lost
      PROVE  Apart
  BY <1>0 DEF Apart, TypeInv, CloudType
<1>1. ASSUME NEW r, Published(r), UNCHANGED now, UNCHANGED cloudVars,
             UNCHANGED clientVars, "view" \in lost' <=> "view" \in lost
      PROVE  Apart
  BY <1>1 DEF Apart
<1>2. CASE ConfigEnd \/ BeginControllers \/ ConfigStart
  <2>1. PICK s : SetStatus(s)
    BY <1>2 DEF ConfigEnd, BeginControllers, ConfigStart
  <2> QED
    BY <1>0, <2>1, RaiseApart DEF SetStatus, brokerVars
<1>3. CASE ValueChanges
  <2>1. "view" \in lost' <=> "view" \in lost
    BY <1>3, RaiseApart DEF ValueChanges, Change
  <2> QED
    BY <1>0, <1>3, <2>1 DEF ValueChanges, brokerVars
<1>4. CASE PublishEvents
  <2>1. PICK k \in 0 .. Len(events) :
           LET all == batch \o SubSeq(events, 1, k)
           IN  /\ all \in Seq(Event) /\ lost' = lost
               /\ Publish(BatchReport(all)) \/ UNCHANGED <<sent, reports>>
    BY <1>4, PublishEventsStep
  <2>2. UNCHANGED now /\ UNCHANGED cloudVars /\ UNCHANGED clientVars
    BY <1>4 DEF PublishEvents
  <2> QED
    BY <1>0, <1>1, <2>1, <2>2, BatchReportType DEF TypeInv
<1>5. CASE HandleMessage
  <2>1. PICK request \in Request :
          Answer(request) /\ UNCHANGED <<now, cloudVars, clientVars>>
    BY <1>5, HandleMessageStep
  <2>2. UNCHANGED now /\ UNCHANGED cloudVars /\ UNCHANGED clientVars
    BY <2>1
  <2>3. /\ \/ Publish(Report("properties", ValueChanged(on), FALSE))
           \/ Publish(Report("config", Nothing, FALSE))
           \/ UNCHANGED <<sent, reports>>
        /\ \/ lost' \in {lost, Refreshed, lost \cup {"value"}}
           \/ Change(request = "turnOn")
    BY <2>1, AnswerStep
  <2>4. "view" \in lost' <=> "view" \in lost
    BY <2>3, RaiseApart DEF Refreshed, Change
  <2> QED
    BY <1>0, <1>1, <2>2, <2>3, <2>4, PropertiesReportType, ConfigReportType
    DEF TypeInv, DeviceType
<1>6. CASE EmptyQueue \/ Receive
  <2>1. "view" \in lost' <=> "view" \in lost
    BY <1>6 DEF EmptyQueue, Receive
  <2> QED
    BY <1>0, <1>6, <2>1 DEF EmptyQueue, Receive, brokerVars
<1>7. CASE Restart \/ Connect \/ Disconnect
  <2>1. /\ UNCHANGED now /\ UNCHANGED cloudVars /\ UNCHANGED clientVars
        /\ "view" \in lost' <=> "view" \in lost
    BY <1>7 DEF Restart, Connect, Disconnect
  <2>2. ConnectionIs(TRUE) \/ ConnectionIs(FALSE) \/ UNCHANGED <<sent, reports>>
    BY <1>7 DEF Restart, Connect, Disconnect
  <2> QED
    BY <1>0, <1>1, <2>1, <2>2, PresenceReportType DEF TypeInv
<1>8. CASE Tick
  <2>1. now' = now + 1 /\ now < MaxTime /\ UNCHANGED sent /\ UNCHANGED reports
          /\ UNCHANGED cloudVars /\ UNCHANGED clientVars /\ UNCHANGED lost
    BY <1>8 DEF Tick
  <2> QED
    BY <2>1, ReportingAssumption DEF Apart, TypeInv, CloudType
<1>9. ASSUME NEW request \in {"turnOn", "turnOff"}, SetProperty(request)
      PROVE  Apart
  BY <1>0, <1>9 DEF SetProperty
<1>10. CASE UNCHANGED vars
  BY <1>0, <1>10 DEF vars, brokerVars
<1> QED
  BY <1>2, <1>3, <1>4, <1>5, <1>6, <1>7, <1>8, <1>9, <1>10
  DEF Next, Device, Broker, Client

LEMMA NextCloudStep ==
  ASSUME TypeInv, [Next]_vars
  PROVE  CloudStep
<1>1. CASE Apart
  BY <1>1 DEF Apart, CloudStep
<1>2. CASE Cloud
  <2>1. \A i : Invocation(i) => \/ \E row \in Row : Write(i, row)
                                \/ RequestDeviceState(i) \/ Push(i)
    BY DEF Invocation
  <2> QED
    BY <1>2, <2>1 DEF Cloud, CloudStep
<1>3. CASE Client
  <2>1. UNCHANGED now /\ UNCHANGED <<sent, reports>> /\ UNCHANGED cloudVars
    BY <1>3 DEF Client, Subscribe, Respond, Leave, Show, brokerVars
  <2> QED
    BY <2>1 DEF CloudStep, TypeInv, CloudType
<1> QED
  BY <1>1, <1>2, <1>3, NextApart

LEMMA SetStatusType ==
  ASSUME TypeInv, NEW s \in Status, SetStatus(s)
  PROVE  DeviceType' /\ ClientType'
<1>1. /\ events' \in Seq(Event) /\ Size(events') <= EventCapacity
      /\ lost' \subseteq Attribute \cup {"view"}
  BY StatusEvent, RaiseType DEF SetStatus, TypeInv
<1>2. status' = s /\ UNCHANGED <<on, batch, inbound, handled, online, requests>>
         /\ UNCHANGED clientVars
  BY DEF SetStatus, brokerVars
<1> QED
  BY <1>1, <1>2 DEF TypeInv, DeviceType, ClientType, clientVars

LEMMA ShowType ==
  ASSUME TypeInv, NEW push \in pushes, Show(push)
  PROVE  DeviceType' /\ ClientType'
<1>1. push.sets \in Statement /\ push.from \in [Attribute -> Nat]
  BY DEF TypeInv, ClientType
<1> DEFINE told == {a \in Attribute : push.sets[a] # None}
           newer == {a \in told : push.from[a] >= seen[a]}
<1>2. /\ pushes' = pushes \ {push}
      /\ view' = [a \in Attribute |-> IF a \in told THEN push.sets[a] ELSE view[a]]
      /\ seen' = [a \in Attribute |-> IF a \in newer THEN push.from[a] ELSE seen[a]]
      /\ back' = (back \ newer) \cup (told \ newer)
      /\ UNCHANGED deviceVars /\ UNCHANGED requests /\ UNCHANGED subscribed
      /\ UNCHANGED asking /\ UNCHANGED lost
  BY DEF Show, brokerVars
<1>3. told \subseteq Attribute
  OBVIOUS
<1> HIDE DEF told, newer
<1>4. view' \in Statement
  <2>1. \A a \in Attribute : /\ push.sets[a] \in BOOLEAN \cup Status \cup {None}
                             /\ view[a] \in BOOLEAN \cup Status \cup {None}
    BY <1>1 DEF TypeInv, ClientType, Statement
  <2>2. view' \in [Attribute -> BOOLEAN \cup Status \cup {None}]
    BY <1>2, <2>1
  <2>3. \A a \in Attribute : view'[a] \in Fact(a) \cup {None}
    BY <1>1, <1>2 DEF TypeInv, ClientType, Statement
  <2> QED
    BY <2>2, <2>3 DEF Statement
<1>5. seen' \in [Attribute -> Nat]
  BY <1>1, <1>2 DEF TypeInv, ClientType
<1> QED
  BY <1>2, <1>3, <1>4, <1>5 DEF TypeInv, DeviceType, ClientType, deviceVars

\* What a client is answered, and whether that leaves it behind.
LEMMA RespondStep ==
  ASSUME Respond
  PROVE  \E behind :
           /\ pushes' = pushes \cup {Version(behind)}
           /\ lost' = IF LeftBehind(Version(behind)) THEN lost \cup {"view"}
                       ELSE IF \E i \in running : Unannounced(i) THEN lost
                       ELSE lost \ {"view"}
           /\ lost' \subseteq lost \cup {"view"} /\ lost \ {"view"} \subseteq lost'
<1>1. PICK behind \in SUBSET Row :
        LET answer == Version(behind)
        IN  /\ pushes' = pushes \cup {answer}
            /\ lost' = IF LeftBehind(answer) THEN lost \cup {"view"}
                        ELSE IF \E i \in running : Unannounced(i) THEN lost
                        ELSE lost \ {"view"}
  BY DEF Respond
<1> DEFINE fresh == \E i \in running : Unannounced(i)
           answer == Version(behind)
<1>2. lost' = IF LeftBehind(answer) THEN lost \cup {"view"}
              ELSE IF fresh THEN lost ELSE lost \ {"view"}
  BY <1>1
<1> HIDE DEF fresh
<1>3. lost' \subseteq lost \cup {"view"} /\ lost \ {"view"} \subseteq lost'
  <2> HIDE DEF answer
  <2> QED
    BY <1>2
<1> QED
  BY <1>1, <1>3

LEMMA NextType == ASSUME TypeInv, [Next]_vars PROVE TypeInv'
<1> SUFFICES DeviceType' /\ ClientType'
  BY NextCloudStep, CloudStepType DEF TypeInv
<1> USE DEF TypeInv
<1>0. ASSUME UNCHANGED deviceVars, UNCHANGED requests PROVE DeviceType'
  BY <1>0 DEF DeviceType, deviceVars
<1>1. ASSUME UNCHANGED clientVars, lost' \subseteq Attribute \cup {"view"}
      PROVE  ClientType'
  BY <1>1 DEF ClientType, clientVars
<1>2. CASE ConfigEnd \/ BeginControllers \/ ConfigStart
  BY <1>2, SetStatusType DEF ConfigEnd, BeginControllers, ConfigStart, Status
<1>3. CASE ValueChanges
  <2>1. /\ UNCHANGED <<status, batch, inbound, handled, online, requests>>
        /\ UNCHANGED clientVars
    BY <1>3 DEF ValueChanges, brokerVars
  <2>2. PICK b \in BOOLEAN : b = ~on
    OBVIOUS
  <2>3. Change(b)
    BY <1>3, <2>2, Zenon DEF ValueChanges
  <2>4. /\ on' = b /\ events' \in Seq(Event) /\ Size(events') <= EventCapacity
        /\ lost' \subseteq Attribute \cup {"view"}
    BY <2>3, ChangeType
  <2> QED
    BY <1>1, <2>1, <2>4 DEF DeviceType
<1>4. CASE PublishEvents
  <2>1. PICK k \in 0 .. Len(events) :
           LET all == batch \o SubSeq(events, 1, k)
           IN  /\ all \in Seq(Event) /\ Size(all) <= BatchCapacity
               /\ events' = SubSeq(events, k + 1, Len(events))
               /\ lost' = lost /\ batch' \in {<<>>, all}
    BY <1>4, PublishEventsStep
  <2>2. batch' \in Seq(Event) /\ Size(batch') <= BatchCapacity
    <3>1. BatchCapacity \in Nat /\ <<>> \in Seq(Event)
      BY ReportingAssumption
    <3>2. Size(<<>>) <= BatchCapacity
      BY <3>1, SizeEmpty
    <3> QED
      BY <2>1, <3>1, <3>2
  <2>3. events' \in Seq(Event) /\ Size(events') <= Size(events)
    BY <2>1, SizeRest DEF DeviceType
  <2>4. Size(events) \in Nat /\ Size(events') \in Nat /\ EventCapacity \in Nat
    BY <2>3, SizeNat, ReportingAssumption DEF DeviceType
  <2>5. /\ UNCHANGED <<on, status, inbound, handled, online, requests>>
        /\ UNCHANGED clientVars
    BY <1>4 DEF PublishEvents
  <2>6. ClientType'
    BY <1>1, <2>1, <2>5 DEF ClientType
  <2>7. Size(events') <= EventCapacity
    BY <2>3, <2>4 DEF DeviceType
  <2> QED
    BY <2>2, <2>3, <2>5, <2>6, <2>7 DEF DeviceType
<1>5. CASE HandleMessage
  <2>1. PICK request \in Request :
           /\ handled < Len(inbound) /\ handled' = handled + 1 /\ Answer(request)
           /\ UNCHANGED <<status, batch, inbound, online, now, requests, cloudVars,
                          clientVars>>
    BY <1>5, HandleMessageStep
  <2>2. /\ UNCHANGED status /\ UNCHANGED batch /\ UNCHANGED inbound
        /\ UNCHANGED online /\ UNCHANGED requests /\ UNCHANGED clientVars
    BY <2>1
  <2>3. handled' \in 0 .. Len(inbound)
    BY <2>1 DEF DeviceType
  <2>4. \/ UNCHANGED <<on, events>> /\ lost' \in {lost, Refreshed, lost \cup {"value"}}
        \/ Change(request = "turnOn")
    BY <2>1, AnswerStep
  <2>5. CASE UNCHANGED <<on, events>>
               /\ lost' \in {lost, Refreshed, lost \cup {"value"}}
    <3>1. lost' \subseteq Attribute \cup {"view"}
      BY <2>5 DEF ClientType, Refreshed, Attribute
    <3> QED
      BY <1>1, <2>2, <2>3, <2>5, <3>1 DEF DeviceType
  <2>6. CASE Change(request = "turnOn")
    <3>1. PICK b \in BOOLEAN : b = (request = "turnOn")
      OBVIOUS
    <3>2. Change(b)
      BY <2>6, <3>1, Zenon
    <3>3. /\ on' = b /\ events' \in Seq(Event) /\ Size(events') <= EventCapacity
          /\ lost' \subseteq Attribute \cup {"view"}
      BY <3>2, ChangeType
    <3> QED
      BY <1>1, <2>2, <2>3, <3>3 DEF DeviceType
  <2> QED
    BY <2>4, <2>5, <2>6
<1>6. CASE EmptyQueue
  BY <1>1, <1>6, ReportingAssumption DEF EmptyQueue, DeviceType, ClientType, brokerVars
<1>7. CASE Receive
  <2>1. Head(requests) \in Request /\ Tail(requests) \in Seq(Request)
          /\ requests' = Tail(requests)
    BY <1>7 DEF Receive, DeviceType
  <2>2. /\ inbound' \in Seq(Request) /\ Len(inbound') <= QueueCapacity
        /\ Len(inbound') >= Len(inbound)
    <3>1. CASE Len(inbound) < QueueCapacity
      <4>1. inbound' = Append(inbound, Head(requests)) /\ QueueCapacity \in Nat
        BY <1>7, <3>1, ReportingAssumption DEF Receive
      <4>2. inbound' \in Seq(Request) /\ Len(inbound') = Len(inbound) + 1
        BY <2>1, <4>1 DEF DeviceType
      <4>3. Len(inbound) \in Nat
        BY DEF DeviceType
      <4> QED
        BY <3>1, <4>1, <4>2, <4>3
    <3>2. CASE ~(Len(inbound) < QueueCapacity)
      BY <1>7, <3>2 DEF Receive, DeviceType
    <3> QED
      BY <3>1, <3>2
  <2>3. lost' \subseteq Attribute \cup {"view"}
    BY <1>7 DEF Receive, ClientType, Attribute
  <2>4. UNCHANGED <<on, status, events, batch, handled, online>>
          /\ UNCHANGED clientVars
    BY <1>7 DEF Receive
  <2>5. handled' \in 0 .. Len(inbound')
    BY <2>2, <2>4 DEF DeviceType
  <2> QED
    BY <1>1, <2>1, <2>2, <2>3, <2>4, <2>5 DEF DeviceType
<1>8. CASE Connect \/ Disconnect
  <2>1. online' \in BOOLEAN
    BY <1>8 DEF Connect, Disconnect, ConnectionIs
  <2>2. /\ UNCHANGED <<on, status, events, batch, inbound, handled, requests>>
        /\ UNCHANGED clientVars /\ UNCHANGED lost
    BY <1>8 DEF Connect, Disconnect
  <2> QED
    BY <1>1, <2>1, <2>2 DEF DeviceType, ClientType
<1>9. CASE Restart
  <2>1. /\ on' = FALSE /\ status' = "Unconfigured"
        /\ events' = <<StatusIs("Unconfigured")>>
        /\ batch' = <<>> /\ inbound' = <<>> /\ handled' = 0
        /\ lost' = lost \ {"status"} /\ UNCHANGED requests /\ UNCHANGED clientVars
    BY <1>9 DEF Restart
  <2>2. online' \in BOOLEAN
    <3>1. CASE online
      BY <1>9, <3>1 DEF Restart, ConnectionIs
    <3>2. CASE ~online
      BY <1>9, <3>2 DEF Restart, DeviceType
    <3> QED
      BY <3>1, <3>2
  <2>3. StatusIs("Unconfigured") \in Event
    BY StatusEvent DEF Status
  <2>4. Size(events') <= EventCapacity
    <3>1. Size(events') <= 2
      BY <2>1, <2>3, SizeSingle
    <3>2. EventCapacity \in Nat /\ EventCapacity >= 2
      BY ReportingAssumption
    <3>3. Size(events') \in Nat
      <4>1. events' \in Seq(Event)
        BY <2>1, <2>3
      <4> QED
        BY <4>1, SizeNat
    <3> QED
      BY <3>1, <3>2, <3>3
  <2>5. /\ Size(batch') <= BatchCapacity /\ 0 <= QueueCapacity /\ Len(inbound') = 0
        /\ handled' \in 0 .. Len(inbound')
    BY <2>1, SizeEmpty, ReportingAssumption
  <2>6. on' \in BOOLEAN /\ status' \in Status
    BY <2>1 DEF Status
  <2>7. events' \in Seq(Event) /\ batch' \in Seq(Event) /\ inbound' \in Seq(Request)
    BY <2>1, <2>3
  <2>8. ClientType'
    BY <1>1, <2>1 DEF ClientType
  <2> QED
    BY <2>1, <2>2, <2>4, <2>5, <2>6, <2>7, <2>8 DEF DeviceType
<1>10. CASE Tick
  BY <1>0, <1>1, <1>10 DEF Tick, ClientType
<1>11. ASSUME NEW m \in reports, Start(m) PROVE DeviceType' /\ ClientType'
  <2>1. lost' \subseteq lost \cup {"view"}
    BY <1>11, StartStep DEF Starts
  <2> QED
    BY <1>0, <1>1, <1>11, <2>1 DEF Start, ClientType
<1>12. ASSUME NEW i \in running, NEW row \in Row, Write(i, row)
       PROVE  DeviceType' /\ ClientType'
  <2>1. lost' \subseteq lost \cup Columns(row) \cup {"view"}
    BY <1>12, WriteGoes
  <2>2. Columns(row) \subseteq Attribute
    BY DEF Columns, Attribute
  <2> QED
    BY <1>0, <1>1, <1>12, <2>1, <2>2 DEF Write, ClientType, brokerVars
<1>13. ASSUME NEW i \in running, RequestDeviceState(i) PROVE DeviceType' /\ ClientType'
  <2>1. requests' \in Seq(Request)
    <3>1. /\ <<"getConfig", "getProperties">> \in Seq(Request)
          /\ <<"getProperties", "getConfig">> \in Seq(Request)
      BY DEF Request
    <3> QED
      <4>1. /\ requests' \in {requests, requests \o <<"getConfig", "getProperties">>,
                             requests \o <<"getProperties", "getConfig">>}
            /\ requests \in Seq(Request)
        BY <1>13 DEF RequestDeviceState, DeviceType
      <4>2. \A s, t \in Seq(Request) : s \o t \in Seq(Request)
        OBVIOUS
      <4> QED
        BY <3>1, <4>1, <4>2
  <2>2. lost' \subseteq Attribute \cup {"view"}
    BY <1>13 DEF RequestDeviceState, Succeeds, FailsAs, ClientType, Attribute
  <2> QED
    BY <1>1, <1>13, <2>1, <2>2 DEF RequestDeviceState, DeviceType, deviceVars
<1>14. ASSUME NEW i \in running, Push(i) PROVE DeviceType' /\ ClientType'
  <2>1. i.report \in ReportSet
    BY DEF CloudType, Work
  <2>2. [sets |-> i.report.sets, from |-> [a \in Attribute |-> i.report.n]]
          \in [sets : Statement, from : [Attribute -> Nat]]
    BY <2>1 DEF ReportSet
  <2>3. pushes' \subseteq [sets : Statement, from : [Attribute -> Nat]]
    BY <1>14, <2>2 DEF Push, ClientType
  <2>4. lost' \subseteq Attribute \cup {"view"}
    BY <1>14 DEF Push, Succeeds, FailsAs, Misses, ClientType
  <2>5. UNCHANGED deviceVars /\ UNCHANGED brokerVars
          /\ UNCHANGED <<subscribed, asking, view, seen, back>>
    BY <1>14 DEF Push
  <2> QED
    BY <1>0, <2>3, <2>4, <2>5 DEF ClientType, brokerVars
<1>15. CASE Subscribe
  BY <1>0, <1>15 DEF Subscribe, ClientType, brokerVars
<1>16. CASE Respond
  <2>1. PICK behind : /\ pushes' = pushes \cup {Version(behind)}
                      /\ lost' \subseteq lost \cup {"view"}
    BY <1>16, RespondStep
  <2>2. Version(behind) \in [sets : Statement, from : [Attribute -> Nat]]
    BY VersionType
  <2> QED
    BY <1>0, <1>16, <2>1, <2>2 DEF Respond, ClientType, brokerVars
<1>17. ASSUME NEW push \in pushes, Show(push) PROVE DeviceType' /\ ClientType'
  BY <1>17, ShowType
<1>18. CASE Leave
  BY <1>0, <1>18 DEF Leave, ClientType, brokerVars
<1>19. ASSUME NEW request \in {"turnOn", "turnOff"}, SetProperty(request)
       PROVE  DeviceType' /\ ClientType'
  <2>1. requests' \in Seq(Request)
    BY <1>19 DEF SetProperty, DeviceType, Request
  <2> QED
    BY <1>1, <1>19, <2>1 DEF SetProperty, DeviceType, ClientType, deviceVars
<1>20. CASE UNCHANGED vars
  BY <1>0, <1>1, <1>20 DEF vars, brokerVars, ClientType
<1> QED
  BY <1>2, <1>3, <1>4, <1>5, <1>6, <1>7, <1>8, <1>9, <1>10, <1>11, <1>12, <1>13,
     <1>14, <1>15, <1>16, <1>17, <1>18, <1>19, <1>20
  DEF Next, Device, Broker, Cloud, Invocation

LEMMA InitType == ASSUME Init PROVE TypeInv
<1>1. DeviceType
  <2>1. on \in BOOLEAN /\ online \in BOOLEAN
    BY Zenon DEF Init
  <2>2. 0 <= EventCapacity /\ 0 <= BatchCapacity /\ 0 <= QueueCapacity
    BY ReportingAssumption
  <2> QED
    BY <2>1, <2>2, SizeEmpty DEF Init, DeviceType, Status
<1>2. CloudType
  <2>1. Numbered
    BY DEF Init, Numbered, Reports
  <2>2. /\ store["value"] = FALSE /\ store["status"] = "Ready"
        /\ store["connected"] = TRUE
    BY DEF Init, Nothing, Attribute
  <2>3. store \in [Attribute -> BOOLEAN \cup Status \cup {None}]
    BY DEF Init, Nothing, Attribute, Status
  <2>4. \A a \in Attribute : store[a] \in Fact(a) /\ store[a] # None
    BY <2>2, NoneApart DEF Attribute, Fact, Status
  <2>5. 0 \in 0 .. MaxTime
    BY ReportingAssumption
  <2> QED
    <3>1. /\ by \in [Attribute -> Nat] /\ newest \in [Attribute -> Nat]
          /\ \A a \in Attribute : newest[a] <= 0
      BY DEF Init
    <3>2. /\ sent = 0 /\ now = 0 /\ reports = {} /\ running = {} /\ overtaken = {}
          /\ updated = [row \in Row |-> 0]
      BY DEF Init
    <3>3. store \in Statement
      BY <2>3, <2>4 DEF Statement
    <3>4. replica = [sets |-> store, from |-> by]
      BY DEF Init, Stored
    <3> QED
      BY <2>1, <2>4, <2>5, <3>1, <3>2, <3>3, <3>4 DEF CloudType
<1>3. ClientType
  <2>1. subscribed \in BOOLEAN /\ asking \in BOOLEAN
    BY Zenon DEF Init
  <2> QED
    BY <2>1, NothingSaid DEF Init, ClientType
<1> QED
  BY <1>1, <1>2, <1>3 DEF TypeInv

LEMMA TypeInvAlways == Spec => []TypeInv
<1>1. Init => TypeInv
  BY InitType
<1>2. TypeInv /\ [Next]_vars => TypeInv'
  BY NextType
<1> QED
  BY <1>1, <1>2, PTL DEF Spec

\* Every variable has its type, and no buffer or queue holds more than its
\* capacity (event-buffer.cpp, event-publisher.cpp, mqtt-client.cpp).
THEOREM ReportingTypeCorrect == Spec => []TypeOK
<1>1. TypeInv => TypeOK
  BY TypeInvTypeOK
<1> QED
  BY <1>1, TypeInvAlways, PTL
------------------------------------------------------------------------------
(* Whether what the store has of an attribute is, or will be, v *)

RowOf(a) == IF a = "value" THEN "property" ELSE "device"

\* Reports that tell of an attribute and are not written yet.
Pending(a) ==
  {m \in Reports :
     /\ m.sets[a] # None
     /\ m \in reports \/ \E i \in running : i.report = m /\ RowOf(a) \in i.writes}

\* The newest report is still to be written and says v, or else it has been
\* written.  The newest report prevails, or the attribute is overtaken.
UpToDate(a, v) ==
  \/ \E m \in Pending(a) :
       m.sets[a] = v /\ m.n > newest[a] /\ \A p \in Pending(a) : p.n <= m.n
  \/ (\A p \in Pending(a) : p.n < newest[a]) /\ (a \in overtaken \/ store[a] = v)

LEMMA ColumnsRow ==
  ASSUME NEW a \in Attribute, NEW row \in Row
  PROVE  a \in Columns(row) <=> RowOf(a) = row
BY DEF Attribute, Row, Columns, RowOf

LEMMA UpToDateSame ==
  ASSUME NEW a \in Attribute, NEW v, UpToDate(a, v), UNCHANGED <<reports, cloudVars>>
  PROVE  UpToDate(a, v)'
BY DEF UpToDate, Pending, Reports, cloudVars

LEMMA PendingPublished ==
  ASSUME CloudType, NEW r, Published(r), UNCHANGED cloudVars, NEW a \in Attribute
  PROVE  /\ \A p : p \in Pending(a)' <=> p \in Pending(a) \/ (p = r /\ r.sets[a] # None)
         /\ \A p \in Pending(a) : p.n < r.n
         /\ r.n > newest[a]
<1>1. reports' = reports \cup {r} /\ UNCHANGED running /\ r.n = sent + 1
  BY DEF Published, cloudVars
<1>2. Reports' = Reports \cup {r}
  BY <1>1 DEF Reports
<1>3. ASSUME NEW p PROVE p \in Pending(a)' <=> p \in Pending(a) \/ (p = r /\ r.sets[a] # None)
  BY <1>1, <1>2 DEF Pending, Reports
<1>4. ASSUME NEW p \in Pending(a) PROVE p.n < r.n
  <2>1. p \in Reports
    BY DEF Pending
  <2>2. p.n \in 1 .. sent /\ sent \in Nat
    BY <2>1 DEF CloudType, Numbered
  <2> QED
    BY <1>1, <2>2
<1>5. r.n > newest[a]
  BY <1>1 DEF CloudType
<1> QED
  BY <1>3, <1>4, <1>5

\* A new report makes the store up to date with what it says.
LEMMA UpToDatePublished ==
  ASSUME CloudType, NEW r, Published(r), UNCHANGED cloudVars,
         NEW a \in Attribute, NEW v, v # None,
         r.sets[a] = v \/ (r.sets[a] = None /\ UpToDate(a, v))
  PROVE  UpToDate(a, v)'
<1>1. /\ newest' = newest /\ overtaken' = overtaken /\ store' = store
  BY DEF cloudVars
<1>2. r.n \in Nat /\ r \in ReportSet
  BY DEF Published, ReportSet
<1>3. CASE r.sets[a] = v
  <2>1. r \in Pending(a)' /\ r.n > newest'[a]
    BY <1>1, <1>3, PendingPublished
  <2>2. \A p \in Pending(a)' : p.n <= r.n
    <3>1. ASSUME NEW p \in Pending(a)' PROVE p.n <= r.n
      <4>1. p \in Pending(a) \/ p = r
        BY PendingPublished
      <4>2. CASE p \in Pending(a)
        <5>1. p.n < r.n /\ p.n \in Nat
          BY <4>2, PendingPublished DEF Pending, CloudType, Numbered
        <5> QED
          BY <1>2, <5>1
      <4> QED
        BY <1>2, <4>1, <4>2
    <3> QED
      BY <3>1
  <2> QED
    BY <1>3, <2>1, <2>2 DEF UpToDate
<1>4. CASE r.sets[a] = None /\ UpToDate(a, v)
  <2>1. Pending(a)' = Pending(a)
    BY <1>4, PendingPublished
  <2> QED
    BY <1>1, <1>4, <2>1 DEF UpToDate
<1> QED
  BY <1>3, <1>4

\* Every row that a report tells of is written, except for a value that is the
\* same.
LEMMA WritesAll ==
  ASSUME CloudType, NEW m \in reports, NEW value, NEW a \in Attribute,
         m.sets[a] # None
  PROVE  \/ RowOf(a) \in Writes(m, value)
         \/ /\ a = "value" /\ m.type = "properties" /\ Writes(m, value) = {}
            /\ m.sets["value"] = value
<1>1. m \in ReportSet
  BY DEF CloudType
<1>2. CASE a = "value"
  <2>1. m.type \in {"event", "properties"}
    BY <1>1, <1>2 DEF ReportSet
  <2>2. CASE m.type = "event"
    BY <1>2, <2>2 DEF Writes, Row, RowOf
  <2>3. CASE m.type = "properties"
    <3>1. m.sets["status"] = None
      BY <1>1, <2>3 DEF ReportSet
    <3>2. "device" \notin Writes(m, value)
      BY <2>3, <3>1 DEF Writes
    <3>3. m.sets["value"] # value => "property" \in Writes(m, value)
      BY <2>3 DEF Writes, Row
    <3>4. m.sets["value"] = value => "property" \notin Writes(m, value)
      BY <2>3 DEF Writes
    <3>5. Writes(m, value) \subseteq {"property", "device"}
      BY DEF Writes, Row
    <3> QED
      BY <1>2, <2>3, <3>2, <3>3, <3>4, <3>5 DEF RowOf
  <2> QED
    BY <2>1, <2>2, <2>3
<1>3. CASE a = "status"
  BY <1>3 DEF Writes, Row, RowOf
<1>4. CASE a = "connected"
  <2>1. m.type = "presence"
    BY <1>1, <1>4 DEF ReportSet
  <2> QED
    BY <1>4, <2>1 DEF Writes, Row, RowOf
<1> QED
  BY <1>2, <1>3, <1>4 DEF Attribute

LEMMA PendingStart ==
  ASSUME CloudType, NEW m \in reports, NEW value, Starts(m, value), NEW a \in Attribute
  PROVE  /\ \A p : p \in Pending(a)' <=>
                     p \in Pending(a) /\ ~(p = m /\ Writes(m, value) = {})
         /\ m.sets[a] # None => m \in Pending(a)
<1> DEFINE k == Begun(m, value)
           none == Writes(m, value) = {}
<1>1. /\ reports' = reports \ {m} /\ running' = running \cup Unfinished(k)
  BY DEF Starts
<1>2. /\ k.report = m /\ k.writes = Writes(m, value)
      /\ m \in Reports
  BY BegunType DEF Begun
<1> HIDE DEF k
<1>3. \A l \in running' : l \in running \/ l = k
  BY <1>1 DEF Unfinished
<1>4. ~none => k \in running'
  BY <1>1, <1>2 DEF Unfinished
<1>5. \A i \in running : i \in running' /\ i.report # m
  BY <1>1 DEF CloudType, Numbered
<1>6. m.sets[a] # None => m \in Pending(a)
  BY <1>2 DEF Pending
<1>7. ASSUME NEW p \in Pending(a)' PROVE p \in Pending(a) /\ ~(p = m /\ none)
  <2>1. p.sets[a] # None
    BY DEF Pending
  <2>2. p \in reports' \/ \E i \in running' : i.report = p /\ RowOf(a) \in i.writes
    BY DEF Pending
  <2>3. CASE p \in reports'
    BY <1>1, <2>1, <2>3 DEF Pending, Reports
  <2>4. ASSUME NEW i \in running', i.report = p, RowOf(a) \in i.writes
        PROVE  p \in Pending(a) /\ ~(p = m /\ none)
    <3>1. CASE i \in running
      BY <1>5, <2>1, <2>4, <3>1 DEF Pending, Reports
    <3>2. CASE i = k
      BY <1>2, <1>6, <2>1, <2>4, <3>2
    <3> QED
      BY <1>3, <3>1, <3>2
  <2> QED
    BY <2>2, <2>3, <2>4
<1>8. ASSUME NEW p \in Pending(a), ~(p = m /\ none) PROVE p \in Pending(a)'
  <2>1. p.sets[a] # None
    BY DEF Pending
  <2>2. p \in reports \/ \E i \in running : i.report = p /\ RowOf(a) \in i.writes
    BY DEF Pending
  <2>3. CASE p \in reports /\ p # m
    BY <1>1, <2>1, <2>3 DEF Pending, Reports
  <2>4. CASE p = m
    <3>1. RowOf(a) \in Writes(m, value) /\ k \in running'
      BY <1>4, <1>8, <2>1, <2>4, WritesAll
    <3> QED
      BY <1>2, <2>1, <2>4, <3>1 DEF Pending, Reports
  <2>5. ASSUME NEW i \in running, i.report = p, RowOf(a) \in i.writes
        PROVE  p \in Pending(a)'
    BY <1>5, <2>1, <2>5 DEF Pending, Reports
  <2> QED
    BY <2>2, <2>3, <2>4, <2>5
<1> QED
  BY <1>6, <1>7, <1>8

LEMMA UpToDateStart ==
  ASSUME CloudType, NEW m \in reports, NEW value, Starts(m, value), NEW a \in Attribute,
         NEW v, UpToDate(a, v)
  PROVE  UpToDate(a, v)'
<1> DEFINE none == Writes(m, value) = {}
<1>1. /\ newest' = [b \in Attribute |-> IF b \in Unwritten(m, value) THEN m.n
                                                                  ELSE newest[b]]
      /\ overtaken' = (overtaken \ Confirmed(m, value))
                         \cup (Unwritten(m, value) \ Confirmed(m, value))
      /\ store' = store /\ Confirmed(m, value) \subseteq Unwritten(m, value)
  BY BegunType DEF Starts
<1>2. m \in Reports /\ m.n \in Nat /\ newest[a] \in Nat
  BY DEF CloudType, Reports, Numbered
<1>3. \A p \in Pending(a) : p \in Reports /\ p.n \in Nat /\ (p.n = m.n => p = m)
  BY <1>2 DEF Pending, CloudType, Numbered
<1>4. CASE a \in Unwritten(m, value)
  <2>1. /\ m.n > newest[a] /\ none /\ newest'[a] = m.n
        /\ a \in overtaken' \/ store'[a] = m.sets[a]
    BY <1>1, <1>4, BegunType
  <2>2. m \in Pending(a)
    <3>1. a = "value" /\ m.type = "properties" /\ m \in ReportSet
      BY <1>4, BegunType
    <3> QED
      BY <3>1, PendingStart DEF ReportSet
  <2>3. PICK w \in Pending(a) :
          w.sets[a] = v /\ w.n > newest[a] /\ \A p \in Pending(a) : p.n <= w.n
    <3>1. ~(m.n < newest[a])
      BY <1>2, <2>1
    <3> QED
      BY <2>2, <3>1 DEF UpToDate
  <2>4. CASE w = m
    <3>1. ASSUME NEW p \in Pending(a)' PROVE p.n < newest'[a]
      <4>1. p \in Pending(a) /\ p # m
        BY <2>1, PendingStart
      <4> QED
        BY <1>2, <1>3, <2>1, <2>3, <2>4, <4>1
    <3>2. a \in overtaken' \/ store'[a] = v
      BY <2>1, <2>3, <2>4
    <3> QED
      BY <3>1, <3>2 DEF UpToDate
  <2>5. CASE w # m
    <3>1. w \in Pending(a)' /\ w.n > newest'[a]
      BY <1>2, <1>3, <2>1, <2>2, <2>3, <2>5, PendingStart
    <3>2. \A p \in Pending(a)' : p.n <= w.n
      BY <2>3, PendingStart
    <3> QED
      BY <2>3, <3>1, <3>2 DEF UpToDate
  <2> QED
    BY <2>4, <2>5
<1>5. CASE a \notin Unwritten(m, value)
  <2>1. /\ newest'[a] = newest[a] /\ (a \in overtaken' <=> a \in overtaken)
        /\ store'[a] = store[a]
    BY <1>1, <1>5
  <2>2. CASE \A p \in Pending(a) : p.n < newest[a]
    <3>1. ASSUME a \in overtaken \/ store[a] = v PROVE UpToDate(a, v)'
      BY <2>1, <2>2, <3>1, PendingStart DEF UpToDate
    <3>2. ASSUME NEW w \in Pending(a), w.n > newest[a] PROVE FALSE
      BY <1>2, <1>3, <2>2, <3>2
    <3> QED
      BY <3>1, <3>2 DEF UpToDate
  <2>3. ASSUME NEW w \in Pending(a), w.sets[a] = v, w.n > newest[a],
               \A p \in Pending(a) : p.n <= w.n
        PROVE  UpToDate(a, v)'
    <3>1. ~(w = m /\ none)
      <4>1. ASSUME w = m, none PROVE FALSE
        <5>1. w.sets[a] # None
          BY DEF Pending
        <5>2. a = "value" /\ m.type = "properties"
          BY <4>1, <5>1, WritesAll
        <5> QED
          BY <1>5, <2>3, <4>1, <5>2 DEF Unwritten
      <4> QED
        BY <4>1
    <3>2. w \in Pending(a)' /\ \A p \in Pending(a)' : p.n <= w.n
      BY <2>3, <3>1, PendingStart
    <3> QED
      BY <2>1, <2>3, <3>2 DEF UpToDate
  <2> QED
    BY <2>2, <2>3 DEF UpToDate
<1> QED
  BY <1>4, <1>5

LEMMA PendingGoes ==
  ASSUME CloudType, NEW i \in running, NEW j, Goes(i, j), NEW a \in Attribute
  PROVE  \A p : p \in Pending(a)' <=>
                  p \in Pending(a) /\ ~(p = i.report /\ RowOf(a) \notin j.writes)
<1>1. /\ reports' = reports /\ running' = (running \ {i}) \cup Unfinished(j)
      /\ j.report = i.report /\ j.writes \subseteq i.writes
  BY DEF Goes
<1>2. \A k \in running' : k \in running \ {i} \/ k = j
  BY <1>1 DEF Unfinished
<1>3. \A k \in running \ {i} : k \in running' /\ k.report # i.report
  BY <1>1 DEF CloudType, Numbered
<1>4. \A row : row \in j.writes => j \in running'
  BY <1>1 DEF Unfinished
<1>5. i.report \notin reports
  BY DEF CloudType, Numbered
<1>6. ASSUME NEW p \in Pending(a)'
      PROVE  p \in Pending(a) /\ ~(p = i.report /\ RowOf(a) \notin j.writes)
  <2>1. p.sets[a] # None
    BY DEF Pending
  <2>2. p \in reports' \/ \E k \in running' : k.report = p /\ RowOf(a) \in k.writes
    BY DEF Pending
  <2>3. CASE p \in reports'
    BY <1>1, <1>5, <2>1, <2>3 DEF Pending, Reports
  <2>4. ASSUME NEW k \in running', k.report = p, RowOf(a) \in k.writes
        PROVE  p \in Pending(a) /\ ~(p = i.report /\ RowOf(a) \notin j.writes)
    <3>1. CASE k \in running \ {i}
      BY <1>3, <2>1, <2>4, <3>1 DEF Pending, Reports
    <3>2. CASE k = j
      BY <1>1, <2>1, <2>4, <3>2 DEF Pending, Reports
    <3> QED
      BY <1>2, <3>1, <3>2
  <2> QED
    BY <2>2, <2>3, <2>4
<1>7. ASSUME NEW p \in Pending(a), ~(p = i.report /\ RowOf(a) \notin j.writes)
      PROVE  p \in Pending(a)'
  <2>1. p.sets[a] # None
    BY DEF Pending
  <2>2. p \in reports \/ \E k \in running : k.report = p /\ RowOf(a) \in k.writes
    BY DEF Pending
  <2>3. CASE p \in reports
    BY <1>1, <2>1, <2>3 DEF Pending, Reports
  <2>4. ASSUME NEW k \in running, k.report = p, RowOf(a) \in k.writes
        PROVE  p \in Pending(a)'
    <3>1. CASE k # i
      BY <1>3, <2>1, <2>4, <3>1 DEF Pending, Reports
    <3>2. CASE k = i
      <4>1. RowOf(a) \in j.writes /\ j \in running' /\ j.report = p
        BY <1>1, <1>4, <1>7, <2>4, <3>2
      <4> QED
        BY <2>1, <4>1 DEF Pending, Reports
    <3> QED
      BY <3>1, <3>2
  <2> QED
    BY <2>2, <2>3, <2>4
<1> QED
  BY <1>6, <1>7

\* A question or a push writes nothing.
LEMMA UpToDateGoesOn ==
  ASSUME CloudType, NEW i \in running, NEW j, Goes(i, j), j.writes = i.writes,
         UNCHANGED <<store, updated, by, newest, overtaken>>,
         NEW a \in Attribute, NEW v, UpToDate(a, v)
  PROVE  UpToDate(a, v)'
<1>1. ASSUME NEW p \in Pending(a) PROVE ~(p = i.report /\ RowOf(a) \notin i.writes)
  BY DEF Pending, CloudType, Numbered
<1>2. \A p : p \in Pending(a)' <=> p \in Pending(a)
  BY <1>1, PendingGoes
<1> QED
  BY <1>2 DEF UpToDate
\* What the write of a row does to an attribute.
LEMMA UpdateRowAt ==
  ASSUME CloudType, NEW m \in Reports, m \in ReportSet, NEW row \in Row,
         UpdateRow(m, row), NEW a \in Attribute
  PROVE  /\ ~(RowOf(a) = row /\ m.sets[a] # None) =>
              /\ newest'[a] = newest[a] /\ store'[a] = store[a] /\ by'[a] = by[a]
              /\ a \in overtaken' <=> a \in overtaken
         /\ RowOf(a) = row /\ m.sets[a] # None /\ m.n >= newest[a] =>
              /\ newest'[a] = m.n
              /\ \/ /\ store'[a] = m.sets[a] /\ by'[a] = m.n /\ a \notin overtaken'
                    /\ m.time >= updated[row] /\ updated'[row] = m.time
                 \/ /\ store'[a] = store[a] /\ by'[a] = by[a] /\ a \in overtaken'
                    /\ ~(m.time >= updated[row]) /\ updated' = updated
         /\ RowOf(a) = row /\ m.sets[a] # None /\ ~(m.n >= newest[a]) =>
              /\ newest'[a] = newest[a]
              /\ \/ /\ store'[a] = m.sets[a] /\ by'[a] = m.n /\ a \in overtaken'
                    /\ m.time >= updated[row] /\ updated'[row] = m.time
                 \/ /\ store'[a] = store[a] /\ by'[a] = by[a]
                    /\ (a \in overtaken' <=> a \in overtaken)
                    /\ ~(m.time >= updated[row]) /\ updated' = updated
<1> DEFINE set == {b \in Columns(row) : m.sets[b] # None}
           newer == {b \in set : m.n >= newest[b]}
<1>1. a \in set <=> RowOf(a) = row /\ m.sets[a] # None
  BY ColumnsRow
<1>2. a \in newer <=> a \in set /\ m.n >= newest[a]
  OBVIOUS
<1>3. newest' = [b \in Attribute |-> IF b \in newer THEN m.n ELSE newest[b]]
  BY DEF UpdateRow
<1>4. CASE m.time >= updated[row]
  <2>1. /\ store' = [b \in Attribute |-> IF b \in set THEN m.sets[b] ELSE store[b]]
        /\ by' = [b \in Attribute |-> IF b \in set THEN m.n ELSE by[b]]
        /\ updated' = [updated EXCEPT ![row] = m.time]
        /\ overtaken' = (overtaken \ newer) \cup (set \ newer)
    BY <1>4 DEF UpdateRow
  <2>2. updated'[row] = m.time
    BY <2>1 DEF CloudType
  <2> HIDE DEF set, newer
  <2> QED
    BY <1>1, <1>2, <1>3, <1>4, <2>1, <2>2
<1>5. CASE ~(m.time >= updated[row])
  <2>1. /\ UNCHANGED <<store, by, updated>>
        /\ overtaken' = overtaken \cup newer
    BY <1>5 DEF UpdateRow
  <2> HIDE DEF set, newer
  <2> QED
    BY <1>1, <1>2, <1>3, <1>5, <2>1
<1> QED
  BY <1>4, <1>5

\* A write takes the report, and no other, off what is pending for the row.
LEMMA PendingWrite ==
  ASSUME CloudType, NEW i \in running, NEW row \in Row, Write(i, row),
         NEW a \in Attribute
  PROVE  /\ \A p : p \in Pending(a)' <=>
                     p \in Pending(a) /\ ~(p = i.report /\ RowOf(a) = row)
         /\ RowOf(a) = row /\ i.report.sets[a] # None => i.report \in Pending(a)
         /\ i.report.sets[a] = None => i.report \notin Pending(a)
<1>1. i \in Work /\ row \in i.writes
  BY DEF CloudType, Write
<1>2. PICK j : Goes(i, j) /\ j.writes = i.writes \ {row}
  <2>1. /\ [i EXCEPT !.writes = @ \ {row}].writes = i.writes \ {row}
        /\ [i EXCEPT !.writes = @ \ {row}, !.pushes = FALSE].writes = i.writes \ {row}
    BY <1>1 DEF Work
  <2> QED
    BY <2>1, WriteGoes
<1>3. i.report \in Pending(a) => RowOf(a) \in i.writes
  BY DEF Pending, CloudType, Numbered
<1>4. ASSUME NEW p
      PROVE  p \in Pending(a)' <=> p \in Pending(a) /\ ~(p = i.report /\ RowOf(a) = row)
  BY <1>2, <1>3, PendingGoes
<1>5. RowOf(a) = row /\ i.report.sets[a] # None => i.report \in Pending(a)
  BY <1>1 DEF Pending, Reports
<1>6. i.report.sets[a] = None => i.report \notin Pending(a)
  BY DEF Pending
<1> QED
  BY <1>4, <1>5, <1>6

LEMMA UpToDateWrite ==
  ASSUME CloudType, NEW i \in running, NEW row \in Row, Write(i, row),
         NEW a \in Attribute, NEW v, UpToDate(a, v), a \notin lost'
  PROVE  UpToDate(a, v)'
<1> DEFINE m == i.report
<1>1. m \in ReportSet /\ m \in Reports /\ m.n \in Nat
  BY WriteGoes DEF ReportSet
<1>2. \A p \in Pending(a) : p \in Reports /\ p.n \in Nat /\ (p.n = m.n => p = m)
  BY <1>1 DEF Pending, CloudType, Numbered
<1>3. newest[a] \in Nat
  BY DEF CloudType
<1>4. CASE /\ \A p : p \in Pending(a)' <=> p \in Pending(a)
           /\ newest'[a] = newest[a] /\ store'[a] = store[a]
           /\ a \in overtaken' <=> a \in overtaken
  BY <1>4 DEF UpToDate
<1>5. CASE UNCHANGED <<store, by, updated, newest, overtaken>>
             /\ lost' = lost \cup Columns(row) \cup {"view"}
  <2>1. RowOf(a) # row
    BY <1>5, ColumnsRow
  <2> QED
    BY <1>4, <1>5, <2>1, PendingWrite
<1>6. CASE UpdateRow(m, row)
  <2>1. CASE ~(RowOf(a) = row /\ m.sets[a] # None)
    BY <1>1, <1>4, <1>6, <2>1, UpdateRowAt, PendingWrite
  <2>2. CASE RowOf(a) = row /\ m.sets[a] # None
    <3>1. /\ m \in Pending(a)
          /\ \A p : p \in Pending(a)' <=> p \in Pending(a) /\ p # m
      BY <2>2, PendingWrite
    <3>2. CASE \A p \in Pending(a) : p.n < newest[a]
      <4>1. ~(m.n >= newest[a])
        BY <1>1, <1>3, <3>1, <3>2
      <4>2. /\ newest'[a] = newest[a]
            /\ \/ a \in overtaken'
               \/ store'[a] = store[a] /\ (a \in overtaken <=> a \in overtaken')
        BY <1>1, <1>6, <2>2, <4>1, UpdateRowAt
      <4>3. a \in overtaken \/ store[a] = v
        <5>1. ASSUME NEW w \in Pending(a), w.n > newest[a] PROVE FALSE
          BY <1>2, <1>3, <3>2, <5>1
        <5> QED
          BY <5>1 DEF UpToDate
      <4> QED
        BY <3>1, <3>2, <4>2, <4>3 DEF UpToDate
    <3>3. ASSUME NEW w \in Pending(a), w.sets[a] = v, w.n > newest[a],
                 \A p \in Pending(a) : p.n <= w.n
          PROVE  UpToDate(a, v)'
      <4>1. CASE w = m
        <5>1. newest'[a] = m.n /\ (a \in overtaken' \/ store'[a] = v)
          BY <1>1, <1>3, <1>6, <2>2, <3>3, <4>1, UpdateRowAt
        <5>2. \A p \in Pending(a)' : p.n < newest'[a]
          BY <1>1, <1>2, <3>1, <3>3, <4>1, <5>1
        <5> QED
          BY <5>1, <5>2 DEF UpToDate
      <4>2. CASE w # m
        <5>1. w \in Pending(a)' /\ \A p \in Pending(a)' : p.n <= w.n
          BY <3>1, <3>3, <4>2
        <5>2. m.n < w.n
          BY <1>1, <1>2, <3>1, <3>3, <4>2
        <5>3. newest'[a] \in {newest[a], m.n}
          BY <1>1, <1>6, <2>2, UpdateRowAt
        <5> QED
          BY <3>3, <5>1, <5>2, <5>3 DEF UpToDate
      <4> QED
        BY <4>1, <4>2
    <3> QED
      BY <3>2, <3>3 DEF UpToDate
  <2> QED
    BY <2>1, <2>2
<1> QED
  BY <1>5, <1>6, WriteGoes

\* What a step that publishes nothing does to the store.
LEMMA UpToDateQuiet ==
  ASSUME CloudType, CloudStep, \A r : ~Published(r),
         NEW a \in Attribute, NEW v, UpToDate(a, v), a \notin lost'
  PROVE  UpToDate(a, v)'
<1>1. CASE UNCHANGED <<sent, reports, cloudVars>>
  BY <1>1, UpToDateSame
<1>2. ASSUME NEW m \in reports, Start(m) PROVE UpToDate(a, v)'
  BY <1>2, StartStep, UpToDateStart
<1>3. ASSUME NEW i \in running, NEW row \in Row, Write(i, row) PROVE UpToDate(a, v)'
  BY <1>3, UpToDateWrite
<1>4. ASSUME NEW i \in running, RequestDeviceState(i) PROVE UpToDate(a, v)'
  <2>1. i \in Work
    BY DEF CloudType
  <2>2. [i EXCEPT !.asks = FALSE].writes = i.writes
    BY <2>1 DEF Work
  <2> QED
    BY <1>4, <2>2, AsksGoes, UpToDateGoesOn
<1>5. ASSUME NEW i \in running, Push(i) PROVE UpToDate(a, v)'
  <2>1. i \in Work
    BY DEF CloudType
  <2>2. [i EXCEPT !.pushes = FALSE].writes = i.writes
    BY <2>1 DEF Work
  <2> QED
    BY <1>5, <2>2, PushGoes, UpToDateGoesOn
<1> QED
  BY <1>1, <1>2, <1>3, <1>4, <1>5 DEF CloudStep
------------------------------------------------------------------------------
(* What the device has still to tell *)

\* One queue before another: of what both tell, the later one counts.
LEMMA QueueJoin ==
  ASSUME NEW s \in Seq(Event), NEW t \in Seq(Event), NEW a \in Attribute
  PROVE  /\ \A v : TellsLast(t, a, v) => TellsLast(s \o t, a, v)
         /\ Telling(t, a) = {} => \A v : TellsLast(s, a, v) => TellsLast(s \o t, a, v)
         /\ \A v : TellsLast(s \o t, a, v) =>
                     \/ TellsLast(t, a, v)
                     \/ Telling(t, a) = {} /\ TellsLast(s, a, v)
         /\ Telling(s \o t, a) = {} <=> Telling(s, a) = {} /\ Telling(t, a) = {}
<1> DEFINE q == s \o t
           l == Len(s)
<1>1. /\ q \in Seq(Event) /\ l \in Nat /\ Len(t) \in Nat /\ Len(q) = l + Len(t)
      /\ \A k \in 1 .. l : q[k] = s[k]
      /\ \A k \in 1 .. Len(t) : q[l + k] = t[k]
  OBVIOUS
<1>2. /\ Telling(s, a) \subseteq 1 .. l /\ Telling(t, a) \subseteq 1 .. Len(t)
      /\ Telling(q, a) \subseteq 1 .. l + Len(t)
  BY <1>1, TellingFinite
<1> HIDE DEF q, l
<1>3. DOMAIN s = 1 .. l /\ DOMAIN t = 1 .. Len(t) /\ DOMAIN q = 1 .. l + Len(t)
  BY <1>1 DEF l
<1>4. \A k \in Telling(s, a) : k \in Telling(q, a) /\ q[k][a] = s[k][a] /\ k <= l
  BY <1>1, <1>2, <1>3 DEF Telling
<1>5. \A k \in Telling(t, a) : l + k \in Telling(q, a) /\ q[l + k][a] = t[k][a]
  BY <1>1, <1>2, <1>3 DEF Telling
<1>6. ASSUME NEW k \in Telling(q, a)
      PROVE  IF k <= l THEN k \in Telling(s, a) /\ s[k][a] = q[k][a]
             ELSE k - l \in Telling(t, a) /\ t[k - l][a] = q[k][a]
  <2>1. k \in 1 .. l + Len(t) /\ q[k][a] # None
    BY <1>2 DEF Telling
  <2>2. CASE k <= l
    BY <1>1, <1>3, <2>1, <2>2 DEF Telling
  <2>3. CASE ~(k <= l)
    <3>1. k - l \in 1 .. Len(t) /\ l + (k - l) = k
      BY <1>1, <2>1, <2>3
    <3>2. q[k] = t[k - l]
      BY <1>1, <3>1
    <3> QED
      BY <1>3, <2>1, <2>3, <3>1, <3>2 DEF Telling
  <2> QED
    BY <2>2, <2>3
<1>7. ASSUME NEW v, TellsLast(t, a, v) PROVE TellsLast(q, a, v)
  <2>1. PICK k \in Telling(t, a) : t[k][a] = v /\ \A j \in Telling(t, a) : j <= k
    BY <1>7 DEF TellsLast
  <2>2. ASSUME NEW j \in Telling(q, a) PROVE j <= l + k
    <3>1. j \in Nat /\ k \in Nat
      BY <1>1, <1>2
    <3> QED
      BY <1>1, <1>6, <2>1, <3>1
  <2> QED
    BY <1>5, <2>1, <2>2 DEF TellsLast
<1>8. ASSUME Telling(t, a) = {}, NEW v, TellsLast(s, a, v) PROVE TellsLast(q, a, v)
  <2>1. PICK k \in Telling(s, a) : s[k][a] = v /\ \A j \in Telling(s, a) : j <= k
    BY <1>8 DEF TellsLast
  <2>2. \A j \in Telling(q, a) : j <= k
    BY <1>6, <1>8, <2>1
  <2> QED
    BY <1>4, <2>1, <2>2 DEF TellsLast
<1>9. ASSUME NEW v, TellsLast(q, a, v)
      PROVE  TellsLast(t, a, v) \/ (Telling(t, a) = {} /\ TellsLast(s, a, v))
  <2>1. PICK k \in Telling(q, a) : q[k][a] = v /\ \A j \in Telling(q, a) : j <= k
    BY <1>9 DEF TellsLast
  <2>2. k \in Nat
    BY <1>1, <1>2
  <2>3. CASE k <= l
    <3>1. Telling(t, a) = {}
      <4>1. ASSUME NEW j \in Telling(t, a) PROVE FALSE
        <5>1. j \in 1 .. Len(t) /\ l + j <= k
          BY <1>2, <1>5, <2>1
        <5> QED
          BY <1>1, <2>2, <2>3, <5>1
      <4> QED
        BY <4>1
    <3>2. k \in Telling(s, a) /\ s[k][a] = v /\ \A j \in Telling(s, a) : j <= k
      BY <1>4, <1>6, <2>1, <2>3
    <3> QED
      BY <3>1, <3>2 DEF TellsLast
  <2>4. CASE ~(k <= l)
    <3>1. k - l \in Telling(t, a) /\ t[k - l][a] = v
      BY <1>6, <2>1, <2>4
    <3>2. ASSUME NEW j \in Telling(t, a) PROVE j <= k - l
      <4>1. l + j <= k /\ j \in Nat
        BY <1>2, <1>5, <2>1
      <4> QED
        BY <1>1, <2>2, <4>1
    <3> QED
      BY <3>1, <3>2 DEF TellsLast
  <2> QED
    BY <2>3, <2>4
<1>10. Telling(q, a) = {} <=> Telling(s, a) = {} /\ Telling(t, a) = {}
  BY <1>4, <1>5, <1>6
<1> QED
  BY <1>7, <1>8, <1>9, <1>10 DEF q

LEMMA TellsSingle ==
  ASSUME NEW e \in Event, NEW a \in Attribute
  PROVE  /\ <<e>> \in Seq(Event)
         /\ e[a] # None => TellsLast(<<e>>, a, e[a])
         /\ e[a] = None => Telling(<<e>>, a) = {}
BY DEF TellsLast, Telling

\* All the events that the device has not published, as far as it knows.
Queue == batch \o events

LEMMA QueueType == ASSUME TypeInv PROVE Queue \in Seq(Event)
BY DEF TypeInv, DeviceType, Queue

\* The queue tells v of an attribute, or else the store is up to date with it.
Told(a, v) ==
  \/ TellsLast(Queue, a, v)
  \/ Telling(Queue, a) = {} /\ UpToDate(a, v)

\* The value will be asked for, or is.
RefreshComing ==
  \/ status # "Ready"
  \/ Contains(Queue, StatusIs("Ready"))
  \/ \E m \in reports : m.ready
  \/ \E i \in running : i.asks
  \/ Contains(requests, "getProperties")
  \/ \E k \in DOMAIN inbound : k > handled /\ inbound[k] = "getProperties"

ValueInv ==
  \/ "value" \in lost
  \/ \E b \in {on} : Told("value", b)
  \/ Telling(Queue, "value") = {} /\ RefreshComing

StatusInv == "status" \in lost \/ \E s \in {status} : Told("status", s)

ConnectedInv == "connected" \in lost \/ \E b \in {online} : UpToDate("connected", b)

SettlingInv == ValueInv /\ StatusInv /\ ConnectedInv

\* An event that there is room for is told last.
LEMMA ToldRaise ==
  ASSUME TypeInv, NEW e \in Event, events' = Append(events, e), batch' = batch,
         UNCHANGED <<reports, cloudVars>>, NEW a \in Attribute
  PROVE  /\ Queue' = Queue \o <<e>>
         /\ e[a] # None => Told(a, e[a])'
         /\ e[a] = None => \A v : Told(a, v) => Told(a, v)'
         /\ e[a] = None /\ Telling(Queue, a) = {} => (Telling(Queue, a) = {})'
<1>1. Queue' = Queue \o <<e>>
  <2>1. events' = events \o <<e>>
    BY DEF TypeInv, DeviceType
  <2>2. <<e>> \in Seq(Event) /\ events \in Seq(Event) /\ batch \in Seq(Event)
    BY DEF TypeInv, DeviceType
  <2>3. batch \o (events \o <<e>>) = (batch \o events) \o <<e>>
    BY <2>2, ConcatAssociative
  <2> QED
    BY <2>1, <2>3 DEF Queue
<1> DEFINE q == Queue
<1>2. q \in Seq(Event) /\ Queue' = q \o <<e>>
  BY <1>1, QueueType
<1>3. /\ <<e>> \in Seq(Event)
      /\ e[a] # None => TellsLast(<<e>>, a, e[a])
      /\ e[a] = None => Telling(<<e>>, a) = {}
  BY TellsSingle
<1> HIDE DEF q
<1>4. e[a] # None => TellsLast(q \o <<e>>, a, e[a])
  BY <1>2, <1>3, QueueJoin
<1>5. e[a] = None /\ Telling(q, a) = {} => Telling(q \o <<e>>, a) = {}
  BY <1>2, <1>3, QueueJoin
<1>6. ASSUME e[a] = None, NEW v, TellsLast(q, a, v) PROVE TellsLast(q \o <<e>>, a, v)
  BY <1>2, <1>3, <1>6, QueueJoin
<1>7. ASSUME NEW v, UpToDate(a, v) PROVE UpToDate(a, v)'
  BY <1>7, UpToDateSame
<1>8. /\ \A v : TellsLast(Queue, a, v)' <=> TellsLast(q \o <<e>>, a, v)
      /\ (Telling(Queue, a) = {})' <=> Telling(q \o <<e>>, a) = {}
  BY <1>2 DEF TellsLast, Telling
<1> QED
  BY <1>1, <1>4, <1>5, <1>6, <1>7, <1>8 DEF Told, q

LEMMA ToldSame ==
  ASSUME UNCHANGED <<events, batch>>, NEW a \in Attribute
  PROVE  /\ Queue' = Queue
         /\ (Telling(Queue, a) = {})' <=> Telling(Queue, a) = {}
         /\ \A v : TellsLast(Queue, a, v)' <=> TellsLast(Queue, a, v)
BY DEF Queue, Telling, TellsLast
LEMMA ContainsJoin ==
  ASSUME NEW S, NEW s \in Seq(S), NEW t \in Seq(S), NEW e
  PROVE  Contains(s \o t, e) <=> Contains(s, e) \/ Contains(t, e)
<1>1. /\ Len(s \o t) = Len(s) + Len(t) /\ Len(s) \in Nat /\ Len(t) \in Nat
      /\ \A i \in 1 .. Len(s) + Len(t) :
           (s \o t)[i] = IF i <= Len(s) THEN s[i] ELSE t[i - Len(s)]
  BY ConcatProperties, LenProperties
<1>2. ASSUME Contains(s \o t, e) PROVE Contains(s, e) \/ Contains(t, e)
  <2>1. PICK i \in 1 .. Len(s) + Len(t) : (s \o t)[i] = e
    BY <1>1, <1>2 DEF Contains
  <2>2. CASE i <= Len(s)
    BY <1>1, <2>1, <2>2 DEF Contains
  <2>3. CASE ~(i <= Len(s))
    <3>1. i - Len(s) \in 1 .. Len(t) /\ t[i - Len(s)] = e
      BY <1>1, <2>1, <2>3
    <3> QED
      BY <3>1 DEF Contains
  <2> QED
    BY <2>2, <2>3
<1>3. ASSUME Contains(s, e) PROVE Contains(s \o t, e)
  <2>1. PICK i \in 1 .. Len(s) : s[i] = e
    BY <1>3 DEF Contains
  <2>2. i \in 1 .. Len(s) + Len(t) /\ (s \o t)[i] = e
    BY <1>1, <2>1
  <2> QED
    BY <1>1, <2>2 DEF Contains
<1>4. ASSUME Contains(t, e) PROVE Contains(s \o t, e)
  <2>1. PICK i \in 1 .. Len(t) : t[i] = e
    BY <1>4 DEF Contains
  <2>2. Len(s) + i \in 1 .. Len(s) + Len(t) /\ (s \o t)[Len(s) + i] = e
    BY <1>1, <2>1
  <2> QED
    BY <1>1, <2>2 DEF Contains
<1> QED
  BY <1>2, <1>3, <1>4

\* A published batch tells of what is then no longer in the queue.
LEMMA ToldPublish ==
  ASSUME TypeInv, PublishEvents, NEW a \in Attribute
  PROVE  /\ \A v : Told(a, v) /\ v # None => Told(a, v)'
         /\ Telling(Queue, a) = {} => (Telling(Queue, a) = {})'
         /\ RefreshComing => RefreshComing'
         /\ lost' = lost
<1>1. PICK k \in 0 .. Len(events) :
        LET all == batch \o SubSeq(events, 1, k)
        IN  /\ all \in Seq(Event)
            /\ events' = SubSeq(events, k + 1, Len(events))
            /\ lost' = lost
            /\ \/ batch' = <<>> /\ Publish(BatchReport(all))
               \/ batch' = all /\ Publish(BatchReport(all))
               \/ batch' = all /\ UNCHANGED <<sent, reports>>
  BY PublishEventsStep
<1> DEFINE first == SubSeq(events, 1, k)
           rest == SubSeq(events, k + 1, Len(events))
           all == batch \o first
           r == BatchReport(all)
           q == Queue
<1>2. /\ batch \in Seq(Event) /\ events \in Seq(Event) /\ Len(events) \in Nat
      /\ all \in Seq(Event)
  BY <1>1 DEF TypeInv, DeviceType
<1>3. first \in Seq(Event) /\ rest \in Seq(Event)
  <2>1. \A j \in 1 .. Len(events) : events[j] \in Event
    BY <1>2
  <2>2. first \in Seq(Event)
    BY <2>1, SubSeqProperties
  <2>3. \A j \in k + 1 .. Len(events) : events[j] \in Event
    BY <2>1
  <2>4. k + 1 \in Int /\ Len(events) \in Int
    BY <1>2
  <2>5. rest \in Seq(Event)
    BY <2>3, <2>4, SubSeqProperties
  <2> QED
    BY <2>2, <2>5
<1>4. q = all \o rest
  <2>1. first \o rest = events
    <3>1. 1 \in 1 .. Len(events) + 1 /\ k \in 1 - 1 .. Len(events)
            /\ Len(events) \in k .. Len(events)
      BY <1>2
    <3>2. first \o rest = SubSeq(events, 1, Len(events))
      BY <1>2, <3>1, ConcatAdjacentSubSeq
    <3> QED
      BY <1>2, <3>2, SubSeqFull
  <2> HIDE DEF first, rest
  <2>2. (batch \o first) \o rest = batch \o (first \o rest)
    BY <1>2, <1>3, ConcatAssociative
  <2> QED
    BY <2>1, <2>2 DEF Queue
<1>5. UNCHANGED <<on, status, inbound, handled, online, now, requests>>
        /\ UNCHANGED cloudVars /\ UNCHANGED running
  BY DEF PublishEvents, cloudVars
<1>6. CloudType
  BY DEF TypeInv
<1> HIDE DEF all, first, rest
<1>7. Queue' = batch' \o rest /\ lost' = lost
        /\ \/ batch' = <<>> /\ Publish(r)
           \/ batch' = all /\ Publish(r)
           \/ batch' = all /\ UNCHANGED <<sent, reports>>
  BY <1>1 DEF Queue, all, first, rest
<1> HIDE DEF r, q
<1>8. Publish(r) => Published(r) /\ r.sets = Said(all)
                      /\ r.ready = Contains(all, StatusIs("Ready"))
  BY <1>2, <1>6, BatchReportType DEF r
<1>9. Queue' = q \/ Queue' = rest
  <2>1. <<>> \o rest = rest
    BY <1>3, ConcatEmptySeq
  <2> QED
    BY <1>4, <1>7, <2>1
<1>10. \A v : TellsLast(q, a, v) => TellsLast(all \o rest, a, v)
  BY <1>4
<1>11. Telling(q, a) = {} => /\ (Telling(Queue, a) = {})'
                             /\ Telling(all, a) = {} /\ Telling(rest, a) = {}
  <2>1. Telling(q, a) = {} => Telling(all, a) = {} /\ Telling(rest, a) = {}
    BY <1>2, <1>3, <1>4, QueueJoin
  <2>2. Telling(q, a) = {} => Telling(Queue', a) = {}
    BY <1>9, <2>1
  <2>3. Telling(Queue', a) = {} => (Telling(Queue, a) = {})'
    BY DEF Telling
  <2> QED
    BY <2>1, <2>2, <2>3
<1>12. ASSUME NEW v, Told(a, v), v # None PROVE Told(a, v)'
  <2>1. CASE TellsLast(q, a, v)
    <3>1. ASSUME TellsLast(Queue', a, v) PROVE Told(a, v)'
      BY <3>1 DEF Told, TellsLast, Telling
    <3>2. CASE batch' = all
      BY <1>4, <1>7, <2>1, <3>1, <3>2
    <3>3. CASE batch' = <<>> /\ Publish(r)
      <4>1. Queue' = rest
        BY <1>3, <1>7, <3>3, ConcatEmptySeq
      <4>2. CASE TellsLast(rest, a, v)
        BY <3>1, <4>1, <4>2
      <4>3. CASE Telling(rest, a) = {} /\ TellsLast(all, a, v)
        <5>1. r.sets[a] = v
          BY <1>2, <1>8, <3>3, <4>3, SaidLast
        <5>2. UpToDate(a, v)'
          BY <1>5, <1>6, <1>8, <1>12, <3>3, <5>1, UpToDatePublished
        <5>3. (Telling(Queue, a) = {})'
          BY <4>1, <4>3 DEF Telling
        <5> QED
          BY <5>2, <5>3 DEF Told
      <4> QED
        BY <1>2, <1>3, <1>4, <2>1, <4>2, <4>3, QueueJoin
    <3> QED
      BY <1>7, <3>2, <3>3
  <2>2. CASE Telling(q, a) = {} /\ UpToDate(a, v)
    <3>1. ASSUME UpToDate(a, v)' PROVE Told(a, v)'
      BY <1>11, <2>2, <3>1 DEF Told
    <3>2. CASE UNCHANGED <<sent, reports>>
      BY <1>5, <2>2, <3>1, <3>2, UpToDateSame
    <3>3. CASE Publish(r)
      <4>1. r.sets[a] = None
        BY <1>8, <1>11, <2>2, <3>3, SaidNone
      <4> QED
        BY <1>5, <1>6, <1>8, <1>12, <2>2, <3>1, <3>3, <4>1, UpToDatePublished
    <3> QED
      BY <1>7, <3>2, <3>3
  <2> QED
    BY <1>12, <2>1, <2>2 DEF Told, q
<1>13. ASSUME RefreshComing PROVE RefreshComing'
  <2>1. ASSUME Contains(q, StatusIs("Ready")) PROVE RefreshComing'
    <3>1. CASE batch' = all
      <4>1. Contains(Queue', StatusIs("Ready"))
        BY <1>4, <1>7, <2>1, <3>1
      <4> QED
        BY <4>1 DEF RefreshComing, Contains, StatusIs, Nothing
    <3>2. CASE batch' = <<>> /\ Publish(r)
      <4>1. Contains(all, StatusIs("Ready")) \/ Contains(rest, StatusIs("Ready"))
        BY <1>2, <1>3, <1>4, <2>1, ContainsJoin
      <4>2. CASE Contains(all, StatusIs("Ready"))
        <5>1. r.ready /\ r \in reports'
          BY <1>8, <3>2, <4>2 DEF Published
        <5> QED
          BY <5>1 DEF RefreshComing
      <4>3. CASE Contains(rest, StatusIs("Ready"))
        <5>1. Queue' = rest
          BY <1>3, <1>7, <3>2, ConcatEmptySeq
        <5> QED
          BY <4>3, <5>1 DEF RefreshComing, Contains, StatusIs, Nothing
      <4> QED
        BY <4>1, <4>2, <4>3
    <3> QED
      BY <1>7, <3>1, <3>2
  <2>2. reports \subseteq reports'
    BY <1>7, <1>8 DEF Published
  <2> QED
    BY <1>5, <1>13, <2>1, <2>2 DEF RefreshComing, Contains, q
<1> QED
  BY <1>7, <1>11, <1>12, <1>13 DEF q
LEMMA RaiseFits ==
  ASSUME TypeInv, NEW e \in Event, Raise(e)
  PROVE  \/ events' = Append(events, e) /\ lost' = lost
         \/ events' = events /\ lost' = lost \cup About(e)
<1>1. events \in Seq(Event)
  BY DEF TypeInv, DeviceType
<1>2. Append(events, e) # events
  BY <1>1
<1> QED
  BY <1>2 DEF Raise, Buffered

\* A change of the property is told, or lost.
LEMMA SettlingChange ==
  ASSUME TypeInv, SettlingInv, NEW b \in BOOLEAN, Change(b),
         b # on, UNCHANGED <<status, batch, online, reports, cloudVars>>
  PROVE  SettlingInv'
<1>1. on' = b
  BY DEF Change
<1>2. UNCHANGED <<reports, cloudVars>>
  OBVIOUS
<1>3. \A a \in Attribute : \A v : UpToDate(a, v) => UpToDate(a, v)'
  BY <1>2, UpToDateSame
<1>4. {"value", "status", "connected"} = Attribute
  BY DEF Attribute
<1>5. CASE events' = events /\ lost' = lost \cup {"value"}
  <2>1. UNCHANGED <<events, batch>>
    BY <1>5
  <2>2. ASSUME NEW a \in Attribute, NEW v, Told(a, v) PROVE Told(a, v)'
    BY <1>3, <2>1, <2>2, ToldSame DEF Told
  <2>3. ValueInv'
    BY <1>5 DEF ValueInv
  <2> QED
    BY <1>3, <1>4, <1>5, <2>2, <2>3 DEF SettlingInv, StatusInv, ConnectedInv
<1>6. CASE events' = Append(events, ValueChanged(b)) /\ lost' = lost
  <2>1. /\ ValueChanged(b) \in Event /\ ValueChanged(b)["value"] = b
        /\ ValueChanged(b)["status"] = None /\ b # None
    BY ValueEvent, NoneApart
  <2>2. Told("value", ValueChanged(b)["value"])'
    BY <1>2, <1>4, <1>6, <2>1, ToldRaise
  <2>3. \A v : Told("status", v) => Told("status", v)'
    BY <1>2, <1>4, <1>6, <2>1, ToldRaise
  <2>4. ValueInv'
    BY <1>1, <2>1, <2>2 DEF ValueInv
  <2> QED
    BY <1>3, <1>4, <1>6, <2>3, <2>4 DEF SettlingInv, StatusInv, ConnectedInv
<1>7. ValueChanged(b) \in Event /\ Raise(ValueChanged(b))
        /\ About(ValueChanged(b)) = {"value"}
  BY ValueEvent, NoneApart DEF Change, About
<1> QED
  BY <1>5, <1>6, <1>7, RaiseFits

\* So is a change of the status; a Ready event brings a refresh.
LEMMA SettlingStatus ==
  ASSUME TypeInv, SettlingInv, NEW s \in Status, SetStatus(s)
  PROVE  SettlingInv'
<1>1. status' = s /\ UNCHANGED <<on, batch, online>> /\ UNCHANGED <<reports, cloudVars>>
        /\ Raise(StatusIs(s))
  BY DEF SetStatus, brokerVars
<1>2. \A a \in Attribute : \A v : UpToDate(a, v) => UpToDate(a, v)'
  BY <1>1, UpToDateSame
<1>3. {"value", "status", "connected"} = Attribute
  BY DEF Attribute
<1>4. /\ StatusIs(s) \in Event /\ StatusIs(s)["status"] = s
      /\ StatusIs(s)["value"] = None /\ s # None
  BY StatusEvent, NoneApart
<1>5. ConnectedInv' \/ lost' = lost \cup About(StatusIs(s))
  BY <1>1, <1>2, <1>3, <1>4, RaiseFits DEF SettlingInv, ConnectedInv
<1>6. CASE events' = Append(events, StatusIs(s)) /\ lost' = lost
  <2>1. /\ Queue' = Queue \o <<StatusIs(s)>>
        /\ Told("status", StatusIs(s)["status"])'
        /\ \A v : Told("value", v) => Told("value", v)'
        /\ Telling(Queue, "value") = {} => (Telling(Queue, "value") = {})'
    BY <1>1, <1>3, <1>4, <1>6, ToldRaise
  <2>2. RefreshComing'
    <3>1. CASE s = "Ready"
      <4>1. Contains(<<StatusIs(s)>>, StatusIs("Ready"))
        BY <3>1 DEF Contains
      <4>2. Contains(Queue', StatusIs("Ready"))
        BY <1>4, <2>1, <4>1, QueueType, TellsSingle, ContainsJoin DEF Attribute
      <4> QED
        BY <4>2 DEF RefreshComing, Contains, StatusIs, Nothing
    <3>2. CASE s # "Ready"
      BY <1>1, <3>2 DEF RefreshComing
    <3> QED
      BY <3>1, <3>2
  <2>3. ValueInv'
    BY <1>1, <1>6, <2>1, <2>2 DEF SettlingInv, ValueInv
  <2>4. StatusInv'
    BY <1>1, <1>4, <2>1 DEF StatusInv
  <2> QED
    BY <1>1, <1>2, <1>3, <1>6, <2>3, <2>4 DEF SettlingInv, ConnectedInv
<1>7. CASE lost' = lost \cup About(StatusIs(s))
  <2>1. "value" \in lost' /\ "status" \in lost'
    BY <1>4, <1>7 DEF About
  <2> QED
    BY <1>1, <1>2, <1>3, <1>7, <2>1 DEF SettlingInv, ValueInv, StatusInv, ConnectedInv
<1> QED
  BY <1>1, <1>4, <1>6, <1>7, RaiseFits

\* The device tells nothing.
LEMMA SettlingQuiet ==
  ASSUME TypeInv, SettlingInv, CloudStep, sent' = sent,
         UNCHANGED <<on, status, events, batch, online>>,
         RefreshComing => RefreshComing' \/ "value" \in lost',
         lost \cap Attribute \subseteq lost'
  PROVE  SettlingInv'
<1>1. \A r : ~Published(r)
  BY DEF Published, TypeInv, CloudType
<1>2. ASSUME NEW a \in Attribute, a \notin lost', NEW v, UpToDate(a, v)
      PROVE  UpToDate(a, v)'
  BY <1>1, <1>2, UpToDateQuiet DEF TypeInv
<1>3. {"value", "status", "connected"} = Attribute
  BY DEF Attribute
<1>4. ASSUME NEW a \in Attribute, a \notin lost', NEW v, Told(a, v) PROVE Told(a, v)'
  BY <1>2, <1>4, ToldSame DEF Told
<1>5. (Telling(Queue, "value") = {})' <=> Telling(Queue, "value") = {}
  BY <1>3, ToldSame
<1>6. ValueInv'
  BY <1>3, <1>4, <1>5 DEF SettlingInv, ValueInv
<1>7. StatusInv'
  BY <1>3, <1>4 DEF SettlingInv, StatusInv
<1>8. ConnectedInv'
  BY <1>2, <1>3 DEF SettlingInv, ConnectedInv
<1> QED
  BY <1>6, <1>7, <1>8 DEF SettlingInv

\* What the device has in its queue is published.
LEMMA SettlingPublish ==
  ASSUME TypeInv, SettlingInv, PublishEvents
  PROVE  SettlingInv'
<1>1. {"value", "status", "connected"} = Attribute
  BY DEF Attribute
<1>2. \A a \in Attribute :
        /\ \A v : Told(a, v) /\ v # None => Told(a, v)'
        /\ Telling(Queue, a) = {} => (Telling(Queue, a) = {})'
        /\ RefreshComing => RefreshComing'
        /\ lost' = lost
  BY ToldPublish
<1>3. UNCHANGED <<on, status, online, now, requests>> /\ UNCHANGED cloudVars
  BY DEF PublishEvents
<1>4. on # None /\ status # None /\ online # None
  BY NoneApart DEF TypeInv, DeviceType
<1>5. ASSUME NEW v, v # None, UpToDate("connected", v) PROVE UpToDate("connected", v)'
  <2>1. PICK k \in 0 .. Len(events) :
          LET all == batch \o SubSeq(events, 1, k)
          IN  /\ all \in Seq(Event)
              /\ Publish(BatchReport(all)) \/ UNCHANGED <<sent, reports>>
    BY PublishEventsStep
  <2> DEFINE all == batch \o SubSeq(events, 1, k)
  <2>2. all \in Seq(Event)
    BY <2>1
  <2>3. CASE Publish(BatchReport(all))
    <3>1. Published(BatchReport(all)) /\ BatchReport(all).sets = Said(all)
      BY <2>2, <2>3, BatchReportType DEF TypeInv
    <3>2. BatchReport(all).sets["connected"] = None
      BY <2>2, <3>1, SaidType
    <3> HIDE DEF all
    <3> QED
      BY <1>1, <1>3, <1>5, <3>1, <3>2, UpToDatePublished DEF TypeInv
  <2>4. CASE UNCHANGED <<sent, reports>>
    BY <1>1, <1>3, <1>5, <2>4, UpToDateSame
  <2> QED
    BY <2>1, <2>3, <2>4
<1>6. ValueInv'
  BY <1>1, <1>2, <1>3, <1>4 DEF SettlingInv, ValueInv
<1>7. StatusInv'
  BY <1>1, <1>2, <1>3, <1>4 DEF SettlingInv, StatusInv
<1>8. ConnectedInv'
  BY <1>1, <1>2, <1>3, <1>4, <1>5 DEF SettlingInv, ConnectedInv
<1> QED
  BY <1>6, <1>7, <1>8 DEF SettlingInv
\* A refresh that comes keeps coming until it is asked for, or that is lost.
LEMMA RefreshCloud ==
  ASSUME TypeInv, RefreshComing, UNCHANGED deviceVars,
         \/ \E m \in reports : Start(m)
         \/ \E i \in running : \/ \E row \in Row : Write(i, row)
                               \/ RequestDeviceState(i) \/ Push(i)
  PROVE  RefreshComing' \/ "value" \in lost'
<1>1. UNCHANGED <<status, events, batch, inbound, handled>>
  BY DEF deviceVars
<1>2. ASSUME UNCHANGED requests,
             (\E m \in reports : m.ready) \/ (\E i \in running : i.asks) =>
               (\E m \in reports' : m.ready) \/ (\E i \in running' : i.asks)
      PROVE  RefreshComing'
  BY <1>1, <1>2 DEF RefreshComing, Queue, Contains
<1>3. ASSUME NEW m \in reports, Start(m) PROVE RefreshComing'
  <2>1. UNCHANGED requests
    BY <1>3 DEF Start
  <2>2. PICK k : /\ reports' = reports \ {m} /\ running' = running \cup Unfinished(k)
                 /\ k.asks = m.ready
    <3>1. PICK value : Starts(m, value)
      BY <1>3, StartStep
    <3>2. Begun(m, value).asks = m.ready
      BY DEF Begun
    <3> QED
      BY <3>1, <3>2 DEF Starts
  <2>3. m.ready => k.asks /\ k \in running'
    BY <2>2 DEF Unfinished
  <2> QED
    BY <1>2, <2>1, <2>2, <2>3
<1>4. ASSUME NEW i \in running, NEW j, Goes(i, j), UNCHANGED requests, j.asks = i.asks
      PROVE  RefreshComing'
  <2>1. /\ reports' = reports /\ running' = (running \ {i}) \cup Unfinished(j)
    BY <1>4 DEF Goes
  <2>2. i.asks => j.asks /\ j \in running'
    BY <1>4, <2>1 DEF Unfinished
  <2> QED
    BY <1>2, <1>4, <2>1, <2>2
<1>5. \A i \in running : i \in Work
  BY DEF TypeInv, CloudType
<1>6. ASSUME NEW i \in running, NEW row \in Row, Write(i, row) PROVE RefreshComing'
  <2>1. i \in Work /\ UNCHANGED requests
    BY <1>5, <1>6 DEF Write, brokerVars
  <2>2. /\ [i EXCEPT !.writes = @ \ {row}].asks = i.asks
        /\ [i EXCEPT !.writes = @ \ {row}, !.pushes = FALSE].asks = i.asks
    BY <2>1 DEF Work
  <2>3. PICK j : Goes(i, j) /\ j.asks = i.asks
    BY <1>6, <2>2, WriteGoes DEF TypeInv
  <2> QED
    BY <1>4, <2>1, <2>3
<1>7. ASSUME NEW i \in running, Push(i) PROVE RefreshComing'
  <2>1. i \in Work /\ UNCHANGED requests
    BY <1>5, <1>7 DEF Push, brokerVars
  <2>2. [i EXCEPT !.pushes = FALSE].asks = i.asks
    BY <2>1 DEF Work
  <2> QED
    BY <1>4, <1>7, <2>1, <2>2, PushGoes DEF TypeInv
<1>8. ASSUME NEW i \in running, RequestDeviceState(i)
      PROVE  RefreshComing' \/ "value" \in lost'
  <2>1. CASE FailsAs({"value"})
    BY <2>1 DEF FailsAs
  <2>2. CASE \/ requests' = requests \o <<"getConfig", "getProperties">>
             \/ requests' = requests \o <<"getProperties", "getConfig">>
    <3>1. /\ <<"getConfig", "getProperties">> \in Seq(Request)
          /\ <<"getProperties", "getConfig">> \in Seq(Request)
      BY DEF Request
    <3>2. /\ Contains(<<"getConfig", "getProperties">>, "getProperties")
          /\ Contains(<<"getProperties", "getConfig">>, "getProperties")
      <4>1. /\ 2 \in 1 .. Len(<<"getConfig", "getProperties">>)
            /\ <<"getConfig", "getProperties">>[2] = "getProperties"
        OBVIOUS
      <4>2. /\ 1 \in 1 .. Len(<<"getProperties", "getConfig">>)
            /\ <<"getProperties", "getConfig">>[1] = "getProperties"
        OBVIOUS
      <4> QED
        BY <4>1, <4>2 DEF Contains
    <3>3. requests \in Seq(Request)
      BY DEF TypeInv, DeviceType
    <3>4. Contains(requests', "getProperties")
      <4>1. Contains(requests \o <<"getConfig", "getProperties">>, "getProperties")
        BY <3>1, <3>2, <3>3, ContainsJoin
      <4>2. Contains(requests \o <<"getProperties", "getConfig">>, "getProperties")
        BY <3>1, <3>2, <3>3, ContainsJoin
      <4> QED
        BY <2>2, <4>1, <4>2
    <3> QED
      BY <3>4 DEF RefreshComing, Contains
  <2> QED
    BY <1>8, <2>1, <2>2 DEF RequestDeviceState
<1> QED
  BY <1>3, <1>6, <1>7, <1>8

\* A request that is received, or lost.
LEMMA RefreshReceive ==
  ASSUME TypeInv, RefreshComing, Receive
  PROVE  RefreshComing' \/ "value" \in lost'
<1>1. /\ requests # <<>> /\ requests' = Tail(requests) /\ requests \in Seq(Request)
      /\ inbound \in Seq(Request) /\ handled \in 0 .. Len(inbound)
      /\ UNCHANGED <<status, events, batch, reports, running, handled>>
  BY DEF Receive, TypeInv, DeviceType, cloudVars
<1>2. CASE Contains(requests, "getProperties")
  <2>1. PICK k \in 1 .. Len(requests) : requests[k] = "getProperties"
    BY <1>2 DEF Contains
  <2>2. CASE k = 1
    <3>1. Head(requests) = "getProperties"
      BY <1>1, <2>1, <2>2
    <3>2. CASE Len(inbound) < QueueCapacity
      <4>1. inbound' = Append(inbound, "getProperties")
        BY <3>1, <3>2 DEF Receive
      <4>2. /\ Len(inbound) + 1 \in DOMAIN inbound' /\ Len(inbound) + 1 > handled'
            /\ inbound'[Len(inbound) + 1] = "getProperties"
        BY <1>1, <4>1
      <4> QED
        BY <4>2 DEF RefreshComing
    <3>3. CASE ~(Len(inbound) < QueueCapacity)
      BY <3>1, <3>3 DEF Receive
    <3> QED
      BY <3>2, <3>3
  <2>3. CASE k # 1
    <3>1. k - 1 \in 1 .. Len(requests') /\ requests'[k - 1] = "getProperties"
      BY <1>1, <2>1, <2>3, HeadTailProperties
    <3> QED
      BY <3>1 DEF RefreshComing, Contains
  <2> QED
    BY <2>2, <2>3
<1>3. ASSUME NEW k \in DOMAIN inbound, k > handled, inbound[k] = "getProperties"
      PROVE  RefreshComing'
  <2>1. inbound' = inbound \/ inbound' = Append(inbound, Head(requests))
    BY DEF Receive
  <2>2. Head(requests) \in Request
    BY <1>1
  <2>3. k \in 1 .. Len(inbound) /\ inbound[k] = "getProperties" /\ k > handled'
    BY <1>1, <1>3
  <2>4. k \in DOMAIN inbound' /\ inbound'[k] = "getProperties"
    <3>1. CASE inbound' = inbound
      BY <1>3, <3>1
    <3>2. CASE inbound' = Append(inbound, Head(requests))
      BY <1>1, <2>2, <2>3, <3>2
    <3> QED
      BY <2>1, <3>1, <3>2
  <2> QED
    BY <2>3, <2>4 DEF RefreshComing
<1> QED
  BY <1>1, <1>2, <1>3 DEF RefreshComing, Queue, Contains

LEMMA RefreshHandled ==
  ASSUME TypeInv, RefreshComing, HandleMessage, inbound[handled + 1] # "getProperties",
         events' = events, reports \subseteq reports'
  PROVE  RefreshComing'
<1>1. /\ handled' = handled + 1 /\ handled \in Nat
      /\ UNCHANGED <<status, batch, inbound, requests, running>>
  BY DEF HandleMessage, TypeInv, DeviceType, cloudVars
<1>2. ASSUME NEW k \in DOMAIN inbound, k > handled, inbound[k] = "getProperties"
      PROVE  RefreshComing'
  <2>1. k \in Nat /\ k # handled + 1
    BY <1>2 DEF TypeInv, DeviceType
  <2>2. k > handled'
    BY <1>1, <1>2, <2>1
  <2> QED
    BY <1>1, <1>2, <2>2 DEF RefreshComing
<1> QED
  BY <1>1, <1>2 DEF RefreshComing, Queue, Contains
\* The answer to a request for the value makes the store up to date with it.
LEMMA SettlingAnswer ==
  ASSUME TypeInv, SettlingInv, Publish(Report("properties", ValueChanged(on), FALSE)),
         lost' \in {lost, Refreshed},
         UNCHANGED <<on, status, events, batch, online>>, UNCHANGED cloudVars
  PROVE  SettlingInv'
<1>1. {"value", "status", "connected"} = Attribute
  BY DEF Attribute
<1>2. PICK b \in BOOLEAN : b = on
  BY DEF TypeInv, DeviceType
<1> DEFINE r == Report("properties", ValueChanged(b), FALSE)
<1>3. Publish(r)
  BY <1>2
<1> HIDE DEF r
<1>4. /\ Published(r) /\ r.sets["value"] = b /\ r.sets["status"] = None
      /\ r.sets["connected"] = None /\ b # None
  BY <1>3, PropertiesReportType, ValueEvent, NoneApart DEF r, TypeInv
<1>5. ASSUME NEW a \in Attribute, NEW v, v # None,
             r.sets[a] = v \/ (r.sets[a] = None /\ UpToDate(a, v))
      PROVE  UpToDate(a, v)'
  BY <1>4, <1>5, UpToDatePublished DEF TypeInv
<1>6. status # None /\ online # None
  BY NoneApart DEF TypeInv, DeviceType
<1>7. ASSUME NEW a \in Attribute, r.sets[a] = None, NEW v, v # None, Told(a, v)
      PROVE  Told(a, v)'
  BY <1>5, <1>7, ToldSame DEF Told
<1>8. lost \cap {"status", "connected"} \subseteq lost'
  BY DEF Refreshed
<1>9. StatusInv' /\ ConnectedInv'
  BY <1>1, <1>4, <1>5, <1>6, <1>7, <1>8 DEF SettlingInv, StatusInv, ConnectedInv
<1>10. ValueInv'
  <2>1. UpToDate("value", b)'
    BY <1>1, <1>4, <1>5
  <2>2. CASE Telling(Queue, "value") = {}
    <3>1. Told("value", b)'
      BY <1>1, <2>1, <2>2, ToldSame DEF Told
    <3> QED
      BY <1>2, <3>1 DEF ValueInv
  <2>3. CASE Telling(Queue, "value") # {}
    <3>1. ~(events = <<>> /\ batch = <<>>)
      BY <2>3 DEF Queue, Telling
    <3>2. lost' = lost
      BY <3>1 DEF Refreshed
    <3>3. TellsLast(Queue, "value", b) => Told("value", b)'
      BY <1>1, ToldSame DEF Told
    <3> QED
      BY <1>2, <2>3, <3>2, <3>3 DEF SettlingInv, ValueInv, Told
  <2> QED
    BY <2>2, <2>3
<1> QED
  BY <1>9, <1>10 DEF SettlingInv

\* A report that tells of no attribute.
LEMMA SettlingSilent ==
  ASSUME TypeInv, SettlingInv, NEW r, Published(r), \A a \in Attribute : r.sets[a] = None,
         UNCHANGED <<on, status, events, batch, online>>, UNCHANGED cloudVars,
         RefreshComing => RefreshComing', lost' = lost
  PROVE  SettlingInv'
<1>1. {"value", "status", "connected"} = Attribute
  BY DEF Attribute
<1>2. ASSUME NEW a \in Attribute, NEW v, v # None, UpToDate(a, v) PROVE UpToDate(a, v)'
  BY <1>2, UpToDatePublished DEF TypeInv
<1>3. on # None /\ status # None /\ online # None
  BY NoneApart DEF TypeInv, DeviceType
<1>4. ASSUME NEW a \in Attribute, NEW v, v # None, Told(a, v) PROVE Told(a, v)'
  BY <1>2, <1>4, ToldSame DEF Told
<1>5. (Telling(Queue, "value") = {})' <=> Telling(Queue, "value") = {}
  BY <1>1, ToldSame
<1>6. ValueInv'
  BY <1>1, <1>3, <1>4, <1>5 DEF SettlingInv, ValueInv
<1>7. StatusInv'
  BY <1>1, <1>3, <1>4 DEF SettlingInv, StatusInv
<1>8. ConnectedInv'
  BY <1>1, <1>2, <1>3 DEF SettlingInv, ConnectedInv
<1> QED
  BY <1>6, <1>7, <1>8 DEF SettlingInv

LEMMA SettlingHandle ==
  ASSUME TypeInv, SettlingInv, HandleMessage
  PROVE  SettlingInv'
<1>1. PICK request \in Request :
        /\ request = inbound[handled + 1] /\ Answer(request)
        /\ UNCHANGED <<status, batch, inbound, online, now, requests, cloudVars,
                       clientVars>>
  BY HandleMessageStep
<1>2. UNCHANGED <<status, batch, online>> /\ UNCHANGED cloudVars
  BY <1>1
<1>3. CloudStep
  BY NextCloudStep DEF Next, Device
<1>4. CASE /\ request = "getProperties" /\ UNCHANGED <<on, events>>
           /\ Publish(Report("properties", ValueChanged(on), FALSE))
           /\ lost' \in {lost, Refreshed}
  BY <1>2, <1>4, SettlingAnswer
<1>5. CASE /\ request = "getProperties" /\ UNCHANGED <<on, events, sent, reports>>
           /\ lost' = lost \cup {"value"}
  BY <1>2, <1>3, <1>5, SettlingQuiet
<1>6. CASE request = "getConfig" /\ UNCHANGED <<on, events, lost>>
             /\ UNCHANGED <<sent, reports>>
  <2>1. RefreshComing => RefreshComing'
    BY <1>1, <1>6, RefreshHandled
  <2> QED
    BY <1>2, <1>3, <1>6, <2>1, SettlingQuiet
<1>7. CASE request = "getConfig" /\ UNCHANGED <<on, events, lost>>
             /\ Publish(Report("config", Nothing, FALSE))
  <2>1. PICK r : Published(r) /\ r.sets = Nothing
    BY <1>7, ConfigReportType DEF TypeInv
  <2>2. RefreshComing => RefreshComing'
    BY <1>1, <1>7, <2>1, RefreshHandled DEF Published
  <2> QED
    BY <1>2, <1>7, <2>1, <2>2, SettlingSilent, NothingSaid
<1>8. CASE /\ request \in {"turnOn", "turnOff"} /\ UNCHANGED <<sent, reports>>
           /\ Change(request = "turnOn")
  <2>1. PICK b \in BOOLEAN : b = (request = "turnOn")
    OBVIOUS
  <2>2. Change(b)
    BY <1>8, <2>1, Zenon
  <2>3. CASE b = on
    <3>1. UNCHANGED <<on, events, lost>>
      BY <2>2, <2>3 DEF Change
    <3>2. RefreshComing => RefreshComing'
      BY <1>1, <1>8, <3>1, RefreshHandled
    <3> QED
      BY <1>2, <1>3, <1>8, <3>1, <3>2, SettlingQuiet
  <2>4. CASE b # on
    BY <1>2, <1>8, <2>2, <2>4, SettlingChange
  <2> QED
    BY <2>3, <2>4
<1>9. CASE status = "Unconfigured" /\ UNCHANGED <<on, events, sent, reports, lost>>
  <2>1. RefreshComing'
    BY <1>2, <1>9 DEF RefreshComing
  <2> QED
    BY <1>2, <1>3, <1>9, <2>1, SettlingQuiet
<1> QED
  BY <1>1, <1>4, <1>5, <1>6, <1>7, <1>8, <1>9, AnswerStep
\* The connection is made or lost: a report tells of it.
LEMMA SettlingConnection ==
  ASSUME TypeInv, SettlingInv, NEW b \in BOOLEAN, ConnectionIs(b),
         UNCHANGED <<status, inbound, handled, requests>>,
         UNCHANGED <<on, events, batch>>, UNCHANGED <<now, lost>>, UNCHANGED cloudVars
  PROVE  SettlingInv'
<1>1. {"value", "status", "connected"} = Attribute
  BY DEF Attribute
<1>2. PICK r : /\ Published(r) /\ r.sets["connected"] = b /\ online' = b
               /\ r.sets["value"] = None /\ r.sets["status"] = None
  BY PresenceReportType, PresenceSays DEF TypeInv
<1>3. ASSUME NEW a \in Attribute, NEW v, v # None,
             r.sets[a] = v \/ (r.sets[a] = None /\ UpToDate(a, v))
      PROVE  UpToDate(a, v)'
  BY <1>2, <1>3, UpToDatePublished DEF TypeInv
<1>4. on # None /\ status # None /\ b # None
  BY NoneApart DEF TypeInv, DeviceType
<1>5. ASSUME NEW a \in Attribute, r.sets[a] = None, NEW v, v # None, Told(a, v)
      PROVE  Told(a, v)'
  BY <1>3, <1>5, ToldSame DEF Told
<1>6. (Telling(Queue, "value") = {})' <=> Telling(Queue, "value") = {}
  BY <1>1, ToldSame
<1>7. RefreshComing => RefreshComing'
  <2>1. reports \subseteq reports' /\ UNCHANGED running
    BY <1>2 DEF Published, cloudVars
  <2> QED
    BY <2>1 DEF RefreshComing, Queue, Contains
<1>8. ValueInv'
  BY <1>1, <1>2, <1>4, <1>5, <1>6, <1>7 DEF SettlingInv, ValueInv
<1>9. StatusInv'
  BY <1>1, <1>2, <1>4, <1>5 DEF SettlingInv, StatusInv
<1>10. ConnectedInv'
  BY <1>1, <1>2, <1>3, <1>4 DEF ConnectedInv
<1> QED
  BY <1>8, <1>9, <1>10 DEF SettlingInv

\* A restart leaves one event, of the status, and a refresh will follow.
LEMMA SettlingRestart ==
  ASSUME TypeInv, SettlingInv, Restart
  PROVE  SettlingInv'
<1>1. {"value", "status", "connected"} = Attribute
  BY DEF Attribute
<1> DEFINE e == StatusIs("Unconfigured")
<1>2. /\ e \in Event /\ e["status"] = "Unconfigured" /\ e["value"] = None
      /\ "Unconfigured" # None /\ "Unconfigured" \in Status
  BY StatusEvent, NoneApart DEF Status
<1>3. /\ status' = "Unconfigured" /\ events' = <<e>> /\ batch' = <<>>
      /\ lost' = lost \ {"status"} /\ UNCHANGED now /\ UNCHANGED cloudVars
  BY DEF Restart
<1> HIDE DEF e
<1>4. Queue' = <<e>>
  <2>1. <<e>> \in Seq(Event)
    BY <1>2
  <2> QED
    BY <1>3, <2>1, ConcatEmptySeq DEF Queue
<1>5. ValueInv'
  <2>1. (Telling(Queue, "value") = {})'
    <3>1. Telling(Queue', "value") = {}
      BY <1>1, <1>2, <1>4, TellsSingle
    <3> QED
      BY <3>1 DEF Telling
  <2>2. RefreshComing'
    BY <1>3 DEF RefreshComing
  <2> QED
    BY <2>1, <2>2 DEF ValueInv
<1>6. StatusInv'
  <2>1. TellsLast(Queue', "status", "Unconfigured")
    BY <1>1, <1>2, <1>4, TellsSingle
  <2>2. Told("status", "Unconfigured")'
    BY <2>1 DEF Told, TellsLast, Telling
  <2> QED
    BY <1>3, <2>2 DEF StatusInv
<1>7. ConnectedInv'
  <2>1. CASE online
    <3>1. ConnectionIs(FALSE)
      BY <2>1 DEF Restart
    <3>2. PICK r : Published(r) /\ r.sets["connected"] = FALSE /\ online' = FALSE
      BY <3>1, PresenceReportType, PresenceSays DEF TypeInv
    <3>3. FALSE # None
      BY NoneApart
    <3>4. UpToDate("connected", FALSE)'
      BY <1>1, <1>3, <3>2, <3>3, UpToDatePublished DEF TypeInv
    <3> QED
      BY <3>2, <3>4 DEF ConnectedInv
  <2>2. CASE ~online
    <3>1. UNCHANGED <<reports, cloudVars>> /\ online' = online
      BY <1>3, <2>2 DEF Restart
    <3>2. \A v : UpToDate("connected", v) => UpToDate("connected", v)'
      BY <1>1, <3>1, UpToDateSame
    <3> QED
      BY <1>3, <3>1, <3>2 DEF SettlingInv, ConnectedInv
  <2> QED
    BY <2>1, <2>2
<1> QED
  BY <1>5, <1>6, <1>7 DEF SettlingInv

LEMMA SettlingNext ==
  ASSUME TypeInv, SettlingInv, [Next]_vars
  PROVE  SettlingInv'
<1>0. CloudStep
  BY NextCloudStep
<1>1. CASE ConfigEnd \/ BeginControllers \/ ConfigStart
  BY <1>1, SettlingStatus DEF ConfigEnd, BeginControllers, ConfigStart, Status
<1>2. CASE ValueChanges
  <2>1. PICK b \in BOOLEAN : b = ~on
    OBVIOUS
  <2>2. Change(b)
    BY <1>2, <2>1, Zenon DEF ValueChanges
  <2>3. b # on
    BY <2>1 DEF TypeInv, DeviceType
  <2>4. UNCHANGED <<status, batch, online, reports, cloudVars>>
    BY <1>2 DEF ValueChanges, brokerVars
  <2> QED
    BY <2>2, <2>3, <2>4, SettlingChange
<1>3. CASE PublishEvents
  BY <1>3, SettlingPublish
<1>4. CASE HandleMessage
  BY <1>4, SettlingHandle
<1>5. CASE EmptyQueue
  <2>1. /\ handled = Len(inbound) /\ inbound' = <<>> /\ sent' = sent
        /\ UNCHANGED <<on, status, events, batch, online>> /\ lost' = lost
        /\ UNCHANGED <<requests, reports, running>>
    BY <1>5 DEF EmptyQueue, brokerVars, cloudVars
  <2>2. \A k \in DOMAIN inbound : ~(k > handled)
    BY <2>1 DEF TypeInv, DeviceType
  <2>3. RefreshComing => RefreshComing'
    BY <2>1, <2>2 DEF RefreshComing, Queue, Contains
  <2> QED
    BY <1>0, <2>1, <2>3, SettlingQuiet
<1>6. CASE Receive
  <2>1. /\ sent' = sent /\ UNCHANGED <<on, status, events, batch, online>>
        /\ lost \subseteq lost'
    BY <1>6 DEF Receive
  <2> QED
    BY <1>0, <1>6, <2>1, RefreshReceive, SettlingQuiet
<1>7. CASE Restart
  BY <1>7, SettlingRestart
<1>8. CASE Connect \/ Disconnect
  BY <1>8, SettlingConnection DEF Connect, Disconnect
<1>9. ASSUME UNCHANGED deviceVars, UNCHANGED sent, lost \cap Attribute \subseteq lost',
             \/ Cloud
             \/ UNCHANGED <<requests, reports, running>>
             \/ \E request \in {"turnOn", "turnOff"} : SetProperty(request)
      PROVE  SettlingInv'
  <2>1. UNCHANGED <<on, status, events, batch, online>>
    BY <1>9 DEF deviceVars
  <2>2. RefreshComing => RefreshComing' \/ "value" \in lost'
    <3>1. CASE Cloud
      <4>1. \A i : Invocation(i) => \/ \E row \in Row : Write(i, row)
                                    \/ RequestDeviceState(i) \/ Push(i)
        BY DEF Invocation
      <4> QED
        BY <1>9, <3>1, <4>1, RefreshCloud DEF Cloud
    <3>2. CASE UNCHANGED <<requests, reports, running>>
      BY <1>9, <3>2 DEF RefreshComing, Queue, Contains, deviceVars
    <3>3. ASSUME NEW request \in {"turnOn", "turnOff"}, SetProperty(request)
          PROVE  RefreshComing => RefreshComing'
      <4>1. /\ requests' = requests \o <<request>> /\ requests \in Seq(Request)
            /\ <<request>> \in Seq(Request) /\ UNCHANGED <<reports, running>>
        BY <3>3 DEF SetProperty, TypeInv, DeviceType, Request, cloudVars
      <4>2. Contains(requests, "getProperties") => Contains(requests', "getProperties")
        BY <4>1, ContainsJoin
      <4> QED
        BY <1>9, <4>1, <4>2 DEF RefreshComing, Queue, Contains, deviceVars
    <3> QED
      BY <1>9, <3>1, <3>2, <3>3
  <2> QED
    BY <1>0, <1>9, <2>1, <2>2, SettlingQuiet
<1>10. CASE Tick \/ Subscribe \/ Respond \/ Leave
  <2>1. UNCHANGED deviceVars /\ UNCHANGED sent /\ UNCHANGED <<requests, reports, running>>
    BY <1>10 DEF Tick, Subscribe, Respond, Leave, brokerVars, cloudVars
  <2>2. lost \cap Attribute \subseteq lost'
    <3>1. CASE Respond
      BY <3>1, RespondStep DEF Attribute
    <3> QED
      BY <1>10, <3>1 DEF Tick, Subscribe, Leave
  <2> QED
    BY <1>9, <2>1, <2>2
<1>11. ASSUME NEW push \in pushes, Show(push) PROVE SettlingInv'
  <2>1. /\ UNCHANGED deviceVars /\ UNCHANGED sent /\ UNCHANGED <<requests, reports, running>>
        /\ lost' = lost
    BY <1>11 DEF Show, brokerVars, cloudVars
  <2> QED
    BY <1>9, <2>1
<1>12. ASSUME NEW request \in {"turnOn", "turnOff"}, SetProperty(request)
       PROVE  SettlingInv'
  <2>1. UNCHANGED deviceVars /\ UNCHANGED sent /\ lost' = lost
    BY <1>12 DEF SetProperty
  <2> QED
    BY <1>9, <1>12, <2>1
<1>13. CASE Cloud
  <2>1. ASSUME NEW m \in reports, Start(m)
        PROVE  UNCHANGED deviceVars /\ UNCHANGED sent /\ lost \cap Attribute \subseteq lost'
    <3>1. lost \subseteq lost'
      BY <2>1, StartStep DEF Starts
    <3> QED
      BY <2>1, <3>1 DEF Start
  <2>2. ASSUME NEW i \in running, Invocation(i)
        PROVE  UNCHANGED deviceVars /\ UNCHANGED sent /\ lost \cap Attribute \subseteq lost'
    <3>1. ASSUME NEW row \in Row, Write(i, row)
          PROVE  UNCHANGED deviceVars /\ UNCHANGED sent /\ lost \subseteq lost'
      BY <3>1, WriteGoes DEF Write, brokerVars, TypeInv
    <3>2. ASSUME RequestDeviceState(i)
          PROVE  UNCHANGED deviceVars /\ UNCHANGED sent /\ lost \subseteq lost'
      BY <3>2 DEF RequestDeviceState, Succeeds, FailsAs
    <3>3. ASSUME Push(i)
          PROVE  UNCHANGED deviceVars /\ UNCHANGED sent /\ lost \subseteq lost'
      BY <3>3 DEF Push, Succeeds, FailsAs, Misses, brokerVars
    <3> QED
      BY <2>2, <3>1, <3>2, <3>3 DEF Invocation
  <2> QED
    BY <1>9, <1>13, <2>1, <2>2 DEF Cloud
<1>14. CASE UNCHANGED vars
  BY <1>9, <1>14 DEF vars, brokerVars, cloudVars
<1> QED
  BY <1>1, <1>2, <1>3, <1>4, <1>5, <1>6, <1>7, <1>8, <1>10, <1>11, <1>12, <1>13, <1>14
  DEF Next, Device, Broker
LEMMA SettlingInit == ASSUME Init PROVE SettlingInv
<1>1. ASSUME NEW a \in Attribute, NEW v, store[a] = v PROVE UpToDate(a, v)
  BY <1>1 DEF Init, UpToDate, Pending, Reports
<1>2. /\ "value" \in Attribute /\ "status" \in Attribute /\ "connected" \in Attribute
  BY DEF Attribute
<1>3. /\ UpToDate("value", FALSE) /\ UpToDate("status", "Ready")
      /\ UpToDate("connected", TRUE)
  BY <1>1, <1>2 DEF Init, Nothing
<1>4. Queue = <<>> /\ \A a : Telling(Queue, a) = {}
  <2>1. <<>> \o <<>> = <<>>
    OBVIOUS
  <2> QED
    BY <2>1 DEF Init, Queue, Telling
<1>5. on = FALSE /\ status = "Ready" /\ online = TRUE
  BY Zenon DEF Init
<1> QED
  BY <1>3, <1>4, <1>5
  DEF SettlingInv, ValueInv, StatusInv, ConnectedInv, Told

LEMMA SettlingAlways == Spec => []SettlingInv
<1>1. Init => SettlingInv
  BY SettlingInit
<1>2. TypeInv /\ SettlingInv /\ [Next]_vars => SettlingInv'
  BY SettlingNext
<1> QED
  BY <1>1, <1>2, TypeInvAlways, PTL DEF Spec

\* When nothing is under way, what is up to date is what the store has.
LEMMA SettledUpToDate ==
  ASSUME Settled, NEW a \in Attribute, NEW v
  PROVE  /\ UpToDate(a, v) => store[a] = v \/ a \in overtaken
         /\ Told(a, v) => UpToDate(a, v)
<1>1. Pending(a) = {}
  BY DEF Settled, Pending, Reports
<1>2. Queue = <<>>
  <2>1. <<>> \o <<>> = <<>>
    OBVIOUS
  <2> QED
    BY <2>1 DEF Settled, Queue
<1> QED
  BY <1>1, <1>2 DEF UpToDate, Told, TellsLast, Telling

\* Once all is settled the store has the value of the device, unless a report of
\* it was lost since the last refresh or an older report prevailed: whatever the
\* device forgot in restarts, and in whatever order reports were handled
\* (handleDeviceMessage.ts, store.ts, event-publisher.cpp).
THEOREM ValueSettlesCorrect == Spec => []ValueSettles
<1>1. ASSUME TypeInv, SettlingInv PROVE ValueSettles
  <2>1. SUFFICES ASSUME Settled, status = "Ready", "value" \notin lost
                 PROVE  store["value"] = on \/ "value" \in overtaken
    BY DEF ValueSettles, Missing
  <2>2. ~RefreshComing
    <3>1. Queue = <<>>
      <4>1. <<>> \o <<>> = <<>>
        OBVIOUS
      <4> QED
        BY <2>1, <4>1 DEF Settled, Queue
    <3>2. \A e : ~Contains(<<>>, e)
      BY DEF Contains
    <3> QED
      BY <2>1, <3>1, <3>2 DEF RefreshComing, Settled
  <2>3. \E b \in {on} : Told("value", b)
    BY <1>1, <2>1, <2>2 DEF SettlingInv, ValueInv
  <2> QED
    BY <2>1, <2>3, SettledUpToDate DEF Attribute
<1>2. TypeInv /\ SettlingInv => ValueSettles
  BY <1>1
<1> QED
  BY <1>2, TypeInvAlways, SettlingAlways, PTL

\* The same for the status of the device and its connection, which nothing
\* refreshes.
THEOREM DeviceSettlesCorrect == Spec => []DeviceSettles
<1>1. SettlingInv => DeviceSettles
  <2>1. SUFFICES ASSUME SettlingInv, Settled
                 PROVE  /\ store["status"] = status \/ Missing("status")
                        /\ store["connected"] = online \/ Missing("connected")
    BY DEF DeviceSettles
  <2>2. store["status"] = status \/ Missing("status")
    BY <2>1, SettledUpToDate DEF SettlingInv, StatusInv, Missing, Attribute
  <2>3. store["connected"] = online \/ Missing("connected")
    BY <2>1, SettledUpToDate DEF SettlingInv, ConnectedInv, Missing, Attribute
  <2> QED
    BY <2>2, <2>3
<1> QED
  BY <1>1, SettlingAlways, PTL
------------------------------------------------------------------------------
(* What the client is told *)

\* The client will be told that an attribute is v, by what is from report n.
ToShow(a, n, v) ==
  /\ v # None
  /\ \/ \E p \in pushes : p.sets[a] = v /\ p.from[a] = n
     \/ \E i \in running : i.pushes /\ i.report.sets[a] = v /\ i.report.n = n

\* What is from report n says v: the report itself, a push, the store, a replica of
\* it or what the client has seen.
Says(a, n, v) ==
  \/ /\ v # None
     /\ \/ \E p \in pushes : p.sets[a] = v /\ p.from[a] = n
        \/ \E m \in Reports : m.sets[a] = v /\ m.n = n
        \/ by[a] = n /\ store[a] = v
        \/ replica.from[a] = n /\ replica.sets[a] = v
  \/ seen[a] = n /\ n # 0 /\ a \notin back /\ view[a] = v

OneVoice ==
  \A a \in Attribute : \A n, v, w : Says(a, n, v) /\ Says(a, n, w) => v = w

\* What is pushed has been written, and the store is from the newest report
\* unless it is overtaken.
HandledInv ==
  /\ \A i \in running : \A a \in Attribute :
       i.pushes /\ i.report.sets[a] # None /\ RowOf(a) \notin i.writes =>
         i.report.n <= newest[a]
  /\ \A p \in pushes : \A a \in Attribute : p.sets[a] # None => p.from[a] <= newest[a]
  /\ \A a \in Attribute :
       /\ seen[a] <= newest[a] /\ by[a] <= newest[a]
       /\ replica.from[a] <= newest[a]
       /\ a \notin overtaken => by[a] = newest[a]

\* The store will take the reports from number n on.
UpdatedBefore(n) == \A m \in Reports : m.n >= n => m.time >= updated["property"]

TimeInv ==
  /\ \A m, p \in Reports : m.n <= p.n => m.time <= p.time
  /\ \A m \in Reports : m.n >= by["value"] => m.time >= updated["property"]

LEMMA NewestGrows ==
  ASSUME CloudType, CloudStep, NEW a \in Attribute
  PROVE  newest[a] <= newest'[a]
<1>0. newest[a] \in Nat
  BY DEF CloudType
<1>1. CASE UNCHANGED cloudVars
  BY <1>0, <1>1 DEF cloudVars
<1>2. ASSUME NEW m \in reports, Start(m) PROVE newest[a] <= newest'[a]
  <2>1. PICK value : Starts(m, value)
    BY <1>2, StartStep
  <2>2. newest'[a] = IF a \in Unwritten(m, value) THEN m.n ELSE newest[a]
    BY <2>1 DEF Starts
  <2>3. m.n \in Nat
    BY BegunType DEF ReportSet
  <2> QED
    BY <1>0, <2>2, <2>3, BegunType
<1>3. ASSUME NEW i \in running, NEW row \in Row, Write(i, row)
      PROVE  newest[a] <= newest'[a]
  <2>1. i.report \in ReportSet /\ i.report \in Reports /\ i.report.n \in Nat
    BY <1>3, WriteGoes DEF ReportSet
  <2>2. CASE UpdateRow(i.report, row)
    BY <1>0, <2>1, <2>2, UpdateRowAt
  <2>3. CASE UNCHANGED newest
    BY <1>0, <2>3
  <2> QED
    BY <1>3, <2>2, <2>3, WriteGoes
<1>4. ASSUME NEW i \in running, RequestDeviceState(i) \/ Push(i)
      PROVE  newest[a] <= newest'[a]
  BY <1>0, <1>4 DEF RequestDeviceState, Push
<1> QED
  BY <1>1, <1>2, <1>3, <1>4 DEF CloudStep

LEMMA HandledStart ==
  ASSUME TypeInv, HandledInv, NEW m \in reports, Start(m)
  PROVE  HandledInv'
<1> USE DEF TypeInv
<1>0. PICK value : Starts(m, value)
  BY StartStep
<1> DEFINE unwritten == Unwritten(m, value)
           confirmed == Confirmed(m, value)
<1>1. /\ running' = running \cup Unfinished(Begun(m, value)) /\ UNCHANGED <<pushes, seen>>
      /\ newest' = [a \in Attribute |-> IF a \in unwritten THEN m.n ELSE newest[a]]
      /\ by' = [a \in Attribute |-> IF a \in confirmed THEN m.n ELSE by[a]]
      /\ overtaken' = (overtaken \ confirmed) \cup (unwritten \ confirmed)
      /\ confirmed \subseteq unwritten /\ UNCHANGED replica
  BY <1>0, BegunType DEF Start, Starts, clientVars
<1> HIDE DEF unwritten, confirmed
<1>2. \A k \in running' : k \in running \/ k = Begun(m, value)
  BY <1>1 DEF Unfinished
<1>3. \A a \in Attribute : /\ newest[a] <= newest'[a] /\ newest[a] \in Nat /\ newest'[a] \in Nat
                           /\ seen[a] \in Nat /\ by[a] \in Nat
                           /\ replica.from[a] \in Nat
  <2>1. CloudStep
    BY DEF CloudStep
  <2>2. m.n \in Nat
    BY BegunType DEF ReportSet
  <2> QED
    BY <1>1, <2>1, <2>2, NewestGrows DEF CloudType, ClientType
<1>4. ASSUME NEW k \in running', NEW a \in Attribute, k.pushes,
             k.report.sets[a] # None, RowOf(a) \notin k.writes
      PROVE  k.report.n <= newest'[a]
  <2>1. CASE k \in running
    <3>1. k.report.n \in Nat
      BY <2>1 DEF CloudType, Work, ReportSet
    <3> QED
      BY <1>3, <1>4, <2>1, <3>1 DEF HandledInv
  <2>2. CASE k = Begun(m, value)
    <3>1. /\ Writes(m, value) # {} /\ m.sets[a] # None
          /\ RowOf(a) \notin Writes(m, value)
      BY <1>4, <2>2 DEF Begun
    <3> QED
      BY <3>1, WritesAll
  <2> QED
    BY <1>2, <2>1, <2>2
<1>5. ASSUME NEW p \in pushes', NEW a \in Attribute, p.sets[a] # None
      PROVE  p.from[a] <= newest'[a]
  <2>1. p \in pushes /\ p.from[a] \in Nat
    BY <1>1 DEF ClientType
  <2> QED
    BY <1>3, <1>5, <2>1 DEF HandledInv
<1>6. ASSUME NEW a \in Attribute
      PROVE  /\ seen'[a] <= newest'[a] /\ by'[a] <= newest'[a]
             /\ replica'.from[a] <= newest'[a]
             /\ a \notin overtaken' => by'[a] = newest'[a]
  BY <1>1, <1>3 DEF HandledInv
<1> QED
  BY <1>4, <1>5, <1>6 DEF HandledInv

LEMMA HandledWrite ==
  ASSUME TypeInv, HandledInv, NEW i \in running, NEW row \in Row, Write(i, row)
  PROVE  HandledInv'
<1> USE DEF TypeInv
<1> DEFINE m == i.report
<1>1. /\ m \in ReportSet /\ m \in Reports /\ m.n \in Nat /\ i \in Work
  BY WriteGoes DEF ReportSet, CloudType
<1>2. UNCHANGED <<pushes, seen>>
  BY DEF Write, clientVars
<1>3. \A a \in Attribute : /\ newest[a] <= newest'[a] /\ newest[a] \in Nat /\ newest'[a] \in Nat
                           /\ seen[a] \in Nat /\ by[a] \in Nat
                           /\ replica.from[a] \in Nat
  <2>1. CloudStep
    BY DEF CloudStep
  <2>2. newest' \in [Attribute -> Nat]
    BY WriteType DEF CloudType
  <2> QED
    BY <2>1, <2>2, NewestGrows DEF CloudType, ClientType
<1>4. ASSUME NEW k \in running, NEW a \in Attribute, k.pushes,
             k.report.sets[a] # None, RowOf(a) \notin k.writes
      PROVE  k.report.n <= newest'[a]
  <2>1. k.report.n \in Nat
    BY DEF CloudType, Work, ReportSet
  <2> QED
    BY <1>3, <1>4, <2>1 DEF HandledInv
<1>5. ASSUME NEW p \in pushes', NEW a \in Attribute, p.sets[a] # None
      PROVE  p.from[a] <= newest'[a]
  <2>1. p \in pushes /\ p.from[a] \in Nat
    BY <1>2 DEF ClientType
  <2> QED
    BY <1>3, <1>5, <2>1 DEF HandledInv
<1>6. ASSUME NEW a \in Attribute
      PROVE  /\ seen'[a] <= newest'[a] /\ by'[a] <= newest'[a]
             /\ replica'.from[a] <= newest'[a]
             /\ a \notin overtaken' => by'[a] = newest'[a]
  <2>1. /\ seen[a] <= newest[a] /\ by[a] <= newest[a] /\ replica.from[a] <= newest[a]
        /\ a \notin overtaken => by[a] = newest[a]
    BY DEF HandledInv
  <2>2. seen'[a] <= newest'[a]
    BY <1>2, <1>3, <2>1
  <2>3. CASE UNCHANGED <<store, by, updated, newest, overtaken>> /\ UNCHANGED replica
    BY <2>1, <2>2, <2>3
  <2>4. CASE UpdateRow(m, row)
    <3>1. by'[a] <= newest'[a] /\ (a \notin overtaken' => by'[a] = newest'[a])
      BY <1>1, <1>3, <2>1, <2>4, UpdateRowAt
    <3>2. replica'.from[a] \in {replica.from[a], by[a]}
      BY <2>4, UpdateRowReplica, VersionAt
    <3> QED
      BY <1>3, <2>1, <2>2, <3>1, <3>2
  <2> QED
    BY <2>3, <2>4, WriteGoes
<1>7. CASE Goes(i, [i EXCEPT !.writes = @ \ {row}, !.pushes = FALSE])
  <2> DEFINE j == [i EXCEPT !.writes = @ \ {row}, !.pushes = FALSE]
  <2>1. ~j.pushes
    BY <1>1 DEF Work
  <2> HIDE DEF j
  <2>2. \A k \in running' : k \in running \/ k = j
    BY <1>7 DEF Goes, Unfinished, j
  <2>3. ASSUME NEW k \in running', NEW a \in Attribute, k.pushes,
             k.report.sets[a] # None, RowOf(a) \notin k.writes
        PROVE  k.report.n <= newest'[a]
    BY <1>4, <2>1, <2>2, <2>3
  <2> QED
    BY <1>5, <1>6, <2>3 DEF HandledInv
<1>8. CASE UpdateRow(m, row) /\ Goes(i, [i EXCEPT !.writes = @ \ {row}])
  <2> DEFINE j == [i EXCEPT !.writes = @ \ {row}]
  <2>1. j.pushes = i.pushes /\ j.report = m /\ j.writes = i.writes \ {row}
    BY <1>1 DEF Work
  <2> HIDE DEF j
  <2>2. \A k \in running' : k \in running \/ k = j
    BY <1>8 DEF Goes, Unfinished, j
  <2>3. ASSUME NEW k \in running', NEW a \in Attribute, k.pushes,
             k.report.sets[a] # None, RowOf(a) \notin k.writes
        PROVE  k.report.n <= newest'[a]
    <3>1. CASE k \in running
      BY <1>4, <2>3, <3>1
    <3>2. CASE k = j /\ RowOf(a) # row
      BY <1>4, <2>1, <2>3, <3>2
    <3>3. CASE k = j /\ RowOf(a) = row
      <4>1. m.sets[a] # None
        BY <2>1, <2>3, <3>3
      <4>2. m.n <= newest'[a]
        BY <1>1, <1>3, <1>8, <3>3, <4>1, UpdateRowAt
      <4> QED
        BY <2>1, <3>3, <4>2
    <3> QED
      BY <2>2, <3>1, <3>2, <3>3
  <2> QED
    BY <1>5, <1>6, <2>3 DEF HandledInv
<1> QED
  BY <1>7, <1>8, WriteGoes

LEMMA HandledNext ==
  ASSUME TypeInv, HandledInv, [Next]_vars
  PROVE  HandledInv'
<1> USE DEF TypeInv
<1>0. ASSUME UNCHANGED cloudVars,
             \A p \in pushes' : \A a \in Attribute :
               p.sets[a] # None => p.from[a] <= newest[a],
             \A a \in Attribute : seen'[a] <= newest[a]
      PROVE  HandledInv'
  BY <1>0 DEF HandledInv, cloudVars
<1>1. CASE Apart
  BY <1>0, <1>1 DEF Apart, HandledInv, clientVars
<1>2. ASSUME NEW m \in reports, Start(m) PROVE HandledInv'
  BY <1>2, HandledStart
<1>3. ASSUME NEW i \in running, NEW row \in Row, Write(i, row) PROVE HandledInv'
  BY <1>3, HandledWrite
<1>4. ASSUME NEW i \in running, RequestDeviceState(i) PROVE HandledInv'
  <2> DEFINE j == [i EXCEPT !.asks = FALSE]
  <2>1. i \in Work
    BY DEF CloudType
  <2>2. j.report = i.report /\ j.writes = i.writes /\ j.pushes = i.pushes
    BY <2>1 DEF Work
  <2>3. /\ Goes(i, j) /\ UNCHANGED <<by, newest, overtaken>>
        /\ UNCHANGED <<pushes, seen>> /\ UNCHANGED replica
    BY <1>4, AsksGoes DEF RequestDeviceState, clientVars
  <2> HIDE DEF j
  <2>4. \A k \in running' : k \in running \/ k = j
    BY <2>3 DEF Goes, Unfinished
  <2> QED
    BY <2>2, <2>3, <2>4 DEF HandledInv
<1>5. ASSUME NEW i \in running, Push(i) PROVE HandledInv'
  <2> DEFINE j == [i EXCEPT !.pushes = FALSE]
             item == [sets |-> i.report.sets, from |-> [a \in Attribute |-> i.report.n]]
  <2>1. i \in Work
    BY DEF CloudType
  <2>2. ~j.pushes
    BY <2>1 DEF Work
  <2>3. /\ Goes(i, j) /\ UNCHANGED <<by, newest, overtaken>>
        /\ UNCHANGED seen /\ UNCHANGED replica
    BY <1>5, PushGoes DEF Push
  <2>4. i.pushes /\ i.writes = {}
    BY <1>5, PushGoes
  <2> HIDE DEF j
  <2>5. \A k \in running' : k \in running \/ k = j
    BY <2>3 DEF Goes, Unfinished
  <2>6. pushes' \subseteq pushes \cup {item}
    BY <1>5 DEF Push
  <2>7. ASSUME NEW a \in Attribute, item.sets[a] # None PROVE item.from[a] <= newest[a]
    BY <2>4, <2>7 DEF HandledInv
  <2> HIDE DEF item
  <2>8. \A p \in pushes' : \A a \in Attribute : p.sets[a] # None => p.from[a] <= newest'[a]
    BY <2>3, <2>6, <2>7 DEF HandledInv
  <2>9. ASSUME NEW k \in running', NEW a \in Attribute, k.pushes,
               k.report.sets[a] # None, RowOf(a) \notin k.writes
        PROVE  k.report.n <= newest'[a]
    BY <2>2, <2>3, <2>5, <2>9 DEF HandledInv
  <2>10. \A a \in Attribute :
           /\ seen'[a] <= newest'[a] /\ by'[a] <= newest'[a]
           /\ replica'.from[a] <= newest'[a]
           /\ a \notin overtaken' => by'[a] = newest'[a]
    BY <2>3 DEF HandledInv
  <2> QED
    BY <2>8, <2>9, <2>10 DEF HandledInv
<1>6. CASE Subscribe
  <2>1. \A a \in Attribute : newest[a] \in Nat /\ seen'[a] = 0
    BY <1>6 DEF Subscribe, CloudType
  <2> QED
    BY <1>0, <1>6, <2>1 DEF Subscribe, HandledInv
<1>7. CASE Respond
  <2>1. PICK behind : pushes' = pushes \cup {Version(behind)}
    BY <1>7, RespondStep
  <2>2. UNCHANGED seen /\ UNCHANGED cloudVars
    BY <1>7 DEF Respond
  <2>3. ASSUME NEW a \in Attribute PROVE Version(behind).from[a] <= newest[a]
    BY VersionAt DEF HandledInv
  <2> HIDE DEF Version
  <2> QED
    BY <1>0, <2>1, <2>2, <2>3 DEF HandledInv
<1>8. ASSUME NEW push \in pushes, Show(push) PROVE HandledInv'
  <2>1. /\ pushes' = pushes \ {push} /\ UNCHANGED cloudVars
        /\ \A a \in Attribute :
             \/ seen'[a] = seen[a]
             \/ seen'[a] = push.from[a] /\ push.sets[a] # None
    BY <1>8 DEF Show
  <2> QED
    BY <1>0, <2>1 DEF HandledInv
<1>9. CASE Leave
  BY <1>0, <1>9 DEF Leave, HandledInv
<1> QED
  BY <1>1, <1>2, <1>3, <1>4, <1>5, <1>6, <1>7, <1>8, <1>9, NextApart
  DEF Cloud, Invocation, Client

LEMMA TimeNext ==
  ASSUME TypeInv, HandledInv, TimeInv, [Next]_vars
  PROVE  TimeInv'
<1> USE DEF TypeInv
<1>0. /\ \A m \in Reports : m.n \in Nat /\ m.time \in Nat /\ m.time <= now /\ m.n <= sent
      /\ updated["property"] \in Nat /\ updated["property"] <= now /\ now \in Nat
      /\ by["value"] \in Nat
  BY DEF CloudType, Numbered, Row, Attribute
<1>1. ASSUME Reports' \subseteq Reports, updated'["property"] = updated["property"],
             by'["value"] \in Nat, by'["value"] >= by["value"]
      PROVE  TimeInv'
  BY <1>0, <1>1 DEF TimeInv
<1>2. CASE UNCHANGED <<sent, reports, cloudVars>>
  <2>1. Reports' = Reports
    BY <1>2 DEF Reports, cloudVars
  <2> QED
    BY <1>0, <1>1, <1>2, <2>1 DEF cloudVars
<1>3. ASSUME NEW r, Published(r), UNCHANGED <<now, cloudVars>> PROVE TimeInv'
  <2>1. /\ Reports' = Reports \cup {r} /\ r.n = sent + 1 /\ r.time = now
        /\ UNCHANGED updated /\ UNCHANGED by /\ sent \in Nat
    BY <1>3 DEF Published, cloudVars, Reports, CloudType
  <2> QED
    BY <1>0, <2>1 DEF TimeInv
<1>4. ASSUME NEW m \in reports, Start(m) PROVE TimeInv'
  <2>0. PICK value : Starts(m, value)
    BY <1>4, StartStep
  <2>1. by'["value"] = IF "value" \in Confirmed(m, value) THEN m.n ELSE by["value"]
    BY <2>0 DEF Starts, Attribute
  <2>2. "value" \in Confirmed(m, value) => m.n > newest["value"]
    BY BegunType
  <2>3. UNCHANGED updated
    BY <1>4 DEF Start
  <2>4. m.n \in Nat /\ newest["value"] \in Nat /\ by["value"] <= newest["value"]
    BY BegunType DEF ReportSet, CloudType, HandledInv, Attribute
  <2> QED
    BY <1>0, <1>1, <2>0, <2>1, <2>2, <2>3, <2>4, StartType
<1>5. ASSUME NEW i \in running, NEW row \in Row, Write(i, row) PROVE TimeInv'
  <2> DEFINE m == i.report
  <2>1. m \in ReportSet /\ m \in Reports /\ Reports' \subseteq Reports
    BY <1>5, WriteGoes, WriteType
  <2>2. CASE UNCHANGED <<store, by, updated, newest, overtaken>>
    BY <1>0, <1>1, <2>1, <2>2
  <2>3. CASE UpdateRow(m, row)
    <3>1. CASE ~(RowOf("value") = row /\ m.sets["value"] # None)
      <4>1. by'["value"] = by["value"]
        BY <2>1, <2>3, <3>1, UpdateRowAt DEF Attribute
      <4>2. row # "property"
        BY <1>5, <3>1, WriteGoes DEF RowOf
      <4>3. updated'["property"] = updated["property"]
        BY <2>3, <4>2 DEF UpdateRow, CloudType, Row
      <4> QED
        BY <1>0, <1>1, <2>1, <4>1, <4>3
    <3>2. CASE RowOf("value") = row /\ m.sets["value"] # None
      <4>1. row = "property"
        BY <3>2 DEF RowOf
      <4>2. \/ by'["value"] = by["value"] /\ updated' = updated
            \/ by'["value"] = m.n /\ updated'["property"] = m.time
        BY <2>1, <2>3, <3>2, <4>1, UpdateRowAt DEF Attribute
      <4> QED
        BY <1>0, <1>1, <2>1, <4>2 DEF TimeInv
    <3> QED
      BY <3>1, <3>2
  <2> QED
    BY <1>5, <2>2, <2>3, WriteGoes
<1>6. ASSUME NEW i \in running, RequestDeviceState(i) \/ Push(i) PROVE TimeInv'
  <2>1. Reports' \subseteq Reports /\ UNCHANGED <<by, updated>>
    BY <1>6, AsksGoes, PushGoes, GoesType
  <2> QED
    BY <1>0, <1>1, <2>1
<1> QED
  BY <1>2, <1>3, <1>4, <1>5, <1>6, NextCloudStep DEF CloudStep
LEMMA ToShowSays ==
  ASSUME NEW a, NEW n, NEW v, ToShow(a, n, v)
  PROVE  Says(a, n, v)
BY DEF ToShow, Says, Reports

LEMMA SaysBefore ==
  ASSUME TypeInv, HandledInv, NEW a \in Attribute, NEW n, NEW v, Says(a, n, v)
  PROVE  n \in Nat /\ n <= sent
<1>1. newest[a] \in Nat /\ newest[a] <= sent /\ sent \in Nat
  BY DEF TypeInv, CloudType
<1>2. ASSUME NEW p \in pushes, p.sets[a] # None PROVE p.from[a] \in Nat /\ p.from[a] <= sent
  BY <1>1, <1>2 DEF TypeInv, ClientType, HandledInv
<1>3. \A m \in Reports : m.n \in Nat /\ m.n <= sent
  BY <1>1 DEF TypeInv, CloudType, Numbered
<1>4. /\ by[a] \in Nat /\ by[a] <= sent /\ seen[a] \in Nat /\ seen[a] <= sent
      /\ replica.from[a] \in Nat /\ replica.from[a] <= sent
  BY <1>1 DEF TypeInv, CloudType, ClientType, HandledInv
<1> QED
  BY <1>2, <1>3, <1>4 DEF Says

\* Nothing new is said but by a new report.
LEMMA SaysNext ==
  ASSUME TypeInv, [Next]_vars, NEW a \in Attribute, NEW n, NEW v, Says(a, n, v)'
  PROVE  Says(a, n, v) \/ \E r : Published(r) /\ n = r.n /\ v = r.sets[a]
<1> DEFINE Pushed == \E p \in pushes : p.sets[a] = v /\ p.from[a] = n
           Reported == \E m \in Reports : m.sets[a] = v /\ m.n = n
           Kept == \/ by[a] = n /\ store[a] = v
                   \/ replica.from[a] = n /\ replica.sets[a] = v
           Seen == seen[a] = n /\ n # 0 /\ a \notin back /\ view[a] = v
<1>1. /\ Says(a, n, v) <=> (v # None /\ (Pushed \/ Reported \/ Kept)) \/ Seen
      /\ (v # None /\ (Pushed' \/ Reported' \/ Kept')) \/ Seen'
  BY DEF Says
<1>2. UNCHANGED pushes => (Pushed' => Pushed)
  OBVIOUS
<1>3. Reports' \subseteq Reports => (Reported' => Reported)
  OBVIOUS
<1>4. UNCHANGED <<by, store, replica>> => (Kept' => Kept)
  OBVIOUS
<1>5. UNCHANGED <<seen, back, view>> => (Seen' => Seen)
  OBVIOUS
<1> HIDE DEF Pushed, Reported, Kept, Seen
<1>6. CASE Apart
  <2>1. /\ UNCHANGED pushes /\ UNCHANGED <<by, store, replica>>
        /\ UNCHANGED <<seen, back, view>>
    BY <1>6 DEF Apart, cloudVars, clientVars
  <2>2. CASE UNCHANGED <<sent, reports>>
    <3>1. Reports' = Reports
      BY <1>6, <2>2 DEF Apart, cloudVars, Reports
    <3> QED
      BY <1>1, <1>2, <1>3, <1>4, <1>5, <2>1, <3>1
  <2>3. ASSUME NEW r, Published(r)
        PROVE  Says(a, n, v) \/ (n = r.n /\ v = r.sets[a])
    <3>1. Reports' = Reports \cup {r}
      BY <1>6, <2>3 DEF Apart, cloudVars, Reports, Published
    <3>2. Reported' => Reported \/ (n = r.n /\ v = r.sets[a])
      BY <3>1 DEF Reported
    <3> QED
      BY <1>1, <1>2, <1>4, <1>5, <2>1, <3>2
  <2> QED
    BY <1>6, <2>2, <2>3 DEF Apart
<1>7. ASSUME Cloud PROVE Says(a, n, v)
  <2>1. UNCHANGED <<seen, back, view>>
    BY <1>7 DEF Cloud, Start, Invocation, Write, RequestDeviceState, Push, clientVars
  <2>2. ASSUME NEW m \in reports, Start(m) PROVE Says(a, n, v)
    <3>0. PICK value : Starts(m, value)
      BY <2>2, StartStep
    <3>1. UNCHANGED pushes /\ Reports' \subseteq Reports
      BY <2>2, <3>0, StartType DEF Start, clientVars, TypeInv
    <3>2. /\ by'[a] = IF a \in Confirmed(m, value) THEN m.n ELSE by[a]
          /\ store' = store /\ replica' = replica
      BY <3>0 DEF Starts
    <3>3. Kept' => Kept \/ Reported
      BY <3>2, BegunType DEF Kept, Reported, TypeInv
    <3> QED
      BY <1>1, <1>2, <1>3, <1>5, <2>1, <3>1, <3>3
  <2>3. ASSUME NEW i \in running, NEW row \in Row, Write(i, row) PROVE Says(a, n, v)
    <3>1. UNCHANGED pushes /\ Reports' \subseteq Reports
      BY <2>3, WriteType DEF Write, clientVars, TypeInv
    <3>2. i.report \in Reports /\ i.report \in ReportSet
      BY <2>3, WriteGoes DEF TypeInv
    <3>3. \/ by'[a] = by[a] /\ store'[a] = store[a]
          \/ by'[a] = i.report.n /\ store'[a] = i.report.sets[a]
      <4>1. CASE UNCHANGED <<store, by, updated, newest, overtaken>>
        BY <4>1
      <4>2. CASE UpdateRow(i.report, row)
        BY <3>2, <4>2, UpdateRowAt DEF TypeInv
      <4> QED
        BY <2>3, <4>1, <4>2, WriteGoes DEF TypeInv
    <3>4. \/ replica'.from[a] = by[a] /\ replica'.sets[a] = store[a]
          \/ replica'.from[a] = replica.from[a] /\ replica'.sets[a] = replica.sets[a]
      <4>1. replica' = replica \/ replica' = Version(Row \ {row})
        BY <2>3, WriteGoes, UpdateRowReplica DEF TypeInv
      <4>2. LET version == Version(Row \ {row})
            IN  \/ version.from[a] = by[a] /\ version.sets[a] = store[a]
                \/ version.from[a] = replica.from[a] /\ version.sets[a] = replica.sets[a]
        BY VersionAt DEF TypeInv
      <4> QED
        BY <4>1, <4>2
    <3>5. Kept' => Kept \/ Reported
      BY <3>2, <3>3, <3>4 DEF Kept, Reported
    <3> QED
      BY <1>1, <1>2, <1>3, <1>5, <2>1, <3>1, <3>5
  <2>4. ASSUME NEW i \in running, RequestDeviceState(i) PROVE Says(a, n, v)
    <3>1. /\ UNCHANGED pushes /\ Reports' \subseteq Reports
          /\ UNCHANGED <<by, store, replica>>
      BY <2>4, AsksGoes, GoesType DEF RequestDeviceState, clientVars, TypeInv
    <3> QED
      BY <1>1, <1>2, <1>3, <1>4, <1>5, <2>1, <3>1
  <2>5. ASSUME NEW i \in running, Push(i) PROVE Says(a, n, v)
    <3>1. /\ Reports' \subseteq Reports /\ UNCHANGED <<by, store, replica>>
          /\ i.report \in Reports
      BY <2>5, PushGoes, GoesType DEF TypeInv
    <3>2. pushes' \subseteq pushes \cup
            {[sets |-> i.report.sets, from |-> [b \in Attribute |-> i.report.n]]}
      BY <2>5 DEF Push
    <3>3. Pushed' => Pushed \/ Reported
      BY <3>1, <3>2 DEF Pushed, Reported
    <3> QED
      BY <1>1, <1>3, <1>4, <1>5, <2>1, <3>1, <3>3
  <2> QED
    BY <1>7, <2>2, <2>3, <2>4, <2>5 DEF Cloud, Invocation
<1>8. ASSUME Client PROVE Says(a, n, v)
  <2>1. UNCHANGED <<by, store, replica>> /\ Reports' = Reports
    BY <1>8 DEF Client, Subscribe, Respond, Leave, Show, brokerVars, cloudVars, Reports
  <2>2. CASE Subscribe
    <3>1. ~Seen' /\ UNCHANGED pushes
      BY <2>2 DEF Subscribe, Seen
    <3> QED
      BY <1>1, <1>2, <1>3, <1>4, <2>1, <3>1
  <2>3. CASE Respond
    <3>1. Pushed' => Pushed \/ Kept
      <4>1. PICK behind : pushes' = pushes \cup {Version(behind)}
        BY <2>3, RespondStep
      <4> DEFINE answer == Version(behind)
      <4>2. \/ answer.sets[a] = store[a] /\ answer.from[a] = by[a]
            \/ answer.sets[a] = replica.sets[a] /\ answer.from[a] = replica.from[a]
        BY VersionAt DEF TypeInv
      <4>3. pushes' = pushes \cup {answer}
        BY <4>1
      <4> HIDE DEF answer
      <4> QED
        BY <4>2, <4>3 DEF Pushed, Kept
    <3>2. UNCHANGED <<seen, back, view>>
      BY <2>3 DEF Respond
    <3> QED
      BY <1>1, <1>3, <1>4, <1>5, <2>1, <3>1, <3>2
  <2>4. CASE Leave
    <3>1. ~Pushed' /\ UNCHANGED <<seen, back, view>>
      BY <2>4 DEF Leave, Pushed
    <3> QED
      BY <1>1, <1>3, <1>4, <1>5, <2>1, <3>1
  <2>5. ASSUME NEW push \in pushes, Show(push) PROVE Says(a, n, v)
    <3>1. Pushed' => Pushed
      BY <2>5 DEF Show, Pushed
    <3>2. Seen' => Seen \/ (Pushed /\ v # None)
      <4> DEFINE told == {b \in Attribute : push.sets[b] # None}
                 newer == {b \in told : push.from[b] >= seen[b]}
      <4>1. /\ view'[a] = IF a \in told THEN push.sets[a] ELSE view[a]
            /\ seen'[a] = IF a \in newer THEN push.from[a] ELSE seen[a]
            /\ back' = (back \ newer) \cup (told \ newer)
        BY <2>5 DEF Show
      <4>2. /\ a \in newer => a \in told
            /\ a \in told => push.sets[a] # None
        OBVIOUS
      <4> HIDE DEF told, newer
      <4> QED
        BY <4>1, <4>2 DEF Seen, Pushed
    <3> QED
      BY <1>1, <1>3, <1>4, <2>1, <3>1, <3>2
  <2> QED
    BY <1>8, <2>2, <2>3, <2>4, <2>5 DEF Client
<1> QED
  BY <1>6, <1>7, <1>8, NextApart

LEMMA OneVoiceNext ==
  ASSUME TypeInv, HandledInv, OneVoice, [Next]_vars
  PROVE  OneVoice'
<1>1. SUFFICES ASSUME NEW a \in Attribute, NEW n, NEW v, NEW w,
                      Says(a, n, v)', Says(a, n, w)'
               PROVE  v = w
  BY DEF OneVoice
<1>2. /\ Says(a, n, v) \/ \E r : Published(r) /\ n = r.n /\ v = r.sets[a]
      /\ Says(a, n, w) \/ \E r : Published(r) /\ n = r.n /\ w = r.sets[a]
  BY <1>1, SaysNext
<1>3. CASE Says(a, n, v) /\ Says(a, n, w)
  BY <1>3 DEF OneVoice
<1>4. ASSUME NEW r, Published(r), n = r.n, Says(a, n, v) \/ Says(a, n, w)
      PROVE  FALSE
  <2>1. n = sent + 1 /\ sent \in Nat
    BY <1>4 DEF Published, TypeInv, CloudType
  <2>2. n <= sent
    BY <1>4, SaysBefore
  <2> QED
    BY <2>1, <2>2
<1>5. ASSUME NEW r, Published(r), NEW s, Published(s) PROVE r = s
  <2>1. r \notin reports /\ s \notin reports
    <3>1. \A m \in reports : m.n \in 1 .. sent
      BY DEF TypeInv, CloudType, Numbered, Reports
    <3>2. sent + 1 \notin 1 .. sent
      BY DEF TypeInv, CloudType
    <3> QED
      BY <1>5, <3>1, <3>2 DEF Published
  <2> QED
    BY <1>5, <2>1 DEF Published
<1> QED
  BY <1>2, <1>3, <1>4, <1>5
\* Reports the writes of which have begun.
Writing(a) == {m \in Pending(a) : m \notin reports}

\* The last thing the client will be shown of an attribute, or has been shown,
\* is v from report n; the store has it, or will when the report is written.
Shows(a, n, v) ==
  /\ n \in Nat
  /\ ToShow(a, n, v) \/ (seen[a] = n /\ (a \in back \/ view[a] = v))
  /\ seen[a] <= n
  /\ \A k, w : ToShow(a, k, w) => k <= n /\ (k = n => w = v)
  /\ \/ n <= newest[a] /\ (a \in overtaken \/ store[a] = v)
     \/ \E m \in Writing(a) : m.n = n
  /\ IF a = "value" THEN UpdatedBefore(n) ELSE newest[a] <= n \/ a \in overtaken

\* A push that was given up is not forgotten while its invocation writes on.
UnannouncedInv == \A i \in running : Unannounced(i) => "view" \in lost

ViewInv ==
  subscribed /\ ~asking /\ "view" \notin lost =>
    \A a \in Attribute : \E n, v : Shows(a, n, v)

LEMMA ShowsSame ==
  ASSUME NEW a \in Attribute, NEW n, NEW v, Shows(a, n, v),
         \A k, w : ToShow(a, k, w)' => ToShow(a, k, w),
         ToShow(a, n, v) => \/ ToShow(a, n, v)'
                            \/ seen[a] = n /\ (a \in back \/ view[a] = v),
         UNCHANGED <<seen, view, back>>,
         newest'[a] = newest[a], store'[a] = store[a], a \in overtaken' <=> a \in overtaken,
         \A m \in Writing(a) : m \in Writing(a)',
         UpdatedBefore(n) => UpdatedBefore(n)'
  PROVE  Shows(a, n, v)'
BY DEF Shows

LEMMA ShowsApart ==
  ASSUME TypeInv, Apart, NEW a \in Attribute, NEW n, NEW v, Shows(a, n, v)
  PROVE  Shows(a, n, v)'
<1>1. /\ UNCHANGED <<running, store, updated, newest, overtaken>>
      /\ UNCHANGED <<pushes, seen, view, back>>
  BY DEF Apart, cloudVars, clientVars
<1>2. \A k, w : ToShow(a, k, w)' <=> ToShow(a, k, w)
  BY <1>1 DEF ToShow
<1>3. CASE UNCHANGED reports
  <2>1. Reports' = Reports
    BY <1>1, <1>3 DEF Reports
  <2>2. (\A m \in Writing(a) : m \in Writing(a)') /\ (UpdatedBefore(n) => UpdatedBefore(n)')
    BY <1>1, <1>3, <2>1 DEF Writing, Pending, UpdatedBefore
  <2> QED
    BY <1>1, <1>2, <2>2, ShowsSame
<1>4. ASSUME NEW r, Published(r), UNCHANGED now PROVE Shows(a, n, v)'
  <2>1. Reports' = Reports \cup {r} /\ reports \subseteq reports' /\ r.time = now
    BY <1>1, <1>4 DEF Reports, Published
  <2>2. ASSUME NEW m \in Writing(a) PROVE m \in Writing(a)'
    <3>1. m \in Reports /\ m \notin reports
      BY DEF Writing, Pending
    <3>2. m.n \in 1 .. sent /\ sent + 1 \notin 1 .. sent
      BY <3>1 DEF TypeInv, CloudType, Numbered
    <3>3. m \notin reports'
      BY <1>4, <3>1, <3>2 DEF Published
    <3> QED
      BY <1>1, <2>1, <3>3 DEF Writing, Pending
  <2>3. now >= updated["property"]
    BY DEF TypeInv, CloudType, Row
  <2>4. UpdatedBefore(n) => UpdatedBefore(n)'
    BY <1>1, <2>1, <2>3 DEF UpdatedBefore
  <2> QED
    BY <1>1, <1>2, <2>2, <2>4, ShowsSame
<1> QED
  BY <1>3, <1>4 DEF Apart

LEMMA ToShowGoes ==
  ASSUME CloudType, NEW i \in running, NEW j, Goes(i, j), j.pushes = i.pushes,
         UNCHANGED pushes, NEW a, NEW n, NEW v
  PROVE  ToShow(a, n, v)' <=> ToShow(a, n, v)
<1>1. running' = (running \ {i}) \cup Unfinished(j) /\ j.report = i.report
  BY DEF Goes
<1>2. j.pushes => j \in running'
  BY <1>1 DEF Unfinished
<1>3. \A k \in running' : k \in running \/ k = j
  BY <1>1 DEF Unfinished
<1>4. \A k \in running : k # i => k \in running'
  BY <1>1
<1> QED
  BY <1>1, <1>2, <1>3, <1>4 DEF ToShow

\* When an invocation starts that will push, the greater of its number and the
\* last number so far is the last to be shown.
LEMMA ShowsStart ==
  ASSUME TypeInv, HandledInv, OneVoice, NEW m \in reports, Start(m),
         "view" \notin lost', NEW a \in Attribute, NEW n, NEW v, Shows(a, n, v)
  PROVE  \E k, w : Shows(a, k, w)'
<1> USE DEF TypeInv
<1>0. PICK value : Starts(m, value)
  BY StartStep
<1> DEFINE begun == Begun(m, value)
           none == Writes(m, value) = {}
           unwritten == Unwritten(m, value)
           confirmed == Confirmed(m, value)
<1>1. /\ running' = running \cup Unfinished(begun) /\ UNCHANGED pushes
      /\ newest' = [b \in Attribute |-> IF b \in unwritten THEN m.n ELSE newest[b]]
      /\ overtaken' = (overtaken \ confirmed) \cup (unwritten \ confirmed)
      /\ store' = store /\ updated' = updated /\ reports' = reports \ {m}
      /\ UNCHANGED <<seen, view, back>>
      /\ confirmed \cap overtaken = {}
  BY <1>0 DEF Start, Starts, clientVars
<1>2. /\ begun.report = m /\ (begun.pushes <=> ~none)
      /\ m \in Reports /\ m.n \in Nat /\ m \in ReportSet
  BY BegunType DEF Begun, ReportSet
<1>3. \A b \in unwritten : b = "value" /\ none
  BY BegunType
<1> HIDE DEF begun, unwritten, confirmed
<1>4. UpdatedBefore(n) => UpdatedBefore(n)'
  BY <1>0, <1>1, StartType DEF UpdatedBefore
<1>5. n \in Nat /\ newest[a] \in Nat /\ seen[a] \in Nat /\ newest[a] <= newest'[a]
  <2>1. CloudStep
    BY DEF CloudStep
  <2> QED
    BY <2>1, NewestGrows DEF Shows, CloudType, ClientType
<1>6. \A p \in Writing(a) : p \in Writing(a)'
  BY <1>0, <1>1, PendingStart DEF Writing
<1>7. overtaken \subseteq overtaken'
  BY <1>1
<1>8. CASE none
  <2>1. \A k, w : ToShow(a, k, w)' <=> ToShow(a, k, w)
    <3>1. \A k \in running' : k.pushes => k \in running
      BY <1>1, <1>2, <1>8 DEF Unfinished
    <3>2. \A k \in running : k \in running'
      BY <1>1
    <3> QED
      BY <1>1, <3>1, <3>2 DEF ToShow
  <2>2. IF a = "value" THEN UpdatedBefore(n)' ELSE newest'[a] <= n \/ a \in overtaken'
    <3>1. a # "value" => a \notin unwritten
      BY <1>3
    <3> QED
      BY <1>1, <1>4, <1>7, <3>1 DEF Shows
  <2>3. \/ n <= newest'[a] /\ (a \in overtaken' \/ store'[a] = v)
        \/ \E p \in Writing(a)' : p.n = n
    <3>1. CASE n <= newest[a] /\ (a \in overtaken \/ store[a] = v)
      <4>1. newest'[a] \in Nat
        BY <1>1, <1>2, <1>5
      <4> QED
        BY <1>1, <1>5, <1>7, <3>1, <4>1
    <3>2. CASE \E p \in Writing(a) : p.n = n
      BY <1>6, <3>2
    <3> QED
      BY <3>1, <3>2 DEF Shows
  <2>4. Shows(a, n, v)'
    BY <1>1, <2>1, <2>2, <2>3 DEF Shows
  <2> QED
    BY <2>4
<1>9. CASE ~none
  <2>1. /\ newest'[a] = newest[a] /\ (a \in overtaken' <=> a \in overtaken)
        /\ store'[a] = store[a]
    <3>1. unwritten = {}
      BY <1>3, <1>9
    <3>2. confirmed \subseteq unwritten
      BY BegunType DEF confirmed, unwritten
    <3> QED
      BY <1>1, <3>1, <3>2
  <2>2. \A k, w : ToShow(a, k, w)' <=>
                    ToShow(a, k, w) \/ (k = m.n /\ w = m.sets[a] /\ w # None)
    <3>1. begun \in running' /\ begun.pushes
      BY <1>1, <1>2, <1>9 DEF Unfinished
    <3>2. \A k \in running' : k \in running \/ k = begun
      BY <1>1 DEF Unfinished
    <3>3. \A k \in running : k \in running'
      BY <1>1
    <3> QED
      BY <1>1, <1>2, <3>1, <3>2, <3>3 DEF ToShow
  <2>3. CASE m.sets[a] = None
    <3>1. Shows(a, n, v)'
      BY <1>1, <1>4, <1>6, <2>1, <2>2, <2>3, ShowsSame
    <3> QED
      BY <3>1
  <2>4. CASE m.sets[a] # None /\ m.n < n
    <3>1. Shows(a, n, v)'
      BY <1>1, <1>2, <1>4, <1>5, <1>6, <2>1, <2>2, <2>4 DEF Shows
    <3> QED
      BY <3>1
  <2>5. CASE m.sets[a] # None /\ ~(m.n < n)
    <3>1. m \in Writing(a)'
      <4>1. m \in Pending(a)'
        BY <1>0, <1>9, <2>5, PendingStart
      <4> QED
        BY <1>1, <4>1 DEF Writing
    <3>2. UpdatedBefore(n) => UpdatedBefore(m.n)
      <4>1. \A p \in Reports : p.n \in Nat
        BY DEF CloudType, Numbered
      <4> QED
        BY <1>2, <1>5, <2>5, <4>1 DEF UpdatedBefore
    <3>3. UpdatedBefore(m.n) => UpdatedBefore(m.n)'
      BY <1>0, <1>1, StartType DEF UpdatedBefore
    <3>4. \A k, w : ToShow(a, k, w) => k \in Nat /\ k <= m.n /\ (k = m.n => w = m.sets[a])
      <4>1. ASSUME NEW k, NEW w, ToShow(a, k, w)
            PROVE  k \in Nat /\ k <= m.n /\ (k = m.n => w = m.sets[a])
        <5>1. k \in Nat /\ k <= n
          BY <4>1, ToShowSays, SaysBefore DEF Shows
        <5>2. Says(a, m.n, m.sets[a])
          BY <1>2, <2>5 DEF Says
        <5>3. k = m.n => w = m.sets[a]
          BY <4>1, <5>2, ToShowSays DEF OneVoice
        <5> QED
          BY <1>2, <1>5, <2>5, <5>1, <5>3
      <4> QED
        BY <4>1
    <3>5. /\ seen'[a] <= m.n
          /\ IF a = "value" THEN UpdatedBefore(m.n)'
             ELSE newest'[a] <= m.n \/ a \in overtaken'
      BY <1>1, <1>2, <1>5, <2>1, <2>5, <3>2, <3>3 DEF Shows
    <3>6. ToShow(a, m.n, m.sets[a])'
      BY <2>2, <2>5
    <3>7. \A k, w : ToShow(a, k, w)' => k <= m.n /\ (k = m.n => w = m.sets[a])
      BY <1>2, <2>2, <3>4
    <3>8. Shows(a, m.n, m.sets[a])'
      BY <1>2, <3>1, <3>5, <3>6, <3>7 DEF Shows
    <3> QED
      BY <3>8
  <2> QED
    BY <2>3, <2>4, <2>5
<1> QED
  BY <1>8, <1>9

\* A write whose report will be pushed: it is from the last report to show, or
\* from an older one.
LEMMA ShowsWrite ==
  ASSUME TypeInv, TimeInv, UnannouncedInv, NEW i \in running, NEW row \in Row, Write(i, row),
         "view" \notin lost', NEW a \in Attribute, NEW n, NEW v, Shows(a, n, v)
  PROVE  Shows(a, n, v)'
<1> USE DEF TypeInv
<1> DEFINE m == i.report
           j == [i EXCEPT !.writes = @ \ {row}]
<1>1. /\ UpdateRow(m, row) /\ Goes(i, j) /\ i.pushes
      /\ m \in ReportSet /\ m \in Reports /\ m.n \in Nat /\ i \in Work
  <2>1. row \in i.writes
    BY DEF Write
  <2>2. lost \subseteq lost'
    BY WriteGoes
  <2>3. i.pushes
    BY <2>1, <2>2 DEF UnannouncedInv, Unannounced
  <2>4. UpdateRow(m, row) /\ Goes(i, j)
    <3>1. "view" \notin lost \cup Columns(row) \cup {"view"} => FALSE
      OBVIOUS
    <3> QED
      BY <3>1, WriteGoes
  <2>5. m \in ReportSet /\ m \in Reports
    BY WriteGoes
  <2>6. m.n \in Nat /\ i \in Work
    BY <2>5 DEF ReportSet, CloudType
  <2> QED
    BY <2>3, <2>4, <2>5, <2>6
<1>2. j.pushes = i.pushes
  BY <1>1 DEF Work
<1>3. UNCHANGED pushes /\ UNCHANGED <<seen, view, back>>
  BY DEF Write, clientVars
<1> HIDE DEF j
<1>4. \A k, w : ToShow(a, k, w)' <=> ToShow(a, k, w)
  BY <1>1, <1>2, <1>3, ToShowGoes
<1>5. Reports' \subseteq Reports /\ \A p \in Reports : p.n \in Nat /\ p.time \in Nat
  BY WriteType DEF CloudType, Numbered
<1>6. CASE ~(RowOf(a) = row /\ m.sets[a] # None)
  <2>1. /\ newest'[a] = newest[a] /\ store'[a] = store[a]
        /\ a \in overtaken' <=> a \in overtaken
    BY <1>1, <1>6, UpdateRowAt
  <2>2. \A p \in Writing(a) : p \in Writing(a)'
    BY <1>1, <1>6, PendingWrite DEF Writing, Goes
  <2>3. CASE a = "value"
    <3>1. row # "property"
      BY <1>6, <2>3, WriteGoes DEF RowOf
    <3>2. updated'["property"] = updated["property"]
      BY <1>1, <3>1 DEF UpdateRow, CloudType, Row
    <3>3. UpdatedBefore(n) => UpdatedBefore(n)'
      BY <1>5, <3>2 DEF UpdatedBefore
    <3> QED
      BY <1>3, <1>4, <2>1, <2>2, <3>3, ShowsSame
  <2>4. CASE a # "value"
    BY <1>3, <1>4, <2>1, <2>2, <2>4 DEF Shows
  <2> QED
    BY <2>3, <2>4
<1>7. CASE RowOf(a) = row /\ m.sets[a] # None
  <2>1. m.n <= n /\ (m.n = n => m.sets[a] = v) /\ n \in Nat /\ newest[a] \in Nat
    <3>1. ToShow(a, m.n, m.sets[a])
      BY <1>1, <1>7 DEF ToShow
    <3> QED
      BY <3>1 DEF Shows, CloudType
  <2>2. \A p \in Writing(a) : p # m => p \in Writing(a)'
    BY <1>1, <1>7, PendingWrite DEF Writing, Goes
  <2>3. a = "value" => row = "property"
    BY <1>7 DEF RowOf
  <2> DEFINE Applied == m.time >= updated[row]
  <2>4. /\ m.n >= newest[a] =>
             /\ newest'[a] = m.n
             /\ IF Applied THEN store'[a] = m.sets[a] /\ a \notin overtaken'
                ELSE a \in overtaken'
        /\ ~(m.n >= newest[a]) =>
             /\ newest'[a] = newest[a]
             /\ IF Applied THEN a \in overtaken'
                ELSE store'[a] = store[a] /\ (a \in overtaken' <=> a \in overtaken)
        /\ IF Applied THEN updated'[row] = m.time ELSE updated' = updated
    BY <1>1, <1>7, UpdateRowAt
  <2>5. a = "value" => UpdatedBefore(n)'
    <3>1. ASSUME a = "value" PROVE UpdatedBefore(n)'
      <4>1. UpdatedBefore(n) /\ row = "property"
        BY <2>3, <3>1 DEF Shows
      <4>2. CASE Applied
        <5>1. updated'["property"] = m.time
          BY <2>4, <4>1, <4>2
        <5>2. ASSUME NEW p \in Reports', p.n >= n PROVE p.time >= m.time
          <6>1. p \in Reports /\ m.n <= p.n
            BY <1>1, <1>5, <2>1, <5>2
          <6>2. m.time <= p.time
            BY <1>1, <6>1 DEF TimeInv
          <6> QED
            BY <1>1, <1>5, <6>1, <6>2
        <5> QED
          BY <5>1, <5>2 DEF UpdatedBefore
      <4>3. CASE ~Applied
        BY <1>5, <2>4, <4>1, <4>3 DEF UpdatedBefore
      <4> QED
        BY <4>2, <4>3
    <3> QED
      BY <3>1
  <2>6. a # "value" => newest'[a] <= n \/ a \in overtaken'
    <3>1. a # "value" => newest[a] <= n \/ a \in overtaken
      BY DEF Shows
    <3> QED
      BY <1>1, <2>1, <2>4, <3>1
  <2>7. \/ n <= newest'[a] /\ (a \in overtaken' \/ store'[a] = v)
        \/ \E p \in Writing(a)' : p.n = n
    <3>1. CASE m.n = n /\ m.n >= newest[a]
      BY <1>1, <2>1, <2>4, <3>1
    <3>2. CASE m.n = n /\ ~(m.n >= newest[a])
      <4>1. newest'[a] = newest[a] /\ n <= newest'[a]
        BY <1>1, <2>1, <2>4, <3>2
      <4>2. a \in overtaken'
        <5>1. CASE Applied
          BY <2>4, <3>2, <5>1
        <5>2. CASE ~Applied /\ a = "value"
          <6>1. UpdatedBefore(n) /\ m.n >= n
            BY <1>1, <3>2, <5>2 DEF Shows
          <6> QED
            BY <1>1, <2>3, <5>2, <6>1 DEF UpdatedBefore
        <5>3. CASE ~Applied /\ a # "value"
          <6>1. newest[a] <= n \/ a \in overtaken
            BY <5>3 DEF Shows
          <6>2. ~(newest[a] <= n)
            BY <1>1, <2>1, <3>2
          <6> QED
            BY <2>4, <3>2, <5>3, <6>1, <6>2
        <5> QED
          BY <5>1, <5>2, <5>3
      <4> QED
        BY <4>1, <4>2
    <3>3. CASE m.n # n
      <4>1. m.n < n
        BY <1>1, <2>1, <3>3
      <4>2. CASE n <= newest[a] /\ (a \in overtaken \/ store[a] = v)
        <5>1. ~(m.n >= newest[a])
          BY <1>1, <2>1, <4>1, <4>2
        <5> QED
          BY <2>4, <4>2, <5>1
      <4>3. ASSUME NEW p \in Writing(a), p.n = n PROVE p \in Writing(a)'
        BY <2>2, <3>3, <4>3
      <4> QED
        BY <4>2, <4>3 DEF Shows
    <3> QED
      BY <3>1, <3>2, <3>3
  <2> QED
    BY <1>3, <1>4, <2>1, <2>5, <2>6, <2>7 DEF Shows
<1> QED
  BY <1>6, <1>7

\* What an invocation tells goes from the invocation to the pushes, or else the
\* client is told by another push.
LEMMA ShowsGoes ==
  ASSUME TypeInv, OneVoice, NEW i \in running, RequestDeviceState(i) \/ Push(i),
         subscribed, ~asking, "view" \notin lost',
         NEW a \in Attribute, NEW n, NEW v, Shows(a, n, v)
  PROVE  Shows(a, n, v)'
<1> USE DEF TypeInv
<1>1. i \in Work /\ i.report \in Reports
  BY DEF CloudType, Reports
<1>2. UNCHANGED <<seen, view, back>> /\ UNCHANGED <<store, updated, newest, overtaken>>
  BY DEF RequestDeviceState, Push, clientVars
<1>3. ASSUME NEW j, Goes(i, j), j.writes = i.writes
      PROVE  /\ Reports' \subseteq Reports
             /\ \A p \in Writing(a) : p \in Writing(a)'
  <2>1. ASSUME NEW p \in Pending(a)
        PROVE  ~(p = i.report /\ RowOf(a) \notin i.writes)
    BY DEF Pending, CloudType, Numbered
  <2>2. \A p \in Pending(a) : p \in Pending(a)'
    BY <1>3, <2>1, PendingGoes
  <2> QED
    BY <1>3, <2>2, GoesType DEF Writing, Goes
<1>4. CASE RequestDeviceState(i)
  <2> DEFINE j == [i EXCEPT !.asks = FALSE]
  <2>1. j.pushes = i.pushes /\ j.writes = i.writes
    BY <1>1 DEF Work
  <2>2. Goes(i, j) /\ UNCHANGED pushes
    BY <1>4, AsksGoes DEF RequestDeviceState, clientVars
  <2> HIDE DEF j
  <2>3. \A k, w : ToShow(a, k, w)' <=> ToShow(a, k, w)
    BY <2>1, <2>2, ToShowGoes
  <2>4. UpdatedBefore(n) => UpdatedBefore(n)'
    BY <1>2, <1>3, <2>1, <2>2 DEF UpdatedBefore
  <2> QED
    BY <1>2, <1>3, <2>1, <2>2, <2>3, <2>4, ShowsSame
<1>5. CASE Push(i)
  <2> DEFINE j == [i EXCEPT !.pushes = FALSE]
             item == [sets |-> i.report.sets, from |-> [b \in Attribute |-> i.report.n]]
  <2>1. ~j.pushes /\ j.writes = i.writes
    BY <1>1 DEF Work
  <2>2. Goes(i, j) /\ i.pushes
    BY <1>5, PushGoes
  <2>3. \/ pushes' = pushes \cup {item}
        \/ /\ pushes' = pushes
           /\ i.report.sets[a] # None => Reaches(a, i.report.n, running \ {i})
    BY <1>5 DEF Push, FailsAs, Misses
  <2>4. item.sets[a] = i.report.sets[a] /\ item.from[a] = i.report.n
    OBVIOUS
  <2> HIDE DEF j, item
  <2>5. /\ \A l \in running' : l \in running \ {i} \/ l = j
        /\ \A l \in running : l # i => l \in running'
    BY <2>2 DEF Goes, Unfinished
  <2>6. \A k, w : ToShow(a, k, w)' => ToShow(a, k, w)
    BY <2>1, <2>2, <2>3, <2>4, <2>5 DEF ToShow
  <2>7. ASSUME ToShow(a, n, v)
        PROVE  ToShow(a, n, v)' \/ (seen[a] = n /\ (a \in back \/ view[a] = v))
    <3>1. CASE pushes' = pushes \cup {item}
      BY <2>1, <2>4, <2>5, <2>7, <3>1 DEF ToShow
    <3>2. CASE pushes' = pushes /\ ~(i.report.sets[a] = v /\ i.report.n = n)
      BY <2>5, <2>7, <3>2 DEF ToShow
    <3>3. CASE pushes' = pushes /\ i.report.sets[a] = v /\ i.report.n = n
      <4>1. v # None /\ n \in Nat /\ seen[a] \in Nat /\ seen[a] <= n
        BY <2>7 DEF ToShow, Shows, ClientType
      <4>2. CASE Reaches(a, n, running \ {i})
        <5>1. CASE n \in 1 .. seen[a]
          <6>1. seen[a] = n /\ n # 0
            BY <4>1, <5>1
          <6>2. Says(a, n, v)
            BY <1>1, <3>3, <4>1 DEF Says
          <6>3. ASSUME a \notin back PROVE view[a] = v
            <7>1. Says(a, n, view[a])
              BY <6>1, <6>3 DEF Says
            <7> QED
              BY <6>2, <7>1 DEF OneVoice
          <6> QED
            BY <6>1, <6>3
        <5>2. ASSUME NEW p \in pushes, p.sets[a] # None, p.from[a] >= n
              PROVE  ToShow(a, n, v)'
          <6>1. ToShow(a, p.from[a], p.sets[a]) /\ p.from[a] \in Nat
            BY <5>2 DEF ToShow, ClientType
          <6>2. p.from[a] = n /\ p.sets[a] = v
            BY <4>1, <5>2, <6>1 DEF Shows
          <6> QED
            BY <3>3, <4>1, <6>2 DEF ToShow
        <5>3. ASSUME NEW l \in running \ {i}, l.pushes, l.report.sets[a] # None,
                     l.report.n >= n
              PROVE  ToShow(a, n, v)'
          <6>1. ToShow(a, l.report.n, l.report.sets[a]) /\ l.report.n \in Nat
            BY <5>3 DEF ToShow, CloudType, Work, ReportSet
          <6>2. l.report.n = n /\ l.report.sets[a] = v
            BY <4>1, <5>3, <6>1 DEF Shows
          <6> QED
            BY <2>5, <4>1, <5>3, <6>2 DEF ToShow
        <5> QED
          BY <4>2, <5>1, <5>2, <5>3 DEF Reaches
      <4>3. CASE pushes' = pushes \cup {item}
        BY <2>1, <2>4, <2>5, <2>7, <4>3 DEF ToShow
      <4> QED
        BY <2>3, <3>3, <4>1, <4>2, <4>3
    <3> QED
      BY <2>3, <3>1, <3>2, <3>3
  <2>8. UpdatedBefore(n) => UpdatedBefore(n)'
    BY <1>2, <1>3, <2>1, <2>2 DEF UpdatedBefore
  <2> QED
    BY <1>2, <1>3, <2>1, <2>2, <2>6, <2>7, <2>8, ShowsSame
<1> QED
  BY <1>4, <1>5

\* The client shows what it is told.
LEMMA ShowsShow ==
  ASSUME TypeInv, NEW push \in pushes, Show(push),
         NEW a \in Attribute, NEW n, NEW v, Shows(a, n, v)
  PROVE  Shows(a, n, v)'
<1> USE DEF TypeInv
<1>1. pushes' = pushes \ {push} /\ UNCHANGED cloudVars /\ UNCHANGED reports
  BY DEF Show, brokerVars
<1>2. /\ \A k, w : ToShow(a, k, w)' => ToShow(a, k, w)
      /\ \A k, w : ToShow(a, k, w) =>
                     ToShow(a, k, w)' \/ (push.sets[a] = w /\ push.from[a] = k /\ w # None)
  BY <1>1 DEF ToShow, cloudVars
<1>3. /\ newest' = newest /\ overtaken' = overtaken /\ store' = store
      /\ Writing(a)' = Writing(a) /\ (UpdatedBefore(n) => UpdatedBefore(n)')
  BY <1>1 DEF cloudVars, Writing, Pending, UpdatedBefore, Reports
<1>4. n \in Nat /\ seen[a] \in Nat /\ push.from[a] \in Nat /\ seen[a] <= n
  BY DEF Shows, ClientType
<1>5. \A k, w : ToShow(a, k, w)' => k <= n /\ (k = n => w = v)
  BY <1>2 DEF Shows
<1>6. ASSUME seen'[a] <= n,
             ToShow(a, n, v)' \/ (seen'[a] = n /\ (a \in back' \/ view'[a] = v))
      PROVE  Shows(a, n, v)'
  BY <1>3, <1>5, <1>6 DEF Shows
<1> DEFINE told == {b \in Attribute : push.sets[b] # None}
           newer == {b \in told : push.from[b] >= seen[b]}
<1>7. /\ view'[a] = IF a \in told THEN push.sets[a] ELSE view[a]
      /\ seen'[a] = IF a \in newer THEN push.from[a] ELSE seen[a]
      /\ back' = (back \ newer) \cup (told \ newer)
  BY DEF Show
<1>8. /\ a \in told <=> push.sets[a] # None
      /\ a \in newer <=> a \in told /\ push.from[a] >= seen[a]
  OBVIOUS
<1> HIDE DEF told, newer
<1>9. CASE push.sets[a] = None
  <2>1. /\ view'[a] = view[a] /\ seen'[a] = seen[a] /\ (a \in back' <=> a \in back)
        /\ \A w : ToShow(a, n, w) => ToShow(a, n, w)'
    BY <1>2, <1>7, <1>8, <1>9
  <2> QED
    BY <1>4, <1>6, <2>1 DEF Shows
<1>10. CASE push.sets[a] # None
  <2>1. push.from[a] <= n /\ (push.from[a] = n => push.sets[a] = v)
    <3>1. ToShow(a, push.from[a], push.sets[a])
      BY <1>10 DEF ToShow
    <3> QED
      BY <3>1 DEF Shows
  <2>2. CASE push.from[a] = n
    <3>1. seen'[a] = n /\ view'[a] = v
      BY <1>4, <1>7, <1>8, <1>10, <2>1, <2>2
    <3> QED
      BY <1>4, <1>6, <3>1
  <2>3. CASE push.from[a] # n
    <3>1. ToShow(a, n, v) => ToShow(a, n, v)'
      BY <1>2, <2>3
    <3>2. seen'[a] <= n
      BY <1>4, <1>7, <2>1
    <3>3. ASSUME seen[a] = n PROVE seen'[a] = n /\ a \in back'
      BY <1>4, <1>7, <1>8, <1>10, <2>1, <2>3, <3>3
    <3> QED
      BY <1>6, <3>1, <3>2, <3>3 DEF Shows
  <2> QED
    BY <2>2, <2>3
<1> QED
  BY <1>9, <1>10
\* After an answer that leaves nothing behind, the greatest number among what is to
\* come and what has been shown is the last to be shown.
LEMMA ShowsRespond ==
  ASSUME TypeInv, HandledInv, OneVoice, TimeInv, Respond, "view" \notin lost',
         NEW a \in Attribute
  PROVE  \E n, v : Shows(a, n, v)'
<1> USE DEF TypeInv
<1>0. PICK behind : pushes' = pushes \cup {Version(behind)} /\ ~LeftBehind(Version(behind))
  BY RespondStep
<1> DEFINE answer == Version(behind)
<1>1. /\ pushes' = pushes \cup {answer}
      /\ UNCHANGED cloudVars /\ UNCHANGED reports /\ UNCHANGED <<seen, view, back>>
  BY <1>0 DEF Respond, brokerVars
<1>2. /\ newest' = newest /\ overtaken' = overtaken /\ store' = store /\ by' = by
      /\ running' = running /\ Writing(a)' = Writing(a) /\ Reports' = Reports
      /\ \A n : UpdatedBefore(n) => UpdatedBefore(n)'
  BY <1>1 DEF cloudVars, Writing, Pending, UpdatedBefore, Reports
<1>3. /\ by[a] \in Nat /\ seen[a] \in Nat /\ newest[a] \in Nat /\ sent \in Nat
      /\ by[a] <= newest[a] /\ seen[a] <= newest[a] /\ newest[a] <= sent
      /\ a \notin overtaken => by[a] = newest[a]
      /\ store[a] # None
  BY DEF CloudType, ClientType, HandledInv
<1>4. /\ answer.sets[a] # None /\ answer.from[a] \in Nat /\ answer.from[a] <= newest[a]
      /\ Says(a, answer.from[a], answer.sets[a])
      /\ answer.from[a] < by[a] => Reaches(a, by[a], running)
  <2>1. answer.sets[a] # None /\ answer.from[a] \in Nat
    BY VersionType
  <2>2. \/ answer.sets[a] = store[a] /\ answer.from[a] = by[a]
        \/ answer.sets[a] = replica.sets[a] /\ answer.from[a] = replica.from[a]
    BY VersionAt
  <2>3. answer.from[a] < by[a] => Reaches(a, by[a], running)
    BY <1>0 DEF LeftBehind
  <2> HIDE DEF answer
  <2> QED
    BY <2>1, <2>2, <2>3 DEF Says, HandledInv
<1> HIDE DEF answer
<1>5. /\ \A k, w : k = answer.from[a] /\ w = answer.sets[a] => ToShow(a, k, w)'
      /\ \A k, w : ToShow(a, k, w) => ToShow(a, k, w)'
      /\ \A k, w : ToShow(a, k, w)' =>
                      ToShow(a, k, w) \/ (k = answer.from[a] /\ w = answer.sets[a])
  <2>1. ASSUME NEW k, NEW w, k = answer.from[a], w = answer.sets[a]
        PROVE  ToShow(a, k, w)'
    <3>1. answer \in pushes' /\ w # None
      BY <1>1, <1>4, <2>1
    <3>2. \E p \in pushes' : p.sets[a] = w /\ p.from[a] = k
      BY <2>1, <3>1
    <3> QED
      BY <3>1, <3>2 DEF ToShow
  <2>2. \A l, x : ToShow(a, l, x) => ToShow(a, l, x)'
    BY <1>1, <1>2 DEF ToShow
  <2>3. ASSUME NEW l, NEW x, ToShow(a, l, x)'
        PROVE  ToShow(a, l, x) \/ (l = answer.from[a] /\ x = answer.sets[a])
    <3>1. CASE \E p \in pushes' : p.sets[a] = x /\ p.from[a] = l
      BY <1>1, <2>3, <3>1 DEF ToShow
    <3>2. CASE \E i \in running' : i.pushes /\ i.report.sets[a] = x /\ i.report.n = l
      BY <1>2, <2>3, <3>2 DEF ToShow
    <3> QED
      BY <2>3, <3>1, <3>2 DEF ToShow
  <2> QED
    BY <2>1, <2>2, <2>3
<1>6. \A k, w : ToShow(a, k, w)' => Says(a, k, w)
  BY <1>4, <1>5, ToShowSays
<1> DEFINE T == {k \in Nat : k = seen[a] \/ \E w : ToShow(a, k, w)'}
<1>7. PICK g \in T : \A k \in T : k <= g
  <2>1. T \in SUBSET Nat /\ seen[a] \in T
    BY <1>3
  <2>2. \A k \in T : k <= sent
    BY <1>3, <1>6, SaysBefore
  <2> HIDE DEF T
  <2> QED
    BY <1>3, <2>1, <2>2, Greatest
<1>8. /\ g \in Nat /\ by[a] <= g /\ seen[a] <= g
      /\ \A k, w : ToShow(a, k, w)' => k \in Nat /\ k <= g
  <2>1. \A k, w : ToShow(a, k, w)' => k \in T
    BY <1>6, SaysBefore
  <2>2. g \in Nat /\ seen[a] <= g /\ \A k, w : ToShow(a, k, w)' => k \in Nat /\ k <= g
    <3>1. seen[a] \in T
      BY <1>3
    <3> QED
      BY <1>7, <2>1, <3>1
  <2> HIDE DEF T
  <2>3. CASE ~(answer.from[a] < by[a])
    BY <1>3, <1>4, <1>5, <2>2, <2>3
  <2>4. CASE by[a] \in 1 .. seen[a]
    BY <1>3, <2>2, <2>4
  <2>5. ASSUME NEW p \in pushes, p.sets[a] # None, p.from[a] >= by[a] PROVE by[a] <= g
    <3>1. ToShow(a, p.from[a], p.sets[a])
      BY <2>5 DEF ToShow
    <3> QED
      BY <1>3, <1>5, <2>2, <2>5, <3>1
  <2>6. ASSUME NEW i \in running, i.pushes, i.report.sets[a] # None, i.report.n >= by[a]
        PROVE  by[a] <= g
    <3>1. ToShow(a, i.report.n, i.report.sets[a])
      BY <2>6 DEF ToShow
    <3> QED
      BY <1>3, <1>5, <2>2, <2>6, <3>1
  <2> QED
    BY <1>4, <2>2, <2>3, <2>4, <2>5, <2>6 DEF Reaches
<1> HIDE DEF T
<1>9. IF a = "value" THEN UpdatedBefore(g)' ELSE newest'[a] <= g \/ a \in overtaken'
  <2>1. CASE a = "value"
    <3>1. \A p \in Reports : p.n \in Nat
      BY DEF CloudType, Numbered
    <3>2. UpdatedBefore(g)
      BY <1>3, <1>8, <2>1, <3>1 DEF TimeInv, UpdatedBefore
    <3> QED
      BY <1>2, <2>1, <3>2
  <2>2. CASE a # "value"
    BY <1>2, <1>3, <1>8, <2>2
  <2> QED
    BY <2>1, <2>2
<1>10. ASSUME NEW v, ToShow(a, g, v)' PROVE Shows(a, g, v)'
  <2>1. \A w : Says(a, g, w) => w = v
    BY <1>6, <1>10 DEF OneVoice
  <2>2. \A k, w : ToShow(a, k, w)' => k <= g /\ (k = g => w = v)
    BY <1>6, <1>8, <2>1
  <2>3. CASE g <= newest[a]
    <3>1. a \in overtaken \/ store[a] = v
      <4>1. CASE g = by[a]
        BY <1>3, <2>1, <4>1 DEF Says
      <4>2. CASE g # by[a]
        BY <1>3, <1>8, <2>3, <4>2
      <4> QED
        BY <4>1, <4>2
    <3> QED
      BY <1>1, <1>2, <1>8, <1>9, <1>10, <2>2, <2>3, <3>1 DEF Shows
  <2>4. CASE ~(g <= newest[a])
    <3>1. ToShow(a, g, v)
      BY <1>3, <1>4, <1>5, <1>10, <2>4
    <3>2. ASSUME NEW p \in pushes, p.sets[a] = v, p.from[a] = g, v # None PROVE FALSE
      BY <2>4, <3>2 DEF HandledInv
    <3>3. PICK i \in running : i.pushes /\ i.report.sets[a] = v /\ i.report.n = g
      BY <3>1, <3>2 DEF ToShow
    <3>4. v # None
      BY <3>1 DEF ToShow
    <3>5. RowOf(a) \in i.writes
      BY <2>4, <3>3, <3>4 DEF HandledInv
    <3>6. i.report \in Writing(a)
      <4>1. i.report \notin reports
        BY DEF CloudType, Numbered
      <4> QED
        BY <3>3, <3>4, <3>5, <4>1 DEF Writing, Pending, Reports
    <3> QED
      BY <1>1, <1>2, <1>8, <1>9, <1>10, <2>2, <3>3, <3>6 DEF Shows
  <2> QED
    BY <2>3, <2>4
<1>11. CASE \E v : ToShow(a, g, v)'
  BY <1>10, <1>11
<1>12. CASE \A v : ~ToShow(a, g, v)'
  <2>1. g = seen[a] /\ g # 0 /\ g <= newest[a]
    <3>1. g = seen[a]
      BY <1>7, <1>12 DEF T
    <3>2. answer.from[a] # g /\ answer.from[a] <= g
      BY <1>5, <1>8, <1>12
    <3> QED
      BY <1>3, <1>4, <1>8, <3>1, <3>2
  <2>2. \A k, w : ToShow(a, k, w)' => k <= g /\ k # g
    BY <1>8, <1>12
  <2>3. CASE a \in overtaken
    <3>1. PICK v : v = view[a]
      OBVIOUS
    <3>2. Shows(a, g, v)'
      BY <1>1, <1>2, <1>8, <1>9, <2>1, <2>2, <2>3, <3>1 DEF Shows
    <3> QED
      BY <3>2
  <2>4. CASE a \notin overtaken
    <3>1. g = by[a]
      BY <1>3, <1>8, <2>1, <2>4
    <3>2. a \in back \/ view[a] = store[a]
      <4>1. ASSUME a \notin back PROVE view[a] = store[a]
        <5>1. Says(a, g, view[a]) /\ Says(a, g, store[a])
          BY <1>3, <2>1, <3>1, <4>1 DEF Says
        <5> QED
          BY <5>1 DEF OneVoice
      <4> QED
        BY <4>1
    <3>3. PICK v : v = store[a]
      OBVIOUS
    <3>4. Shows(a, g, v)'
      BY <1>1, <1>2, <1>8, <1>9, <2>1, <2>2, <3>2, <3>3 DEF Shows
    <3> QED
      BY <3>4
  <2> QED
    BY <2>3, <2>4
<1> QED
  BY <1>11, <1>12

LEMMA UnannouncedNext ==
  ASSUME TypeInv, UnannouncedInv, [Next]_vars
  PROVE  UnannouncedInv'
<1> USE DEF TypeInv
<1>1. CASE Apart
  BY <1>1 DEF Apart, cloudVars, UnannouncedInv, Unannounced
<1>2. ASSUME NEW m \in reports, Start(m) PROVE UnannouncedInv'
  <2>1. PICK k : /\ running' = running \cup Unfinished(k) /\ lost \subseteq lost'
                 /\ k.pushes <=> k.writes # {}
    <3>1. PICK value : Starts(m, value)
      BY <1>2, StartStep
    <3>2. Begun(m, value).pushes <=> Begun(m, value).writes # {}
      BY DEF Begun
    <3> QED
      BY <3>1, <3>2 DEF Starts
  <2> QED
    BY <2>1 DEF UnannouncedInv, Unannounced, Unfinished
<1>3. ASSUME NEW i \in running, NEW j, Continues(i, j), lost \subseteq lost',
             Unannounced(j) => Unannounced(i) \/ "view" \in lost'
      PROVE  UnannouncedInv'
  BY <1>3 DEF Continues, UnannouncedInv, Unfinished
<1>4. ASSUME NEW i \in running, NEW row \in Row, Write(i, row) PROVE UnannouncedInv'
  <2> DEFINE done == [i EXCEPT !.writes = @ \ {row}]
             failed == [i EXCEPT !.writes = @ \ {row}, !.pushes = FALSE]
  <2>1. i \in Work /\ row \in i.writes
    BY <1>4 DEF Write, CloudType
  <2>2. (done.pushes <=> i.pushes) /\ done.writes \subseteq i.writes
    BY <2>1 DEF Work
  <2>3. CASE Succeeds /\ Continues(i, done)
    <3>1. Unannounced(done) => Unannounced(i)
      BY <2>1, <2>2 DEF Unannounced
    <3>2. lost \subseteq lost'
      BY <2>3 DEF Succeeds
    <3> QED
      BY <1>3, <2>3, <3>1, <3>2
  <2>4. CASE /\ FailsAs(Columns(row) \cup {"view"}) \/ FailsAs({"view"})
             /\ Continues(i, failed)
    <3>1. lost \subseteq lost' /\ "view" \in lost'
      BY <2>4 DEF FailsAs
    <3> QED
      BY <1>3, <2>4, <3>1
  <2> QED
    BY <1>4, <2>3, <2>4 DEF Write
<1>5. ASSUME NEW i \in running, RequestDeviceState(i) PROVE UnannouncedInv'
  <2> DEFINE asked == [i EXCEPT !.asks = FALSE]
  <2>1. i \in Work
    BY DEF CloudType
  <2>2. (asked.pushes <=> i.pushes) /\ asked.writes = i.writes
    BY <2>1 DEF Work
  <2>3. Continues(i, asked) /\ lost \subseteq lost'
    BY <1>5 DEF RequestDeviceState, Succeeds, FailsAs
  <2> QED
    BY <1>3, <2>2, <2>3 DEF Unannounced
<1>6. ASSUME NEW i \in running, Push(i) PROVE UnannouncedInv'
  <2> DEFINE pushed == [i EXCEPT !.pushes = FALSE]
  <2>1. i \in Work
    BY DEF CloudType
  <2>2. pushed.writes = {}
    BY <1>6, <2>1 DEF Push, MayPush, Work
  <2>3. Continues(i, pushed) /\ lost \subseteq lost'
    BY <1>6 DEF Push, Succeeds, FailsAs, Misses
  <2> QED
    BY <1>3, <2>2, <2>3 DEF Unannounced
<1>7. CASE Client
  <2>1. UNCHANGED running
    BY <1>7 DEF Client, Subscribe, Respond, Show, Leave, cloudVars
  <2>2. lost' = lost \/ "view" \in lost' \/ ~\E i \in running : Unannounced(i)
    <3>1. CASE Respond
      BY <3>1, RespondStep
    <3> QED
      BY <1>7, <3>1 DEF Client, Subscribe, Show, Leave
  <2> QED
    BY <2>1, <2>2 DEF UnannouncedInv, Unannounced
<1> QED
  BY <1>1, <1>2, <1>4, <1>5, <1>6, <1>7, NextApart DEF Cloud, Invocation

LEMMA ViewNext ==
  ASSUME TypeInv, HandledInv, OneVoice, TimeInv, UnannouncedInv, ViewInv, [Next]_vars
  PROVE  ViewInv'
<1>1. SUFFICES ASSUME subscribed', ~asking', "view" \notin lost', NEW a \in Attribute
               PROVE  \E n, v : Shows(a, n, v)'
  BY DEF ViewInv
<1>2. CASE Respond
  BY <1>1, <1>2, ShowsRespond
<1>3. ASSUME subscribed, ~asking, "view" \notin lost
      PROVE  \E n, v : Shows(a, n, v)
  BY <1>3 DEF ViewInv
<1>4. CASE Apart
  <2>1. subscribed /\ ~asking /\ "view" \notin lost
    BY <1>1, <1>4 DEF Apart, clientVars
  <2> QED
    BY <1>3, <1>4, <2>1, ShowsApart
<1>5. ASSUME NEW m \in reports, Start(m) PROVE \E n, v : Shows(a, n, v)'
  <2>1. subscribed /\ ~asking /\ "view" \notin lost
    <3>1. lost \subseteq lost'
      BY <1>5, StartStep DEF Starts
    <3> QED
      BY <1>1, <1>5, <3>1 DEF Start, clientVars
  <2> QED
    BY <1>1, <1>3, <1>5, <2>1, ShowsStart
<1>6. ASSUME NEW i \in running, NEW row \in Row, Write(i, row)
      PROVE  \E n, v : Shows(a, n, v)'
  <2>1. subscribed /\ ~asking
    BY <1>1, <1>6 DEF Write, clientVars
  <2>2. "view" \notin lost
    BY <1>1, <1>6, WriteGoes DEF TypeInv
  <2> QED
    BY <1>1, <1>3, <1>6, <2>1, <2>2, ShowsWrite
<1>7. ASSUME NEW i \in running, RequestDeviceState(i) \/ Push(i)
      PROVE  \E n, v : Shows(a, n, v)'
  <2>1. subscribed /\ ~asking /\ "view" \notin lost
    <3>1. CASE RequestDeviceState(i)
      <4>1. UNCHANGED clientVars /\ lost \subseteq lost'
        BY <3>1 DEF RequestDeviceState, Succeeds, FailsAs
      <4> QED
        BY <1>1, <4>1 DEF clientVars
    <3>2. CASE Push(i)
      <4>1. UNCHANGED <<subscribed, asking>> /\ lost \subseteq lost'
        BY <3>2 DEF Push, Succeeds, FailsAs, Misses
      <4> QED
        BY <1>1, <4>1
    <3> QED
      BY <1>7, <3>1, <3>2
  <2> QED
    BY <1>1, <1>3, <1>7, <2>1, ShowsGoes
<1>8. ASSUME NEW push \in pushes, Show(push) PROVE \E n, v : Shows(a, n, v)'
  <2>1. subscribed /\ ~asking /\ "view" \notin lost
    BY <1>1, <1>8 DEF Show
  <2> QED
    BY <1>3, <1>8, <2>1, ShowsShow
<1>9. CASE Subscribe \/ Leave
  BY <1>1, <1>9 DEF Subscribe, Leave
<1> QED
  BY <1>2, <1>4, <1>5, <1>6, <1>7, <1>8, <1>9, NextApart DEF Cloud, Invocation, Client

LEMMA ViewInit ==
  ASSUME Init
  PROVE  HandledInv /\ TimeInv /\ OneVoice /\ UnannouncedInv /\ ViewInv
<1>0. replica.sets = store /\ replica.from = by
  BY DEF Init, Stored
<1>1. HandledInv /\ TimeInv
  BY <1>0 DEF Init, HandledInv, TimeInv, Reports
<1>2. ASSUME NEW a \in Attribute, NEW n, NEW v, Says(a, n, v) PROVE store[a] = v
  <2>1. pushes = {} /\ Reports = {}
    BY DEF Init, Reports
  <2>2. seen[a] = 0
    BY DEF Init
  <2> QED
    BY <1>0, <1>2, <2>1, <2>2 DEF Says
<1>3. ViewInv
  BY Zenon DEF Init, ViewInv
<1>4. OneVoice
  BY <1>2 DEF OneVoice
<1>5. UnannouncedInv
  BY DEF Init, UnannouncedInv
<1> QED
  BY <1>1, <1>3, <1>4, <1>5

LEMMA ViewAlways == Spec => [](HandledInv /\ TimeInv /\ OneVoice /\ UnannouncedInv /\ ViewInv)
<1>1. Init => HandledInv /\ TimeInv /\ OneVoice /\ UnannouncedInv /\ ViewInv
  BY ViewInit
<1>2. TypeInv /\ (HandledInv /\ TimeInv /\ OneVoice /\ UnannouncedInv /\ ViewInv) /\ [Next]_vars
        => (HandledInv /\ TimeInv /\ OneVoice /\ UnannouncedInv /\ ViewInv)'
  BY HandledNext, TimeNext, OneVoiceNext, UnannouncedNext, ViewNext
<1> QED
  BY <1>1, <1>2, TypeInvAlways, PTL DEF Spec

\* When all is settled, a client sees what the store has, unless it was last told
\* something older, the store ignored something newer, or a failure, a refresh or
\* queries that were behind cost it an update ("view" in lost): of concurrent
\* invocations, pushes in any order, subscriptions in the middle of both and
\* replicas that lag by any time, the newest report is the last to be told
\* (handleDeviceMessage.ts, handleWebSocketEvent.ts, "consistency issue for updates
\* happening at subscription time?").
THEOREM ViewFollowsCorrect == Spec => []ViewFollows
<1>1. ViewInv => ViewFollows
  <2>1. SUFFICES ASSUME ViewInv, Settled, subscribed, ~asking, pushes = {},
                        "view" \notin lost, NEW a \in Attribute
                 PROVE  view[a] = store[a] \/ a \in back \cup overtaken
    BY DEF ViewFollows
  <2>2. PICK n, v : Shows(a, n, v)
    BY <2>1 DEF ViewInv
  <2>3. ~ToShow(a, n, v)
    BY <2>1 DEF ToShow, Settled
  <2>4. Writing(a) = {}
    BY <2>1 DEF Settled, Writing, Pending, Reports
  <2> QED
    BY <2>2, <2>3, <2>4 DEF Shows
<1> QED
  BY <1>1, ViewAlways, PTL
================================================================================
