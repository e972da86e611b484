--------------------------- MODULE RadioLinkProofs ----------------------------
(***************************************************************************)
(* Proofs about RadioLink for every number of units and valves, every      *)
(* number of requests and faults, and all intervals.                       *)
(***************************************************************************)
EXTENDS RadioLink, SolenoidValvesProofs, WellFoundedInduction, TLAPS

------------------------------------------------------------------------------
(* Shifts, by induction over the places *)

\* The naturals are well-founded: a set with 0 and the successors of its
\* members has them all.
LEMMA SetInduction ==
  ASSUME NEW S, 0 \in S, \A n \in Nat : n \in S => n + 1 \in S
  PROVE  Nat \subseteq S
<1> DEFINE Less == {ss \in Nat \X Nat : ss[1] < ss[2]}
<1> DEFINE T == Nat \ S
<1>1. SUFFICES ASSUME T # {} PROVE FALSE
  OBVIOUS
<1>2. IsWellFoundedOn(Less, Nat)
  BY NatLessThanWellFounded DEF OpToRel
<1>3. PICK x \in T : \A y \in T : <<y, x>> \notin Less
  BY <1>1, <1>2, WFMin
<1>4. x \in Nat /\ x - 1 \in T
  OBVIOUS
<1>5. <<x - 1, x>> \in Less
  BY <1>4
<1> QED
  BY <1>3, <1>4, <1>5

Shifts(g, n) == /\ g \in [0 .. n -> Int]
                /\ \A i \in 0 .. n : g[i] = IF i = 0 THEN 2 ELSE 2 * g[i - 1]

\* A function that shifts as Shifted does, up to n places, exists and is unique.
LEMMA ShiftsExist == \A n \in Nat : \E g : Shifts(g, n)
<1> DEFINE S == {n \in Nat : \E g : Shifts(g, n)}
<1>1. 0 \in S
  <2>1. Shifts([i \in 0 .. 0 |-> 2], 0)
    BY DEF Shifts
  <2> QED
    BY <2>1
<1>2. ASSUME NEW n \in Nat, n \in S PROVE n + 1 \in S
  <2>1. PICK g : Shifts(g, n)
    BY <1>2
  <2> DEFINE h == [i \in 0 .. n + 1 |-> IF i = n + 1 THEN 2 * g[n] ELSE g[i]]
  <2>2. h \in [0 .. n + 1 -> Int]
    BY <2>1 DEF Shifts
  <2>3. ASSUME NEW i \in 0 .. n + 1 PROVE h[i] = IF i = 0 THEN 2 ELSE 2 * h[i - 1]
    BY <2>1 DEF Shifts
  <2>4. Shifts(h, n + 1)
    BY <2>2, <2>3 DEF Shifts
  <2> QED
    BY <2>4
<1> HIDE DEF S
<1>3. Nat \subseteq S
  BY <1>1, <1>2, SetInduction
<1> QED
  BY <1>3 DEF S

LEMMA ShiftsAgree ==
  ASSUME NEW m \in Nat, NEW n \in Nat, NEW g, NEW h, Shifts(g, m), Shifts(h, n)
  PROVE  \A i \in Nat : i <= m /\ i <= n => g[i] = h[i]
<1> DEFINE S == {i \in Nat : i <= m /\ i <= n => g[i] = h[i]}
<1>1. 0 \in S
  BY DEF Shifts
<1>2. ASSUME NEW i \in Nat, i \in S PROVE i + 1 \in S
  BY <1>2 DEF Shifts
<1> HIDE DEF S
<1>3. Nat \subseteq S
  BY <1>1, <1>2, SetInduction
<1> QED
  BY <1>3 DEF S

\* So the recursive definition defines what it says.
LEMMA ShiftedDef ==
  \A n \in Nat : /\ Shifted[n] \in Int
                 /\ Shifted[n] = IF n = 0 THEN 2 ELSE 2 * Shifted[n - 1]
<1> DEFINE g == [n \in Nat |-> CHOOSE g : Shifts(g, n)]
<1> DEFINE f == [n \in Nat |-> g[n][n]]
<1>1. ASSUME NEW n \in Nat PROVE Shifts(g[n], n)
  BY ShiftsExist
<1> HIDE DEF g
<1>2. ASSUME NEW n \in Nat PROVE f[n] \in Int /\ f[n] = IF n = 0 THEN 2 ELSE 2 * f[n - 1]
  <2>1. g[n][n] \in Int /\ g[n][n] = IF n = 0 THEN 2 ELSE 2 * g[n][n - 1]
    BY <1>1 DEF Shifts
  <2>2. CASE n = 0
    BY <2>1, <2>2
  <2>3. CASE n # 0
    <3>1. n - 1 \in Nat /\ n - 1 <= n
      BY <2>3
    <3>2. Shifts(g[n - 1], n - 1) /\ Shifts(g[n], n)
      BY <1>1, <3>1
    <3>3. g[n - 1][n - 1] = g[n][n - 1]
      BY <3>1, <3>2, ShiftsAgree
    <3> QED
      BY <2>1, <2>3, <3>1, <3>3
  <2> QED
    BY <2>2, <2>3
<1>3. f = [n \in Nat |-> IF n = 0 THEN 2 ELSE 2 * f[n - 1]]
  BY <1>2
<1> HIDE DEF f
<1>4. Shifted = [n \in Nat |-> IF n = 0 THEN 2 ELSE 2 * Shifted[n - 1]]
  BY <1>3 DEF Shifted
<1>5. Shifted = f
  <2> DEFINE S == {n \in Nat : Shifted[n] = f[n]}
  <2>1. 0 \in S
    BY <1>3, <1>4
  <2>2. ASSUME NEW n \in Nat, n \in S PROVE n + 1 \in S
    BY <1>3, <1>4, <2>2
  <2> HIDE DEF S
  <2>3. Nat \subseteq S
    BY <2>1, <2>2, SetInduction
  <2> QED
    BY <1>3, <1>4, <2>3 DEF S
<1> QED
  BY <1>2, <1>5 DEF f

\* A longer shift gives a larger number.
LEMMA ShiftedGrows ==
  \A n \in Nat : Shifted[n] > 0 /\ \A m \in 0 .. n : Shifted[m] <= Shifted[n]
<1> DEFINE S == {n \in Nat : Shifted[n] > 0 /\ \A m \in 0 .. n : Shifted[m] <= Shifted[n]}
<1>1. 0 \in S
  BY ShiftedDef
<1>2. ASSUME NEW n \in Nat, n \in S PROVE n + 1 \in S
  <2>1. Shifted[n + 1] = 2 * Shifted[n] /\ Shifted[n] \in Int /\ Shifted[n] > 0
    BY <1>2, ShiftedDef
  <2>2. ASSUME NEW m \in 0 .. n + 1 PROVE Shifted[m] <= Shifted[n + 1]
    <3>1. Shifted[m] \in Int
      BY ShiftedDef
    <3>2. CASE m = n + 1
      BY <3>1, <3>2
    <3>3. CASE m \in 0 .. n
      <4>1. Shifted[m] <= Shifted[n]
        BY <1>2, <3>3
      <4> QED
        BY <2>1, <3>1, <4>1
    <3> QED
      BY <3>2, <3>3
  <2> QED
    BY <2>1, <2>2
<1> HIDE DEF S
<1>3. Nat \subseteq S
  BY <1>1, <1>2, SetInduction
<1> QED
  BY <1>3 DEF S

------------------------------------------------------------------------------
(* Types of what the actions compute *)

Drifts == {"restarted", "expired", "command", "unanswered", "late", "unbegun"}
Telling == [on : [Valve -> BOOLEAN \cup {None}],
            desired : [Valve -> BOOLEAN \cup {None}]]

ControllerType ==
  /\ begun \in BOOLEAN /\ remote \in [Unit -> Remote]
  /\ overdue \in [Unit -> 0 .. TimeRange - 1]
ExchangeType ==
  /\ waiting \in [unit : Unit, heartbeat : BOOLEAN] \cup {None} /\ spent \in 0 .. 1
  /\ air \in Message \cup {None} /\ reply \in Answer \cup {None}
  /\ input \in Seq(Answer)
UnitType ==
  /\ state \in [Unit -> SolenoidState]
  /\ silence \in [Unit -> 0 .. UnitTimeout + 1]
BoundType == requests \in 0 .. MaxRequests /\ faults \in 0 .. MaxFaults
ObservedType ==
  /\ told \in [Unit -> Telling]
  /\ drift \in [Unit -> SUBSET Drifts] /\ missed \in [Unit -> 0 .. MaxFailCount]

LEMMA TypeGroups ==
  TypeOK <=> /\ ControllerType /\ ExchangeType /\ UnitType /\ BoundType
             /\ ObservedType
BY DEF TypeOK, ControllerType, ExchangeType, UnitType, BoundType, ObservedType,
       Telling, Drifts

LEMMA NextTypeGroups ==
  ASSUME ControllerType', ExchangeType', UnitType', BoundType', ObservedType'
  PROVE  TypeOK'
BY DEF TypeOK, ControllerType, ExchangeType, UnitType, BoundType, ObservedType,
       Telling, Drifts

LEMMA Numbers ==
  /\ UnitCount \in Nat /\ TimeRange \in Nat /\ TimeRange > 0 /\ Interval \in Nat
  /\ ActiveInterval \in Nat /\ MaxFailCount \in Nat /\ UnitTimeout \in Nat
  /\ MaxRequests \in Nat /\ MaxFaults \in Nat
BY LinkAssumption

\* A time is counted modulo TimeRange.
LEMMA DueInType ==
  ASSUME NEW delay \in Int, NEW ago \in Int
  PROVE  DueIn(delay, ago) \in 0 .. TimeRange - 1
BY Numbers DEF DueIn

LEMMA BackoffType ==
  ASSUME NEW u \in Unit, NEW fails \in Nat PROVE Backoff(u, fails) \in Int
BY ShiftedDef DEF Backoff

LEMMA CappedType ==
  ASSUME NEW n \in Nat, NEW greatest \in Nat
  PROVE  Capped(n, greatest) \in 0 .. greatest
BY DEF Capped

LEMMA WantedType ==
  ASSUME TypeOK, NEW u \in Unit
  PROVE  Wanted(u) \in SolenoidState
BY DEF TypeOK, Wanted, Remote

LEMMA TellType ==
  ASSUME TypeOK, NEW u \in Unit, NEW value \in SolenoidState
  PROVE  Tell(u, value) \in Telling
<1>1. told[u] \in Telling
  BY DEF TypeOK, Telling
<1>2. ASSUME NEW v \in Valve
      PROVE  /\ told[u].on[v] \in BOOLEAN \cup {None}
             /\ told[u].desired[v] \in BOOLEAN \cup {None}
             /\ (v \in value.on) \in BOOLEAN \cup {None}
  BY <1>1 DEF Telling
<1> QED
  BY <1>2 DEF Tell, Telling

LEMMA EndExchangeType ==
  ASSUME TypeOK, EndExchange
  PROVE  ExchangeType'
<1>1. ASSUME NEW m \in Message PROVE [m EXCEPT !.late = TRUE] \in Message
  BY <1>1 DEF Message, Packet
<1>2. ASSUME NEW m \in Answer PROVE [m EXCEPT !.late = TRUE] \in Answer
  BY <1>2 DEF Answer, Packet
<1>3. waiting' = None /\ spent' = 0 /\ input' = <<>>
  BY DEF EndExchange
<1>4. air' = (IF air = None THEN None ELSE [air EXCEPT !.late = TRUE])
  BY DEF EndExchange
<1>5. reply' = (IF reply = None THEN None ELSE [reply EXCEPT !.late = TRUE])
  BY DEF EndExchange
<1>6. air' \in Message \cup {None}
  BY <1>1, <1>4 DEF TypeOK
<1>7. reply' \in Answer \cup {None}
  BY <1>2, <1>5 DEF TypeOK
<1> QED
  BY <1>3, <1>6, <1>7 DEF ExchangeType

LEMMA FailType ==
  ASSUME TypeOK, NEW u \in Unit, Fail(u), begun' = begun
  PROVE  ControllerType' /\ ObservedType'
<1> DEFINE fails == Capped(remote[u].fails + 1, MaxFailCount)
           after == [known |-> remote[u].known, on |-> remote[u].on,
                     desired |-> remote[u].desired, fails |-> fails,
                     available |-> remote[u].available
                                     /\ fails <= AvailableFailureCount]
<1>1. remote[u] \in Remote /\ missed[u] \in Nat /\ spent \in Int
  BY Numbers DEF TypeOK
<1>2. fails \in 0 .. MaxFailCount /\ Capped(missed[u] + 1, MaxFailCount) \in 0 .. MaxFailCount
  <2>1. remote[u].fails + 1 \in Nat /\ missed[u] + 1 \in Nat
    BY <1>1, Numbers DEF Remote
  <2> QED
    BY <2>1, Numbers, CappedType
<1>3. DueIn(Backoff(u, fails), spent) \in 0 .. TimeRange - 1
  <2>1. fails \in Nat
    BY <1>2, Numbers
  <2> HIDE DEF fails
  <2>2. Backoff(u, fails) \in Int
    BY <2>1, BackoffType
  <2> QED
    BY <1>1, <2>2, DueInType
<1>4. /\ remote' = [remote EXCEPT ![u] = after]
      /\ overdue' = [overdue EXCEPT ![u] = DueIn(Backoff(u, fails), spent)]
      /\ missed' = [missed EXCEPT ![u] = Capped(missed[u] + 1, MaxFailCount)]
      /\ told' = told /\ drift' = drift
  BY DEF Fail
<1> HIDE DEF fails
<1>5. after \in Remote
  BY <1>1, <1>2 DEF Remote
<1> HIDE DEF after
<1> QED
  BY <1>2, <1>3, <1>4, <1>5 DEF TypeOK, ControllerType, ObservedType, Telling, Drifts

LEMMA TakeType ==
  ASSUME TypeOK, NEW u \in Unit, NEW value \in SolenoidState, NEW late \in BOOLEAN,
         Take(u, value, late), begun' = begun
  PROVE  ControllerType' /\ ObservedType'
<1> DEFINE after == [known |-> TRUE, on |-> value, desired |-> value, fails |-> 0,
                     available |-> TRUE]
<1>1. after \in Remote
  BY Numbers DEF Remote
<1>2. DueIn(NextIn(value), spent) \in 0 .. TimeRange - 1
  <2>1. NextIn(value) \in Int /\ spent \in Int
    BY Numbers DEF NextIn, TypeOK
  <2> QED
    BY <2>1, DueInType
<1>3. Tell(u, value) \in Telling
  BY TellType
<1>4. /\ remote' = [remote EXCEPT ![u] = after]
      /\ overdue' = [overdue EXCEPT ![u] = DueIn(NextIn(value), spent)]
      /\ told' = [told EXCEPT ![u] = Tell(u, value)]
      /\ missed' = [missed EXCEPT ![u] = 0]
  BY DEF Take
<1>5. drift' = [drift EXCEPT ![u] = IF late THEN drift[u] \cup {"late"}
                                           ELSE drift[u] \ {"late", "unanswered"}]
  BY DEF Take
<1>6. drift' \in [Unit -> SUBSET Drifts]
  BY <1>5 DEF TypeOK, Drifts
<1> HIDE DEF after
<1>7. ControllerType'
  BY <1>1, <1>2, <1>4 DEF TypeOK, ControllerType
<1>8. told' \in [Unit -> Telling] /\ missed' \in [Unit -> 0 .. MaxFailCount]
  <2>1. told \in [Unit -> Telling] /\ missed \in [Unit -> 0 .. MaxFailCount]
        /\ 0 \in 0 .. MaxFailCount
    BY Numbers DEF TypeOK, Telling
  <2> QED
    BY <1>3, <1>4, <2>1
<1> QED
  BY <1>6, <1>7, <1>8 DEF ObservedType

------------------------------------------------------------------------------
(* Type correctness *)

LEMMA InitType == ASSUME Init PROVE TypeOK
<1>1. Fresh \in Remote
  BY Numbers, ClosedType DEF Fresh, Remote
<1>2. Untold \in Telling
  BY DEF Untold, Telling
<1>3. ControllerType
  <2>1. 0 \in 0 .. TimeRange - 1
    BY Numbers
  <2> QED
    BY <1>1, <2>1 DEF Init, ControllerType
<1>4. ExchangeType
  BY DEF Init, ExchangeType
<1>5. UnitType
  <2>1. Unknown \in SolenoidState /\ 0 \in 0 .. UnitTimeout + 1
    BY Numbers DEF Unknown, SolenoidState
  <2> QED
    BY <2>1 DEF Init, UnitType
<1>6. BoundType
  BY Numbers DEF Init, BoundType
<1>7. ObservedType
  <2>1. 0 \in 0 .. MaxFailCount /\ {"restarted"} \in SUBSET Drifts
    BY Numbers DEF Drifts
  <2> QED
    BY <1>2, <2>1 DEF Init, ObservedType
<1> QED
  BY <1>3, <1>4, <1>5, <1>6, <1>7, TypeGroups

\* Reset, Begin and the commands of clients.
LEMMA ClientType ==
  ASSUME TypeOK, Request, UNCHANGED <<radioVars, unitVars, drift, missed, waiting, spent>>
  PROVE  ExchangeType' /\ UnitType' /\ BoundType'
<1>1. UNCHANGED <<air, reply, input, state, silence, waiting, spent, faults>>
  BY DEF radioVars, unitVars, Request
<1>2. requests' = requests + 1 /\ requests < MaxRequests
  BY DEF Request
<1>3. requests' \in 0 .. MaxRequests
  BY <1>2, Numbers DEF TypeOK
<1> QED
  BY <1>1, <1>3 DEF TypeOK, ExchangeType, UnitType, BoundType

LEMMA ResetType == ASSUME TypeOK, Reset PROVE TypeOK'
<1>1. Fresh \in Remote /\ Untold \in Telling
  BY Numbers, ClosedType DEF Fresh, Remote, Untold, Telling
<1>2. ControllerType'
  <2>1. 0 \in 0 .. TimeRange - 1
    BY Numbers
  <2> QED
    BY <1>1, <2>1 DEF Reset, ControllerType
<1>3. ObservedType'
  BY <1>1 DEF Reset, TypeOK, ObservedType, Drifts
<1>4. ExchangeType' /\ UnitType' /\ BoundType'
  BY ClientType DEF Reset
<1> QED
  BY <1>2, <1>3, <1>4, NextTypeGroups

LEMMA BeginType ==
  ASSUME TypeOK, NEW answers \in BOOLEAN, Begin(answers) PROVE TypeOK'
<1>1. UNCHANGED <<remote, overdue, waiting, spent, air, reply, state, silence,
                  requests, faults, told, drift, missed>>
  BY DEF Begin, unitVars, boundVars
<1>2. begun' \in BOOLEAN /\ input' \in Seq(Answer)
  BY DEF Begin
<1> QED
  BY <1>1, <1>2 DEF TypeOK

LEMMA ReadSignalType == ASSUME TypeOK, ReadSignal PROVE TypeOK'
<1>1. UNCHANGED <<begun, remote, overdue, waiting, spent, air, reply, state, silence,
                  requests, faults, told, drift, missed>>
  BY DEF ReadSignal, unitVars, boundVars
<1>2. input' \in Seq(Answer)
  BY DEF ReadSignal
<1> QED
  BY <1>1, <1>2 DEF TypeOK

LEMMA SetDesiredType ==
  ASSUME TypeOK, NEW u \in Unit, NEW valve \in Valve, NEW isOn \in BOOLEAN,
         SetDesired(u, valve, isOn)
  PROVE  TypeOK'
<1> DEFINE after == WithValve(Wanted(u), valve, isOn)
<1>1. after \in SolenoidState
  BY WantedType DEF WithValve, SolenoidState
<1>2. remote[u] \in Remote
  BY DEF TypeOK
<1>3. Desiring(remote[u], after, 0) \in Remote
      /\ Desiring(remote[u], after, remote[u].fails) \in Remote
  BY <1>1, <1>2, Numbers DEF Desiring, Remote
<1>4. remote' \in [Unit -> Remote]
  BY <1>3 DEF SetDesired, TypeOK
<1>5. overdue' \in [Unit -> 0 .. TimeRange - 1]
  <2>1. 0 \in 0 .. TimeRange - 1
    BY Numbers
  <2> QED
    BY <2>1 DEF SetDesired, TypeOK
<1>6. told' \in [Unit -> Telling]
  <2>1. told[u] \in Telling
    BY DEF TypeOK, Telling
  <2>2. [on |-> told[u].on, desired |-> [told[u].desired EXCEPT ![valve] = isOn]]
          \in Telling
    BY <2>1 DEF Telling
  <2> QED
    BY <2>2 DEF SetDesired, TypeOK, Telling
<1>7. UNCHANGED <<begun, drift, missed>>
  BY DEF SetDesired
<1>8. ExchangeType' /\ UnitType' /\ BoundType'
  BY ClientType DEF SetDesired
<1>9. ControllerType' /\ ObservedType'
  BY <1>4, <1>5, <1>6, <1>7 DEF TypeOK, ControllerType, ObservedType, Drifts
<1> QED
  BY <1>8, <1>9, NextTypeGroups

LEMMA SendType ==
  ASSUME TypeOK, NEW u \in Unit, NEW heartbeat \in BOOLEAN,
         NEW value \in SolenoidState \cup {None}, Send(u, heartbeat, value),
         requests' \in 0 .. MaxRequests
  PROVE  TypeOK'
<1>1. UNCHANGED <<begun, remote, overdue, reply, input, state, silence, faults,
                  told, drift, missed>>
  BY DEF Send, unitVars
<1>2. air' \in Message
  BY DEF Send, Message, Packet
<1>3. waiting' \in [unit : Unit, heartbeat : BOOLEAN] /\ spent' \in 0 .. 1
  BY DEF Send
<1> QED
  BY <1>1, <1>2, <1>3 DEF TypeOK

LEMMA AskedType ==
  ASSUME TypeOK, NEW u \in Unit PROVE Asked(u) \in SolenoidState \cup {None}
BY DEF TypeOK, Asked, Remote

LEMMA UpdateType == ASSUME TypeOK, NEW u \in Unit, Update(u) PROVE TypeOK'
<1>1. requests' \in 0 .. MaxRequests
  BY DEF Update, TypeOK
<1> QED
  BY <1>1, AskedType, SendType DEF Update

LEMMA RunCommandType ==
  ASSUME TypeOK, NEW u \in Unit, NEW value \in SolenoidState \cup {None},
         RunCommand(u, value)
  PROVE  TypeOK'
<1>1. requests' \in 0 .. MaxRequests
  BY Numbers DEF RunCommand, TypeOK
<1> QED
  BY <1>1, SendType DEF RunCommand

LEMMA FaultType == ASSUME TypeOK, NEW u, Fault(u) PROVE faults' \in 0 .. MaxFaults
BY Numbers DEF Fault, TypeOK

\* The end of an exchange.
LEMMA EndType ==
  ASSUME TypeOK, EndExchange, ControllerType', ObservedType',
         faults' \in 0 .. MaxFaults
  PROVE  TypeOK'
<1>1. UnitType' /\ BoundType'
  BY DEF EndExchange, unitVars, TypeOK, UnitType, BoundType
<1> QED
  BY <1>1, EndExchangeType, NextTypeGroups

LEMMA ReadAnswerType == ASSUME TypeOK, NEW u \in Unit, ReadAnswer(u) PROVE TypeOK'
<1>1. EndExchange /\ faults' \in 0 .. MaxFaults /\ begun' = begun /\ input # <<>>
  BY DEF ReadAnswer, EndExchange, TypeOK
<1>2. ControllerType' /\ ObservedType'
  <2>1. CASE Acceptable(u)
    <3>1. input[1] \in Answer
      BY <1>1 DEF TypeOK
    <3>2. input[1].value \in SolenoidState /\ input[1].late \in BOOLEAN
      BY <3>1 DEF Answer, Packet
    <3>3. Take(u, input[1].value, input[1].late)
      BY <2>1 DEF ReadAnswer, Accept
    <3> QED
      BY <1>1, <3>2, <3>3, TakeType
  <2>2. CASE ~Acceptable(u)
    <3>1. Fail(u)
      BY <2>2 DEF ReadAnswer
    <3> QED
      BY <1>1, <3>1, FailType
  <2> QED
    BY <2>1, <2>2
<1> QED
  BY <1>1, <1>2, EndType

LEMMA NoAnswerType == ASSUME TypeOK, NEW u, NoAnswer(u) PROVE faults' \in 0 .. MaxFaults
BY FaultType DEF NoAnswer, TypeOK

LEMMA TimeoutType == ASSUME TypeOK, NEW u \in Unit, Timeout(u) PROVE TypeOK'
<1>1. EndExchange /\ begun' = begun /\ Fail(u) /\ NoAnswer(u)
  BY DEF Timeout, EndExchange
<1> QED
  BY <1>1, NoAnswerType, FailType, EndType

LEMMA EndCommandType == ASSUME TypeOK, NEW u \in Unit, EndCommand(u) PROVE TypeOK'
<1>1. EndExchange /\ UNCHANGED <<begun, remote, overdue, told, drift, missed>>
  BY DEF EndCommand, EndExchange
<1>2. faults' \in 0 .. MaxFaults
  BY NoAnswerType DEF EndCommand, TypeOK
<1>3. ControllerType' /\ ObservedType'
  BY <1>1 DEF TypeOK, ControllerType, ObservedType, Drifts, Telling
<1> QED
  BY <1>1, <1>2, <1>3, EndType

LEMMA HearType == ASSUME TypeOK, NEW refused \in BOOLEAN, Hear(refused) PROVE TypeOK'
<1> DEFINE u == air.unit
           after == IF air.value = None THEN state[u]
                    ELSE Driven(state[u], IF refused THEN Closed ELSE air.value)
<1>1. air \in Message
  BY DEF Hear, TypeOK
<1>2. /\ u \in Unit /\ air.value \in SolenoidState \cup {None}
      /\ air.heartbeat \in BOOLEAN /\ air.late \in BOOLEAN
  BY <1>1 DEF Message, Packet
<1>3. after \in SolenoidState
  BY <1>2, ClosedType, DrivenType DEF TypeOK
<1>4. /\ state' = [state EXCEPT ![u] = after]
      /\ reply' = [unit |-> u, heartbeat |-> air.heartbeat, value |-> after,
                   refused |-> refused, late |-> air.late]
      /\ silence' = [silence EXCEPT ![u] = 0]
      /\ drift' = [drift EXCEPT ![u] = IF air.heartbeat
                                       THEN {"unanswered"} \cup (drift[u] \cap {"late"})
                                       ELSE drift[u] \cup {"command"}]
      /\ air' = None
  BY DEF Hear
<1> HIDE DEF after, u
<1>5. UNCHANGED <<begun, remote, overdue, waiting, spent, told, missed, requests,
                  input, faults>>
  BY DEF Hear, controllerVars
<1>6. reply' \in Answer
  BY <1>2, <1>3, <1>4 DEF Answer, Packet
<1>7. state' \in [Unit -> SolenoidState]
  BY <1>3, <1>4 DEF TypeOK
<1>8. silence' \in [Unit -> 0 .. UnitTimeout + 1]
  <2>1. 0 \in 0 .. UnitTimeout + 1
    BY Numbers
  <2> QED
    BY <1>4, <2>1 DEF TypeOK
<1>9. drift' \in [Unit -> SUBSET Drifts]
  BY <1>4 DEF TypeOK, Drifts
<1>10. UnitType' /\ ExchangeType'
  BY <1>4, <1>5, <1>6, <1>7, <1>8 DEF TypeOK, UnitType, ExchangeType
<1>11. ControllerType' /\ BoundType' /\ ObservedType'
  BY <1>5, <1>9 DEF TypeOK, ControllerType, BoundType, ObservedType, Telling
<1> QED
  BY <1>10, <1>11, NextTypeGroups

LEMMA ArriveType == ASSUME TypeOK, Arrive PROVE TypeOK'
<1>1. UNCHANGED <<begun, remote, overdue, waiting, spent, told, missed, requests,
                  air, state, silence, faults, drift>>
  BY DEF Arrive, controllerVars, unitVars
<1>2. reply \in Answer
  BY DEF Arrive, TypeOK
<1>3. input' \in Seq(Answer) /\ reply' = None
  BY <1>2 DEF Arrive, TypeOK
<1> QED
  BY <1>1, <1>3 DEF TypeOK

LEMMA LoseType == ASSUME TypeOK, Lose PROVE TypeOK'
<1>1. UNCHANGED <<begun, remote, overdue, waiting, spent, told, missed, requests,
                  input, state, silence, drift>>
  BY DEF Lose, controllerVars, unitVars
<1>2. faults' \in 0 .. MaxFaults
  BY FaultType DEF Lose
<1>3. air' \in Message \cup {None} /\ reply' \in Answer \cup {None}
  BY DEF Lose, TypeOK
<1> QED
  BY <1>1, <1>2, <1>3 DEF TypeOK

\* What happens in a unit by itself.
LEMMA UnitEventType ==
  ASSUME TypeOK, NEW u \in Unit, NEW value \in SolenoidState, NEW what \in Drifts,
         state' = [state EXCEPT ![u] = value],
         silence' = [silence EXCEPT ![u] = 0],
         drift' = [drift EXCEPT ![u] = drift[u] \cup {what}],
         UNCHANGED <<controllerVars, radioVars>>, faults' \in 0 .. MaxFaults
  PROVE  TypeOK'
<1>1. UNCHANGED <<begun, remote, overdue, waiting, spent, told, missed, requests,
                  air, reply, input>>
  BY DEF controllerVars, radioVars
<1>2. state' \in [Unit -> SolenoidState]
  BY DEF TypeOK
<1>3. silence' \in [Unit -> 0 .. UnitTimeout + 1]
  <2>1. 0 \in 0 .. UnitTimeout + 1
    BY Numbers
  <2> QED
    BY <2>1 DEF TypeOK
<1>4. drift' \in [Unit -> SUBSET Drifts]
  BY DEF TypeOK, Drifts
<1> QED
  BY <1>1, <1>2, <1>3, <1>4 DEF TypeOK, Drifts

LEMMA ExpireType == ASSUME TypeOK, NEW u \in Unit, Expire(u) PROVE TypeOK'
<1>1. Driven(state[u], Closed) \in SolenoidState
  BY ClosedType, DrivenType DEF TypeOK
<1>2. faults' \in 0 .. MaxFaults
  BY DEF Expire, TypeOK
<1>3. "expired" \in Drifts
  BY DEF Drifts
<1>4. /\ state' = [state EXCEPT ![u] = Driven(state[u], Closed)]
      /\ silence' = [silence EXCEPT ![u] = 0]
      /\ drift' = [drift EXCEPT ![u] = drift[u] \cup {"expired"}]
      /\ UNCHANGED <<controllerVars, radioVars>>
  BY DEF Expire
<1> QED
  BY <1>1, <1>2, <1>3, <1>4, UnitEventType

LEMMA UnitRestartType == ASSUME TypeOK, NEW u \in Unit, UnitRestart(u) PROVE TypeOK'
<1>1. Unknown \in SolenoidState /\ "restarted" \in Drifts
  BY DEF Unknown, SolenoidState, Drifts
<1>2. faults' \in 0 .. MaxFaults
  BY FaultType DEF UnitRestart
<1>3. /\ state' = [state EXCEPT ![u] = Unknown]
      /\ silence' = [silence EXCEPT ![u] = 0]
      /\ drift' = [drift EXCEPT ![u] = drift[u] \cup {"restarted"}]
      /\ UNCHANGED <<controllerVars, radioVars>>
  BY DEF UnitRestart
<1> QED
  BY <1>1, <1>2, <1>3, UnitEventType

LEMMA TickType == ASSUME TypeOK, Tick PROVE TypeOK'
<1>1. UNCHANGED <<begun, remote, waiting, air, reply, input, state, requests, faults,
                  told, missed>>
  BY DEF Tick, radioVars, boundVars
<1>2. overdue' \in [Unit -> 0 .. TimeRange - 1]
  <2>1. ASSUME NEW u \in Unit PROVE (overdue[u] + 1) % TimeRange \in 0 .. TimeRange - 1
    BY Numbers DEF TypeOK
  <2> QED
    BY <2>1 DEF Tick
<1>3. silence' \in [Unit -> 0 .. UnitTimeout + 1]
  <2>1. ASSUME NEW u \in Unit
        PROVE  Capped(silence[u] + 1, UnitTimeout + 1) \in 0 .. UnitTimeout + 1
    <3>1. silence[u] + 1 \in Nat /\ UnitTimeout + 1 \in Nat
      BY Numbers DEF TypeOK
    <3> QED
      BY <3>1, CappedType
  <2>2. 0 \in 0 .. UnitTimeout + 1
    BY Numbers
  <2> QED
    BY <2>1, <2>2 DEF Tick
<1>4. spent' \in 0 .. 1
  <2>1. CASE waiting = None
    BY <2>1 DEF Tick, TypeOK
  <2>2. CASE waiting # None
    BY <2>2 DEF Tick
  <2> QED
    BY <2>1, <2>2
<1>5. drift' \in [Unit -> SUBSET Drifts]
  <2>1. drift \in [Unit -> SUBSET Drifts]
    BY DEF TypeOK, Drifts
  <2>2. ASSUME NEW u \in Unit PROVE drift[u] \cup {"unbegun"} \in SUBSET Drifts
    BY <2>1 DEF Drifts
  <2> QED
    BY <2>1, <2>2 DEF Tick
<1> QED
  BY <1>1, <1>2, <1>3, <1>4, <1>5 DEF TypeOK, Drifts

LEMMA NextType == ASSUME TypeOK, [Next]_vars PROVE TypeOK'
<1>1. CASE Controller
  BY <1>1, BeginType, UpdateType, ReadAnswerType, TimeoutType, EndCommandType
  DEF Controller
<1>2. CASE Client
  <2>1. CASE Reset \/ ReadSignal
    BY <2>1, ResetType, ReadSignalType
  <2>2. ASSUME NEW u \in Subject, NEW v \in Valve, NEW isOn \in BOOLEAN,
               SetDesired(u, v, isOn)
        PROVE  TypeOK'
    BY <2>2, SetDesiredType, LinkAssumption DEF Unit
  <2>3. ASSUME NEW u \in Subject,
               NEW value \in {None, Closed, [force |-> FALSE, on |-> Valve]},
               RunCommand(u, value)
        PROVE  TypeOK'
    <3>1. u \in Unit
      BY LinkAssumption DEF Unit
    <3>2. [force |-> FALSE, on |-> Valve] \in SolenoidState
      BY DEF SolenoidState
    <3>3. value \in SolenoidState \cup {None}
      BY <3>2, ClosedType
    <3> QED
      BY <2>3, <3>1, <3>3, RunCommandType
  <2> QED
    BY <1>2, <2>1, <2>2, <2>3 DEF Client
<1>3. CASE Radio
  BY <1>3, ArriveType, HearType DEF Radio
<1>4. CASE Lose
  BY <1>4, LoseType
<1>5. CASE Tick
  BY <1>5, TickType
<1>6. ASSUME NEW u \in Unit, Expire(u) \/ UnitRestart(u) PROVE TypeOK'
  BY <1>6, ExpireType, UnitRestartType
<1>7. CASE UNCHANGED vars
  <2>1. UNCHANGED <<begun, remote, overdue, waiting, spent, air, reply, input, state,
                    silence, requests, faults, told, drift, missed>>
    BY <1>7 DEF vars, radioVars, unitVars, boundVars
  <2> QED
    BY <2>1 DEF TypeOK
<1> QED
  BY <1>1, <1>2, <1>3, <1>4, <1>5, <1>6, <1>7 DEF Next

\* What the controller keeps of its units, the exchange under way, what is on
\* the air and in the serial buffer, and every time modulo TimeRange keep their
\* types.
THEOREM LinkTypeCorrect == Spec => []TypeOK
BY InitType, NextType, PTL DEF Spec

------------------------------------------------------------------------------
(* What is under way belongs to the exchange, or is late *)

Current(m) == m # None /\ ~m.late

\* An answer that the controller waits for is the only packet of its exchange,
\* has the state of the unit if nothing has come between, and does what is
\* desired of the unit, unless that was refused.
Truthful(m) == drift[m.unit] \cap {"expired", "restarted", "command"} = {}
                 => m.value = state[m.unit]
Obedient(m) == m.heartbeat /\ ~m.refused /\ remote[m.unit].desired # Indeterminate
                 => m.value.on = remote[m.unit].desired.on
AnswerInv(m) ==
  Current(m) => waiting # None /\ air = None /\ Truthful(m) /\ Obedient(m)

RequestInv ==
  Current(air) => waiting # None /\ (air.heartbeat => air.value = Asked(air.unit))

LinkInv ==
  /\ RequestInv /\ AnswerInv(reply)
  /\ \A i \in 1 .. Len(input) : AnswerInv(input[i])

\* Nothing is under way for the controller.
Idle ==
  /\ ~Current(air) /\ ~Current(reply)
  /\ \A i \in 1 .. Len(input) : ~Current(input[i])

LEMMA IdleWhenNotWaiting == ASSUME LinkInv, waiting = None PROVE Idle
BY DEF LinkInv, RequestInv, AnswerInv, Idle

LEMMA IdleIsInv == ASSUME Idle' PROVE LinkInv'
BY DEF LinkInv, RequestInv, AnswerInv, Idle

LEMMA EndIsIdle == ASSUME TypeOK, EndExchange PROVE Idle'
<1>1. ASSUME NEW m \in Message \cup Answer PROVE [m EXCEPT !.late = TRUE].late
  BY <1>1 DEF Message, Answer, Packet
<1>2. input' = <<>>
  BY DEF EndExchange
<1>3. air' = (IF air = None THEN None ELSE [air EXCEPT !.late = TRUE])
  BY DEF EndExchange
<1>4. reply' = (IF reply = None THEN None ELSE [reply EXCEPT !.late = TRUE])
  BY DEF EndExchange
<1>5. ~Current(air)'
  BY <1>1, <1>3 DEF TypeOK, Current
<1>6. ~Current(reply)'
  BY <1>1, <1>4 DEF TypeOK, Current
<1> QED
  BY <1>2, <1>5, <1>6 DEF Idle, Current

\* A request is sent while nothing is under way.
LEMMA SendInv ==
  ASSUME TypeOK, LinkInv, NEW u \in Unit, NEW heartbeat \in BOOLEAN, NEW value,
         Send(u, heartbeat, value), heartbeat => value = Asked(u)
  PROVE  LinkInv'
<1>1. Idle
  BY IdleWhenNotWaiting DEF Send
<1>2. /\ waiting' # None
      /\ air' = [unit |-> u, heartbeat |-> heartbeat, value |-> value,
                 refused |-> FALSE, late |-> FALSE]
      /\ UNCHANGED <<reply, input, remote>>
  BY LinkAssumption DEF Send
<1>3. RequestInv'
  BY <1>2 DEF RequestInv, Asked
<1>4. AnswerInv(reply)' /\ \A i \in 1 .. Len(input') : AnswerInv(input[i])'
  BY <1>1, <1>2 DEF Idle, AnswerInv, Current
<1> QED
  BY <1>3, <1>4 DEF LinkInv

LEMMA HearInv ==
  ASSUME TypeOK, LinkInv, NEW refused \in BOOLEAN, Hear(refused) PROVE LinkInv'
<1> DEFINE u == air.unit
           after == IF air.value = None THEN state[u]
                    ELSE Driven(state[u], IF refused THEN Closed ELSE air.value)
<1>1. /\ air # None /\ air \in Message
      /\ u \in Unit /\ air.value \in SolenoidState \cup {None}
  BY DEF Hear, TypeOK, Message, Packet
<1>2. /\ state' = [state EXCEPT ![u] = after]
      /\ reply' = [unit |-> u, heartbeat |-> air.heartbeat, value |-> after,
                   refused |-> refused, late |-> air.late]
      /\ air' = None /\ UNCHANGED <<remote, waiting, input>>
  BY DEF Hear, controllerVars
<1>3. \A i \in 1 .. Len(input) : ~Current(input[i])
  BY <1>1 DEF LinkInv, AnswerInv
<1>4. ASSUME ~air.late PROVE waiting # None /\ (air.heartbeat => air.value = Asked(u))
  BY <1>1, <1>4 DEF LinkInv, RequestInv, Current
<1>5. ASSUME ~air.late, air.heartbeat, ~refused, remote[u].desired # Indeterminate
      PROVE  after.on = remote[u].desired.on
  <2>1. air.value = remote[u].desired
    BY <1>4, <1>5 DEF Asked
  <2>2. remote[u].desired \in SolenoidState /\ remote[u].desired # None
    BY <1>1, <1>5, LinkAssumption DEF TypeOK, Remote
  <2>3. after = Driven(state[u], remote[u].desired)
    BY <1>5, <2>1, <2>2
  <2>4. state[u] \in SolenoidState
    BY <1>1 DEF TypeOK
  <2> QED
    BY <2>2, <2>3, <2>4, DrivenType
<1>6. state'[u] = after
  BY <1>1, <1>2 DEF TypeOK
<1> HIDE DEF after
<1>7. AnswerInv(reply)'
  <2>1. Truthful(reply)'
    BY <1>2, <1>6 DEF Truthful
  <2>2. ASSUME ~air.late PROVE Obedient(reply)' /\ waiting' # None /\ air' = None
    BY <1>2, <1>4, <1>5, <2>2 DEF Obedient
  <2>3. Current(reply)' => ~air.late
    BY <1>2 DEF Current
  <2> QED
    BY <2>1, <2>2, <2>3 DEF AnswerInv
<1>8. RequestInv' /\ \A i \in 1 .. Len(input') : AnswerInv(input[i])'
  BY <1>2, <1>3 DEF RequestInv, AnswerInv, Current
<1> QED
  BY <1>7, <1>8 DEF LinkInv

LEMMA ArriveInv == ASSUME TypeOK, LinkInv, Arrive PROVE LinkInv'
<1>1. /\ input' = Append(input, reply) /\ reply' = None
      /\ UNCHANGED <<waiting, remote, air, state, drift>>
  BY DEF Arrive, controllerVars, unitVars
<1>2. input \in Seq(Answer) /\ reply \in Answer
  BY DEF Arrive, TypeOK
<1>3. ASSUME NEW i \in 1 .. Len(input') PROVE AnswerInv(input[i])'
  <2>1. CASE i \in 1 .. Len(input)
    <3>1. input'[i] = input[i] /\ AnswerInv(input[i])
      BY <1>1, <1>2, <2>1 DEF LinkInv
    <3> QED
      BY <1>1, <3>1 DEF AnswerInv, Current, Truthful, Obedient
  <2>2. CASE i \notin 1 .. Len(input)
    <3>1. input'[i] = reply /\ AnswerInv(reply)
      BY <1>1, <1>2, <1>3, <2>2 DEF LinkInv
    <3> QED
      BY <1>1, <3>1 DEF AnswerInv, Current, Truthful, Obedient
  <2> QED
    BY <2>1, <2>2
<1>4. RequestInv' /\ AnswerInv(reply)'
  BY <1>1 DEF LinkInv, RequestInv, AnswerInv, Current, Asked
<1> QED
  BY <1>3, <1>4 DEF LinkInv

LEMMA LoseInv == ASSUME TypeOK, LinkInv, Lose PROVE LinkInv'
<1>1. UNCHANGED <<waiting, remote, input, state, drift>>
  BY DEF Lose, controllerVars, unitVars
<1>2. air' \in {air, None} /\ reply' \in {reply, None}
  BY DEF Lose
<1>3. RequestInv' /\ AnswerInv(reply)'
  BY <1>1, <1>2 DEF LinkInv, RequestInv, AnswerInv, Current, Truthful, Obedient, Asked
<1>4. ASSUME NEW i \in 1 .. Len(input') PROVE AnswerInv(input[i])'
  <2>1. AnswerInv(input[i])
    BY <1>1, <1>4 DEF LinkInv
  <2> QED
    BY <1>1, <1>2, <2>1 DEF AnswerInv, Current, Truthful, Obedient
<1> QED
  BY <1>3, <1>4 DEF LinkInv

\* What a unit does by itself is noted in drift.
LEMMA UnitEventInv ==
  ASSUME TypeOK, LinkInv, NEW u \in Unit, NEW what \in {"expired", "restarted"},
         NEW value, state' = [state EXCEPT ![u] = value],
         drift' = [drift EXCEPT ![u] = drift[u] \cup {what}],
         UNCHANGED <<controllerVars, radioVars>>
  PROVE  LinkInv'
<1>1. UNCHANGED <<waiting, remote, air, reply, input>>
  BY DEF controllerVars, radioVars
<1>2. ASSUME NEW m \in Answer, AnswerInv(m) PROVE AnswerInv(m)'
  <2>1. m.unit \in Unit
    BY DEF Answer, Packet
  <2>2. Truthful(m) => Truthful(m)'
    <3>1. CASE m.unit = u
      BY <3>1 DEF Truthful, TypeOK
    <3>2. CASE m.unit # u
      BY <2>1, <3>2 DEF Truthful, TypeOK
    <3> QED
      BY <3>1, <3>2
  <2> QED
    BY <1>1, <1>2, <2>2 DEF AnswerInv, Current, Obedient
<1>3. AnswerInv(reply)'
  BY <1>1, <1>2 DEF LinkInv, TypeOK, AnswerInv, Current
<1>4. ASSUME NEW i \in 1 .. Len(input') PROVE AnswerInv(input[i])'
  <2>1. input[i] \in Answer /\ AnswerInv(input[i]) /\ input'[i] = input[i]
    BY <1>1, <1>4 DEF LinkInv, TypeOK
  <2>2. ASSUME NEW m, m = input[i] PROVE AnswerInv(m)' => AnswerInv(input[i])'
    BY <1>1, <2>2 DEF AnswerInv, Current, Truthful, Obedient
  <2> QED
    BY <1>2, <2>1, <2>2
<1>5. RequestInv'
  BY <1>1 DEF LinkInv, RequestInv, Current, Asked
<1> QED
  BY <1>3, <1>4, <1>5 DEF LinkInv

\* Nothing that the invariant speaks of changes.
LEMMA SameInv ==
  ASSUME LinkInv, UNCHANGED <<waiting, remote, air, reply, input, state, drift>>
  PROVE  LinkInv'
BY DEF LinkInv, RequestInv, AnswerInv, Current, Truthful, Obedient, Asked

\* All that time adds to drift is that the controller is not begun.
TickDrift == \A u \in Unit : drift'[u] \in {drift[u], drift[u] \cup {"unbegun"}}

LEMMA TickDrifts == ASSUME Tick PROVE TickDrift /\ UNCHANGED <<waiting, remote, air,
                                                             reply, input, state>>
BY DEF Tick, TickDrift, radioVars

LEMMA TickInv == ASSUME TypeOK, LinkInv, Tick PROVE LinkInv'
<1>1. TickDrift /\ UNCHANGED <<waiting, remote, air, reply, input, state>>
  BY TickDrifts
<1>2. RequestInv'
  BY <1>1 DEF LinkInv, RequestInv, Current, Asked
<1>3. ASSUME NEW m \in Answer \cup {None}, AnswerInv(m)
      PROVE  Current(m) => waiting' # None /\ air' = None
                           /\ (drift'[m.unit] \cap {"expired", "restarted", "command"} = {}
                                 => m.value = state'[m.unit])
                           /\ (m.heartbeat /\ ~m.refused
                                 /\ remote'[m.unit].desired # Indeterminate
                                 => m.value.on = remote'[m.unit].desired.on)
  <2>1. SUFFICES ASSUME Current(m)
                 PROVE  drift'[m.unit] \cap {"expired", "restarted", "command"}
                          = drift[m.unit] \cap {"expired", "restarted", "command"}
    BY <1>1, <1>3 DEF AnswerInv, Truthful, Obedient
  <2>2. m.unit \in Unit
    BY <2>1 DEF Current, Answer, Packet
  <2>3. drift'[m.unit] \in {drift[m.unit], drift[m.unit] \cup {"unbegun"}}
    BY <1>1, <2>2 DEF TickDrift
  <2> QED
    BY <2>3
<1>4. AnswerInv(reply)'
  BY <1>1, <1>3 DEF TypeOK, LinkInv, AnswerInv, Current, Truthful, Obedient
<1>5. ASSUME NEW i \in 1 .. Len(input') PROVE AnswerInv(input[i])'
  <2>1. input[i] \in Answer /\ AnswerInv(input[i])
    BY <1>1 DEF TypeOK, LinkInv
  <2> QED
    BY <1>1, <1>3, <2>1 DEF AnswerInv, Current, Truthful, Obedient
<1> QED
  BY <1>2, <1>4, <1>5 DEF LinkInv

\* Nothing is under way, and nothing is sent.
LEMMA StillIdle ==
  ASSUME LinkInv, waiting = None, UNCHANGED <<air, reply>>, input' \in {input, <<>>}
  PROVE  LinkInv'
<1>1. Idle
  BY IdleWhenNotWaiting
<1>2. Idle'
  BY <1>1 DEF Idle, Current
<1> QED
  BY <1>2, IdleIsInv

LEMMA NextLinkInv == ASSUME TypeOK, LinkInv, [Next]_vars PROVE LinkInv'
<1>1. CASE Controller
  <2>1. ASSUME NEW answers \in BOOLEAN, Begin(answers) PROVE LinkInv'
    BY <2>1, StillIdle DEF Begin
  <2>2. ASSUME NEW u \in Unit, Update(u) PROVE LinkInv'
    BY <2>2, SendInv DEF Update
  <2>3. ASSUME NEW u \in Unit, ReadAnswer(u) \/ Timeout(u) \/ EndCommand(u)
        PROVE  LinkInv'
    <3>1. EndExchange
      BY <2>3 DEF ReadAnswer, Timeout, EndCommand
    <3> QED
      BY <3>1, EndIsIdle, IdleIsInv
  <2> QED
    BY <1>1, <2>1, <2>2, <2>3 DEF Controller
<1>2. CASE Client
  <2>1. CASE Reset \/ ReadSignal
    BY <2>1, StillIdle DEF Reset, ReadSignal, radioVars
  <2>2. ASSUME NEW u \in Subject, NEW v \in Valve, NEW isOn \in BOOLEAN,
               SetDesired(u, v, isOn)
        PROVE  LinkInv'
    BY <2>2, StillIdle DEF SetDesired, radioVars
  <2>3. ASSUME NEW u \in Subject, NEW value, RunCommand(u, value) PROVE LinkInv'
    <3>1. u \in Unit
      BY LinkAssumption DEF Unit
    <3> QED
      BY <2>3, <3>1, SendInv DEF RunCommand
  <2> QED
    BY <1>2, <2>1, <2>2, <2>3 DEF Client
<1>3. CASE Radio
  BY <1>3, ArriveInv, HearInv DEF Radio
<1>4. CASE Lose
  BY <1>4, LoseInv
<1>5. CASE Tick
  BY <1>5, TickInv
<1>6. ASSUME NEW u \in Unit, Expire(u) PROVE LinkInv'
  BY <1>6, UnitEventInv DEF Expire
<1>7. ASSUME NEW u \in Unit, UnitRestart(u) PROVE LinkInv'
  BY <1>7, UnitEventInv DEF UnitRestart
<1>8. CASE UNCHANGED vars
  <2>1. UNCHANGED <<waiting, remote, air, reply, input, state, drift>>
    BY <1>8 DEF vars, radioVars, unitVars
  <2> QED
    BY <2>1, SameInv
<1> QED
  BY <1>1, <1>2, <1>3, <1>4, <1>5, <1>6, <1>7, <1>8 DEF Next

LEMMA InitLinkInv == ASSUME Init PROVE LinkInv
BY DEF Init, LinkInv, RequestInv, AnswerInv, Current

------------------------------------------------------------------------------
(* What the controller has for the valves of a unit *)

\* The second half of update(), and all that changes what was heard.
LEMMA HeardChanges ==
  ASSUME TypeOK, [Next]_vars, NEW u \in Unit
  PROVE  \/ remote'[u].known = remote[u].known /\ remote'[u].on = remote[u].on
         \/ ~remote'[u].known
         \/ ReadAnswer(u) /\ Acceptable(u)
<1> DEFINE Goal == \/ remote'[u].known = remote[u].known /\ remote'[u].on = remote[u].on
                   \/ ~remote'[u].known
                   \/ ReadAnswer(u) /\ Acceptable(u)
<1>1. CASE Reset
  BY <1>1 DEF Reset, Fresh
<1>2. CASE UNCHANGED remote
  BY <1>2
<1>3. ASSUME NEW w \in Unit, Fail(w) PROVE Goal
  BY <1>3 DEF Fail, TypeOK
<1>4. ASSUME NEW w \in Unit, ReadAnswer(w), Acceptable(w) PROVE Goal
  <2>1. CASE w = u
    BY <1>4, <2>1
  <2>2. CASE w # u
    <3>1. remote'[u] = remote[u]
      BY <1>4, <2>2 DEF ReadAnswer, Accept, Take, TypeOK
    <3> QED
      BY <3>1
  <2> QED
    BY <2>1, <2>2
<1>5. ASSUME NEW w \in Unit, NEW v \in Valve, NEW isOn \in BOOLEAN, SetDesired(w, v, isOn)
      PROVE  Goal
  <2>1. PICK value, fails : \/ UNCHANGED remote
                            \/ remote' = [remote EXCEPT ![w] =
                                            Desiring(remote[w], value, fails)]
    BY <1>5 DEF SetDesired
  <2>2. remote'[u] \in {remote[u], Desiring(remote[u], value, fails)}
    BY <2>1 DEF TypeOK
  <2> QED
    BY <2>2 DEF Desiring
<1>6. CASE Controller
  <2>1. ASSUME NEW w \in Unit, Update(w) \/ EndCommand(w) PROVE UNCHANGED remote
    BY <2>1 DEF Update, Send, EndCommand
  <2>2. ASSUME NEW w \in Unit, ReadAnswer(w) \/ Timeout(w) PROVE Goal
    BY <1>3, <1>4, <2>2 DEF ReadAnswer, Timeout
  <2>3. ASSUME NEW answers, Begin(answers) PROVE UNCHANGED remote
    BY <2>3 DEF Begin
  <2> QED
    BY <1>2, <1>6, <2>1, <2>2, <2>3 DEF Controller
<1>7. CASE Client
  <2>1. ASSUME NEW w, NEW value, RunCommand(w, value) PROVE UNCHANGED remote
    BY <2>1 DEF RunCommand, Send
  <2>2. Subject \subseteq Unit
    BY LinkAssumption DEF Unit
  <2> QED
    BY <1>1, <1>2, <1>5, <1>7, <2>1, <2>2 DEF Client, ReadSignal
<1>8. Radio \/ Lose \/ Tick \/ UNCHANGED vars
        \/ (\E w \in Unit : Expire(w) \/ UnitRestart(w)) => UNCHANGED remote
  BY DEF Radio, Arrive, Hear, Lose, Tick, Expire, UnitRestart, controllerVars, vars
<1> QED
  BY <1>2, <1>6, <1>7, <1>8 DEF Next

\* What has come between is forgotten only when an answer is taken.
LEMMA DriftChanges ==
  ASSUME TypeOK, [Next]_vars, NEW u \in Unit
  PROVE  \/ drift'[u] # {}
         \/ drift'[u] = drift[u] /\ state'[u] = state[u]
         \/ ReadAnswer(u) /\ Acceptable(u)
<1> DEFINE Goal == \/ drift'[u] # {}
                   \/ drift'[u] = drift[u] /\ state'[u] = state[u]
                   \/ ReadAnswer(u) /\ Acceptable(u)
<1>1. CASE UNCHANGED <<state, drift>>
  BY <1>1
<1>2. ASSUME NEW w \in Unit, ReadAnswer(w) PROVE Goal
  <2>1. UNCHANGED state
    BY <1>2 DEF ReadAnswer, EndExchange, unitVars
  <2>2. CASE Acceptable(w) /\ w # u
    <3>1. drift'[u] = drift[u]
      BY <1>2, <2>2 DEF ReadAnswer, Accept, Take, TypeOK
    <3> QED
      BY <2>1, <3>1
  <2>3. CASE Acceptable(w) /\ w = u
    BY <1>2, <2>3
  <2>4. CASE ~Acceptable(w)
    BY <1>1, <1>2, <2>1, <2>4 DEF ReadAnswer, Fail
  <2> QED
    BY <2>2, <2>3, <2>4
<1>3. ASSUME NEW refused \in BOOLEAN, Hear(refused) PROVE Goal
  <2>1. air.unit \in Unit
    BY <1>3 DEF Hear, TypeOK, Message, Packet
  <2>2. CASE air.unit = u
    <3>1. drift'[u] = IF air.heartbeat THEN {"unanswered"} \cup (drift[u] \cap {"late"})
                                       ELSE drift[u] \cup {"command"}
      BY <1>3, <2>2 DEF Hear, TypeOK
    <3> QED
      BY <3>1
  <2>3. CASE air.unit # u
    BY <1>3, <2>1, <2>3 DEF Hear, TypeOK
  <2> QED
    BY <2>2, <2>3
<1>4. ASSUME NEW w \in Unit, Expire(w) \/ UnitRestart(w) PROVE Goal
  <2>1. CASE w = u
    <3>1. drift'[u] = drift[u] \cup {"expired"} \/ drift'[u] = drift[u] \cup {"restarted"}
      BY <1>4, <2>1 DEF Expire, UnitRestart, TypeOK
    <3> QED
      BY <3>1
  <2>2. CASE w # u
    BY <1>4, <2>2 DEF Expire, UnitRestart, TypeOK
  <2> QED
    BY <2>1, <2>2
<1>5. CASE Controller
  <2>1. ASSUME NEW answers, Begin(answers) PROVE UNCHANGED <<state, drift>>
    BY <2>1 DEF Begin, unitVars
  <2>2. ASSUME NEW w \in Unit, Update(w) \/ Timeout(w) \/ EndCommand(w)
        PROVE  UNCHANGED <<state, drift>>
    BY <2>2 DEF Update, Send, Timeout, Fail, EndCommand, EndExchange, unitVars
  <2> QED
    BY <1>1, <1>2, <1>5, <2>1, <2>2 DEF Controller
<1>6. Client \/ Arrive \/ Lose \/ UNCHANGED vars => \/ UNCHANGED <<state, drift>>
  BY DEF Client, Reset, ReadSignal, SetDesired, RunCommand, Send, Arrive, Lose, vars,
         unitVars
<1>7. CASE Tick
  <2>1. state' = state /\ drift'[u] \in {drift[u], drift[u] \cup {"unbegun"}}
    BY <1>7, TickDrifts DEF TickDrift
  <2> QED
    BY <2>1
<1> QED
  BY <1>1, <1>3, <1>4, <1>5, <1>6, <1>7 DEF Next, Radio

\* The answer that is taken, if it is not late.
LEMMA AcceptedAnswer ==
  ASSUME TypeOK, LinkInv, NEW u \in Unit, ReadAnswer(u), Acceptable(u)
  PROVE  /\ input[1] \in Answer /\ input[1].unit = u /\ Take(u, input[1].value, input[1].late)
         /\ ~input[1].late => Truthful(input[1]) /\ Obedient(input[1])
         /\ state' = state
<1>1. Len(input) = 1 /\ input[1] \in Answer /\ AnswerInv(input[1])
  <2>1. 1 \in 1 .. Len(input) /\ input \in Seq(Answer) /\ Len(input) = 1
    BY DEF Acceptable, TypeOK
  <2> QED
    BY <2>1 DEF LinkInv
<1>2. input[1] # None
  BY <1>1, LinkAssumption DEF Answer, Message, Packet
<1>3. state' = state
  BY DEF ReadAnswer, EndExchange, unitVars
<1> QED
  BY <1>1, <1>2, <1>3 DEF Acceptable, AnswerInv, Current, ReadAnswer, Accept

\* What the controller has for the valves of a unit is their state, unless
\* something came between: the first value for a unit, and each after, is that
\* of the last request the unit executed.
THEOREM ReportedIsTrueCorrect == Spec => []ReportedIsTrue
<1>1. Init => ReportedIsTrue
  BY DEF Init, Fresh, ReportedIsTrue
<1>2. ASSUME TypeOK, LinkInv, ReportedIsTrue, [Next]_vars PROVE ReportedIsTrue'
  <2> SUFFICES ASSUME NEW u \in Unit, remote'[u].known, drift'[u] = {}
               PROVE  remote'[u].on = state'[u]
    BY DEF ReportedIsTrue
  <2>1. CASE ReadAnswer(u) /\ Acceptable(u)
    <3>1. /\ Take(u, input[1].value, input[1].late) /\ input[1].unit = u
          /\ ~input[1].late => Truthful(input[1])
          /\ state' = state
      BY <1>2, <2>1, AcceptedAnswer
    <3>2. drift'[u] = IF input[1].late THEN drift[u] \cup {"late"}
                                       ELSE drift[u] \ {"late", "unanswered"}
      BY <1>2, <3>1 DEF Take, TypeOK
    <3>3. ~input[1].late /\ drift[u] \cap {"expired", "restarted", "command"} = {}
      BY <3>2
    <3>4. remote'[u].on = input[1].value
      BY <1>2, <3>1 DEF Take, TypeOK
    <3> QED
      BY <3>1, <3>3, <3>4 DEF Truthful
  <2>2. CASE ~(ReadAnswer(u) /\ Acceptable(u))
    BY <1>2, <2>2, HeardChanges, DriftChanges DEF ReportedIsTrue
  <2> QED
    BY <2>1, <2>2
<1> QED
  BY <1>1, <1>2, InitType, NextType, InitLinkInv, NextLinkInv, PTL DEF Spec

\* A command of a client is kept until it is applied, replaced or refused: what
\* an answer puts in its place is the command itself, but for a late answer.
THEOREM CommandKeptCorrect == Spec => CommandKept
<1>1. ASSUME TypeOK, LinkInv, [Next]_vars PROVE [KeepsCommand]_vars
  <2> SUFFICES ASSUME NEW u \in Unit, remote[u].desired # Indeterminate,
                      waiting # None
               PROVE  \/ remote'[u].desired.on = remote[u].desired.on
                      \/ input[1].refused \/ input[1].late
    BY DEF KeepsCommand
  <2> DEFINE Goal == \/ remote'[u].desired.on = remote[u].desired.on
                     \/ input[1].refused \/ input[1].late
  <2>1. CASE UNCHANGED remote
    BY <2>1
  <2>2. ASSUME NEW w \in Unit, Fail(w) PROVE Goal
    BY <2>2 DEF Fail, TypeOK
  <2>3. ASSUME NEW w \in Unit, ReadAnswer(w), Acceptable(w) PROVE Goal
    <3>1. /\ Take(w, input[1].value, input[1].late) /\ input[1].unit = w
          /\ ~input[1].late => Obedient(input[1])
          /\ input[1].heartbeat
      BY <1>1, <2>3, AcceptedAnswer DEF Acceptable
    <3>2. CASE w = u
      <4>1. remote'[u].desired = input[1].value
        BY <1>1, <3>1, <3>2 DEF Take, TypeOK
      <4> QED
        BY <3>1, <3>2, <4>1 DEF Obedient
    <3>3. CASE w # u
      <4>1. remote'[u] = remote[u]
        BY <1>1, <3>1, <3>3 DEF Take, TypeOK
      <4> QED
        BY <4>1
    <3> QED
      BY <3>2, <3>3
  <2>4. ~Reset /\ \A w, v, isOn : ~SetDesired(w, v, isOn)
    BY DEF Reset, SetDesired
  <2>5. CASE Controller
    <3>1. ASSUME NEW w \in Unit, Update(w) \/ EndCommand(w) PROVE UNCHANGED remote
      BY <3>1 DEF Update, Send, EndCommand
    <3>2. ASSUME NEW w \in Unit, ReadAnswer(w) \/ Timeout(w) PROVE Goal
      BY <2>2, <2>3, <3>2 DEF ReadAnswer, Timeout
    <3>3. ASSUME NEW answers, Begin(answers) PROVE UNCHANGED remote
      BY <3>3 DEF Begin
    <3> QED
      BY <2>1, <2>5, <3>1, <3>2, <3>3 DEF Controller
  <2>6. ASSUME NEW w, NEW value, RunCommand(w, value) \/ ReadSignal
        PROVE  UNCHANGED remote
    BY <2>6 DEF RunCommand, Send, ReadSignal
  <2>7. Radio \/ Lose \/ Tick \/ UNCHANGED vars
          \/ (\E w \in Unit : Expire(w) \/ UnitRestart(w)) => UNCHANGED remote
    BY DEF Radio, Arrive, Hear, Lose, Tick, Expire, UnitRestart, controllerVars, vars
  <2> QED
    BY <1>1, <2>1, <2>4, <2>5, <2>6, <2>7 DEF Next, Client
<1> QED
  BY <1>1, InitType, NextType, InitLinkInv, NextLinkInv, PTL DEF Spec, CommandKept

------------------------------------------------------------------------------
(* What events have told *)

\* The desired value is told for units that were not heard too.
ToldInv ==
  \A u \in Unit, v \in Valve :
    /\ remote[u].known => told[u].on[v] = (v \in remote[u].on.on)
    /\ told[u].desired[v] \in {(v \in Wanted(u).on), None}

LEMMA TakeTold ==
  ASSUME TypeOK, ToldInv, NEW u \in Unit, NEW value \in SolenoidState, NEW late,
         Take(u, value, late)
  PROVE  ToldInv'
<1>1. /\ remote' = [remote EXCEPT ![u] =
                     [known |-> TRUE, on |-> value, desired |-> value,
                      fails |-> 0, available |-> TRUE]]
      /\ told' = [told EXCEPT ![u] = Tell(u, value)]
  BY DEF Take
<1>2. value # Indeterminate
  BY LinkAssumption
<1> SUFFICES ASSUME NEW w \in Unit, NEW v \in Valve
             PROVE  /\ remote'[w].known => told'[w].on[v] = (v \in remote'[w].on.on)
                    /\ told'[w].desired[v] \in {(v \in Wanted(w)'.on), None}
  BY DEF ToldInv
<1>3. CASE w = u
  <2>1. remote'[u] = [known |-> TRUE, on |-> value, desired |-> value,
                      fails |-> 0, available |-> TRUE]
    BY <1>1 DEF TypeOK
  <2>2. Wanted(u)' = value
    BY <1>2, <2>1 DEF Wanted
  <2>3. told'[u] = Tell(u, value)
    BY <1>1 DEF TypeOK
  <2>4. Tell(u, value).on[v] = (v \in value.on)
    BY DEF ToldInv, Tell, SameOn
  <2>5. Tell(u, value).desired[v] \in {(v \in value.on), None}
    BY DEF ToldInv, Tell, SameDesired
  <2> QED
    BY <1>3, <2>1, <2>2, <2>3, <2>4, <2>5
<1>4. CASE w # u
  <2>1. remote'[w] = remote[w] /\ told'[w] = told[w]
    BY <1>1, <1>4 DEF TypeOK
  <2> QED
    BY <2>1 DEF ToldInv, Wanted
<1> QED
  BY <1>3, <1>4

LEMMA SetDesiredTold ==
  ASSUME TypeOK, ToldInv, NEW u \in Unit, NEW valve \in Valve, NEW isOn \in BOOLEAN,
         SetDesired(u, valve, isOn)
  PROVE  ToldInv'
<1> DEFINE after == WithValve(Wanted(u), valve, isOn)
<1>1. after \in SolenoidState
  BY WantedType DEF WithValve, SolenoidState
<1>2. PICK fails : remote' = [remote EXCEPT ![u] = Desiring(remote[u], after, fails)]
  BY DEF SetDesired
<1>3. told' = IF after # Wanted(u)
                THEN [told EXCEPT ![u] =
                        [on |-> told[u].on,
                         desired |-> [told[u].desired EXCEPT ![valve] = isOn]]]
                ELSE told
  BY DEF SetDesired
<1>4. \A v \in Valve : (v \in after.on) = IF v = valve THEN isOn ELSE v \in Wanted(u).on
  BY DEF WithValve
<1>5. after # Indeterminate
  BY <1>1, LinkAssumption
<1> HIDE DEF after
<1> SUFFICES ASSUME NEW w \in Unit, NEW v \in Valve
             PROVE  /\ remote'[w].known => told'[w].on[v] = (v \in remote'[w].on.on)
                    /\ told'[w].desired[v] \in {(v \in Wanted(w)'.on), None}
  BY DEF ToldInv
<1>6. CASE w = u
  <2>1. remote'[u] = Desiring(remote[u], after, fails)
    BY <1>2 DEF TypeOK
  <2>2. /\ Wanted(u)' = after
        /\ remote'[u].known = remote[u].known /\ remote'[u].on = remote[u].on
    BY <1>5, <2>1 DEF Wanted, Desiring
  <2>3. told'[u].on = told[u].on
    BY <1>3 DEF TypeOK
  <2>4. told'[u].desired[v] = IF after # Wanted(u) /\ v = valve THEN isOn
                                                              ELSE told[u].desired[v]
    BY <1>3 DEF TypeOK
  <2>5. told[u].desired[v] \in {(v \in Wanted(u).on), None}
        /\ (remote[u].known => told[u].on[v] = (v \in remote[u].on.on))
    BY DEF ToldInv
  <2> QED
    BY <1>4, <1>6, <2>2, <2>3, <2>4, <2>5
<1>7. CASE w # u
  <2>1. remote'[w] = remote[w] /\ told'[w] = told[w]
    BY <1>2, <1>3, <1>7 DEF TypeOK
  <2> QED
    BY <2>1 DEF ToldInv, Wanted
<1> QED
  BY <1>6, <1>7

LEMMA FailTold == ASSUME TypeOK, ToldInv, NEW u \in Unit, Fail(u) PROVE ToldInv'
<1>1. PICK fails, available :
        remote' = [remote EXCEPT ![u] =
                     [known |-> remote[u].known, on |-> remote[u].on,
                      desired |-> remote[u].desired, fails |-> fails,
                      available |-> available]]
  BY DEF Fail
<1>2. told' = told
  BY DEF Fail
<1>3. ASSUME NEW w \in Unit
      PROVE  /\ remote'[w].known = remote[w].known /\ remote'[w].on = remote[w].on
             /\ remote'[w].desired = remote[w].desired
  BY <1>1 DEF TypeOK
<1> QED
  BY <1>2, <1>3 DEF ToldInv, Wanted

\* Whatever a client sets and whatever a unit answers, in any order, the last
\* events have told the value that the controller has.
THEOREM ToldCorrect == Spec => []Told
<1>1. Init => ToldInv
  BY DEF Init, Fresh, Untold, ToldInv
<1>2. ASSUME TypeOK, ToldInv, [Next]_vars PROVE ToldInv'
  <2>1. CASE UNCHANGED <<remote, told>>
    <3>1. \A u \in Unit : Wanted(u)' = Wanted(u)
      BY <2>1 DEF Wanted
    <3> QED
      BY <1>2, <2>1, <3>1 DEF ToldInv
  <2>2. CASE Controller
    <3>1. ASSUME NEW u \in Unit, Update(u) \/ EndCommand(u)
          PROVE  UNCHANGED <<remote, told>>
      BY <3>1 DEF Update, Send, EndCommand
    <3>2. ASSUME NEW u \in Unit, ReadAnswer(u) PROVE ToldInv'
      <4>1. CASE Acceptable(u)
        <5>1. input[1] \in Answer
          BY <1>2, <3>2, <4>1 DEF TypeOK, ReadAnswer
        <5>2. Take(u, input[1].value, input[1].late) /\ input[1].value \in SolenoidState
          BY <3>2, <4>1, <5>1 DEF ReadAnswer, Accept, Answer, Packet
        <5> QED
          BY <1>2, <5>2, TakeTold
      <4>2. CASE ~Acceptable(u)
        BY <1>2, <3>2, <4>2, FailTold DEF ReadAnswer
      <4> QED
        BY <4>1, <4>2
    <3>3. ASSUME NEW u \in Unit, Timeout(u) PROVE ToldInv'
      BY <1>2, <3>3, FailTold DEF Timeout
    <3>4. ASSUME NEW answers, Begin(answers) PROVE UNCHANGED <<remote, told>>
      BY <3>4 DEF Begin
    <3> QED
      BY <2>1, <2>2, <3>1, <3>2, <3>3, <3>4 DEF Controller
  <2>3. CASE Client
    <3>1. CASE Reset
      BY <3>1 DEF Reset, Fresh, Untold, ToldInv
    <3>2. ASSUME NEW u, NEW value, RunCommand(u, value) \/ ReadSignal
          PROVE  UNCHANGED <<remote, told>>
      BY <3>2 DEF RunCommand, Send, ReadSignal
    <3>3. ASSUME NEW u \in Subject, NEW v \in Valve, NEW isOn \in BOOLEAN,
                 SetDesired(u, v, isOn)
          PROVE  ToldInv'
      <4>1. u \in Unit
        BY LinkAssumption DEF Unit
      <4> QED
        BY <1>2, <3>3, <4>1, SetDesiredTold
    <3> QED
      BY <2>1, <2>3, <3>1, <3>2, <3>3 DEF Client
  <2>4. Radio \/ Lose \/ Tick \/ UNCHANGED vars
          \/ (\E u \in Unit : Expire(u) \/ UnitRestart(u)) => UNCHANGED <<remote, told>>
    BY DEF Radio, Arrive, Hear, Lose, Tick, Expire, UnitRestart, controllerVars, vars
  <2> QED
    BY <1>2, <2>1, <2>2, <2>3, <2>4 DEF Next
<1>3. ToldInv => Told
  BY DEF ToldInv, Told
<1> QED
  BY <1>1, <1>2, <1>3, InitType, NextType, PTL DEF Spec

------------------------------------------------------------------------------
(* No unit is forgotten *)

InTime(age) == age < TimeRange \div 2 \/ TimeRange - age <= LongestDelay

\* A unit has been due for half the range of time and is not updated yet: one
\* more unit of time, and it would be taken for one that is not due.
PassedOver == \E u \in Unit : overdue[u] = (TimeRange \div 2) - 1

LEMMA NotForgottenInTime == NotForgotten <=> \A u \in Unit : InTime(overdue[u])
BY DEF NotForgotten, InTime, IsDue

LEMMA LongestDelayIsLongest ==
  /\ LongestDelay \in Nat /\ LongestDelay >= 2
  /\ Interval <= LongestDelay /\ ActiveInterval <= LongestDelay
  /\ \A fails \in 0 .. MaxFailCount :
       Shifted[fails] \in Nat /\ Shifted[fails] <= LongestDelay
<1>1. MaxFailCount \in Nat /\ 0 \in 0 .. MaxFailCount /\ Shifted[0] = 2
  BY Numbers, ShiftedDef
<1>2. \A fails \in 0 .. MaxFailCount :
        Shifted[fails] \in Int /\ Shifted[fails] > 0 /\ Shifted[fails] <= Shifted[MaxFailCount]
  BY <1>1, ShiftedDef, ShiftedGrows
<1>3. Interval \in Nat /\ ActiveInterval \in Nat /\ ActiveInterval <= Interval
  BY Numbers, LinkAssumption
<1>4. Shifted[MaxFailCount] \in Int /\ Shifted[MaxFailCount] >= 2
  BY <1>1, <1>2
<1>5. LongestDelay \in Nat /\ LongestDelay >= 2 /\ Interval <= LongestDelay
      /\ Shifted[MaxFailCount] <= LongestDelay
  BY <1>3, <1>4 DEF LongestDelay
<1> QED
  BY <1>2, <1>3, <1>4, <1>5

\* What is due now or was due a moment ago is in time.
LEMMA DueIsInTime ==
  ASSUME NEW age \in {0, 1}, age < TimeRange PROVE InTime(age)
BY Numbers, LongestDelayIsLongest DEF InTime

\* The next update after a delay, for all wrapping.
LEMMA DelayInTime ==
  ASSUME NEW delay \in Nat, delay <= LongestDelay, NEW ago \in 0 .. 1
  PROVE  InTime(DueIn(delay, ago))
<1>1. DueIn(delay, ago) \in 0 .. TimeRange - 1
  BY Numbers DEF DueIn
<1>2. CASE delay >= TimeRange
  BY <1>1, <1>2, Numbers, LongestDelayIsLongest DEF InTime
<1>3. CASE delay <= ago
  <2>1. ago - delay \in {0, 1}
    BY <1>3
  <2>2. (ago - delay) % TimeRange \in {0, 1}
    BY <2>1, Numbers
  <2> QED
    BY <1>1, <2>2, DueIsInTime, Numbers DEF DueIn
<1>4. CASE ago < delay /\ delay < TimeRange
  <2>1. (ago - delay) % TimeRange = TimeRange + ago - delay
    BY <1>4, Numbers
  <2> QED
    BY <1>4, <2>1, Numbers, LongestDelayIsLongest DEF InTime, DueIn
<1> QED
  BY <1>2, <1>3, <1>4, Numbers

\* A moment later the unit is in time still, unless it was passed over.
LEMMA LaterInTime ==
  ASSUME NEW age \in 0 .. TimeRange - 1, InTime(age), age # (TimeRange \div 2) - 1
  PROVE  InTime((age + 1) % TimeRange)
<1>1. CASE age + 1 = TimeRange
  <2>1. (age + 1) % TimeRange = 0
    BY <1>1, Numbers
  <2> QED
    BY <2>1, DueIsInTime, Numbers
<1>2. CASE age + 1 < TimeRange
  <2>1. (age + 1) % TimeRange = age + 1
    BY <1>2, Numbers
  <2> QED
    BY <2>1, <1>2, Numbers, LongestDelayIsLongest DEF InTime
<1> QED
  BY <1>1, <1>2, Numbers

LEMMA ZeroInTime == InTime(0)
BY DueIsInTime, Numbers

LEMMA FailInTime ==
  ASSUME TypeOK, NotForgotten, NEW u \in Unit, Fail(u) PROVE NotForgotten'
<1>1. PICK fails \in 0 .. MaxFailCount :
        overdue' = [overdue EXCEPT ![u] = DueIn(Backoff(u, fails), spent)]
  <2>1. remote[u].fails + 1 \in Nat
    BY DEF TypeOK, Remote
  <2>2. Capped(remote[u].fails + 1, MaxFailCount) \in 0 .. MaxFailCount
    BY <2>1, CappedType, Numbers
  <2> QED
    BY <2>2 DEF Fail
<1>2. spent \in 0 .. 1 /\ DOMAIN overdue = Unit
  BY DEF TypeOK
<1>3. Backoff(u, fails) \in Nat /\ Backoff(u, fails) <= LongestDelay
  BY LongestDelayIsLongest DEF Backoff
<1>4. InTime(DueIn(Backoff(u, fails), spent))
  BY <1>2, <1>3, DelayInTime
<1>5. ASSUME NEW v \in Unit PROVE InTime(overdue'[v])
  <2>1. CASE v = u
    BY <1>1, <1>2, <1>4, <2>1
  <2>2. CASE v # u
    BY <1>1, <1>2, <2>2, NotForgottenInTime
  <2> QED
    BY <2>1, <2>2
<1> QED
  BY <1>5 DEF NotForgotten, InTime, IsDue

LEMMA TakeInTime ==
  ASSUME TypeOK, NotForgotten, NEW u \in Unit, NEW value, NEW late, Take(u, value, late)
  PROVE  NotForgotten'
<1>1. overdue' = [overdue EXCEPT ![u] = DueIn(NextIn(value), spent)]
  BY DEF Take
<1>2. spent \in 0 .. 1 /\ DOMAIN overdue = Unit
  BY DEF TypeOK
<1>3. NextIn(value) \in Nat /\ NextIn(value) <= LongestDelay
  BY Numbers, LongestDelayIsLongest DEF NextIn
<1>4. InTime(DueIn(NextIn(value), spent))
  BY <1>2, <1>3, DelayInTime
<1>5. ASSUME NEW v \in Unit PROVE InTime(overdue'[v])
  <2>1. CASE v = u
    BY <1>1, <1>2, <1>4, <2>1
  <2>2. CASE v # u
    BY <1>1, <1>2, <2>2, NotForgottenInTime
  <2> QED
    BY <2>1, <2>2
<1> QED
  BY <1>5 DEF NotForgotten, InTime, IsDue

LEMMA TickInTime ==
  ASSUME TypeOK, NotForgotten, ~PassedOver, Tick PROVE NotForgotten'
<1>1. ASSUME NEW u \in Unit PROVE InTime(overdue'[u])
  <2>1. overdue'[u] = (overdue[u] + 1) % TimeRange
    BY DEF Tick
  <2>2. overdue[u] \in 0 .. TimeRange - 1 /\ overdue[u] # (TimeRange \div 2) - 1
    BY DEF TypeOK, PassedOver
  <2>3. InTime(overdue[u])
    BY NotForgottenInTime
  <2> QED
    BY <2>1, <2>2, <2>3, LaterInTime
<1> QED
  BY <1>1 DEF NotForgotten, InTime, IsDue

LEMMA ClientInTime ==
  ASSUME TypeOK, NotForgotten, Client PROVE NotForgotten'
<1>1. ASSUME NEW v \in Unit PROVE overdue'[v] \in {0, overdue[v]}
  <2>1. CASE Reset \/ ReadSignal
    BY <2>1 DEF Reset, ReadSignal
  <2>2. ASSUME NEW u \in Subject, NEW w \in Valve, NEW isOn \in BOOLEAN,
               SetDesired(u, w, isOn)
        PROVE  overdue'[v] \in {0, overdue[v]}
    <3>1. overdue' = [overdue EXCEPT ![u] = 0] \/ overdue' = overdue
      BY <2>2 DEF SetDesired
    <3> QED
      BY <3>1 DEF TypeOK
  <2>3. ASSUME NEW u \in Subject,
               NEW value \in {None, Closed, [force |-> FALSE, on |-> Valve]},
               RunCommand(u, value)
        PROVE  overdue' = overdue
    BY <2>3 DEF RunCommand, Send
  <2> QED
    BY <2>1, <2>2, <2>3 DEF Client
<1>2. ASSUME NEW v \in Unit PROVE InTime(overdue'[v])
  BY <1>1, ZeroInTime, NotForgottenInTime
<1> QED
  BY <1>2 DEF NotForgotten, InTime, IsDue

LEMMA SameInTime ==
  ASSUME NotForgotten, UNCHANGED overdue PROVE NotForgotten'
BY DEF NotForgotten, IsDue

LEMMA NextInTime ==
  ASSUME TypeOK, NotForgotten, ~PassedOver, [Next]_vars PROVE NotForgotten'
<1>1. CASE Controller
  <2>1. ASSUME NEW answers, Begin(answers) PROVE NotForgotten'
    BY <2>1, SameInTime DEF Begin
  <2>2. ASSUME NEW u \in Unit, Update(u) PROVE NotForgotten'
    BY <2>2, SameInTime DEF Update, Send
  <2>3. ASSUME NEW u \in Unit, ReadAnswer(u) PROVE NotForgotten'
    BY <2>3, FailInTime, TakeInTime DEF ReadAnswer, Accept
  <2>4. ASSUME NEW u \in Unit, Timeout(u) PROVE NotForgotten'
    BY <2>4, FailInTime DEF Timeout
  <2>5. ASSUME NEW u \in Unit, EndCommand(u) PROVE NotForgotten'
    BY <2>5, SameInTime DEF EndCommand
  <2> QED
    BY <1>1, <2>1, <2>2, <2>3, <2>4, <2>5 DEF Controller
<1>2. CASE Client
  BY <1>2, ClientInTime
<1>3. CASE Radio
  BY <1>3, SameInTime DEF Radio, Arrive, Hear, controllerVars
<1>4. CASE Lose
  BY <1>4, SameInTime DEF Lose, controllerVars
<1>5. CASE Tick
  BY <1>5, TickInTime
<1>6. ASSUME NEW u \in Unit, Expire(u) \/ UnitRestart(u) PROVE NotForgotten'
  BY <1>6, SameInTime DEF Expire, UnitRestart, controllerVars
<1>7. CASE UNCHANGED vars
  BY <1>7, SameInTime DEF vars
<1> QED
  BY <1>1, <1>2, <1>3, <1>4, <1>5, <1>6, <1>7 DEF Next

\* For all intervals, retries and ranges of time, no shift or wrap puts a unit
\* further from its next update than the longest delay.  The one way to forget a
\* unit is to pass it over, while it is due, for half the range of time: that many
\* exchanges with other units or for clients.
THEOREM NotForgottenCorrect == Spec /\ []~PassedOver => []NotForgotten
<1>1. Init => NotForgotten
  <2>1. SUFFICES ASSUME Init, NEW u \in Unit PROVE InTime(overdue[u])
    BY NotForgottenInTime
  <2>2. overdue[u] = 0
    BY <2>1 DEF Init
  <2> QED
    BY <2>2, ZeroInTime
<1>2. TypeOK /\ NotForgotten /\ ~PassedOver /\ [Next]_vars => NotForgotten'
  BY NextInTime
<1> QED
  BY <1>1, <1>2, LinkTypeCorrect, PTL DEF Spec
==============================================================================
