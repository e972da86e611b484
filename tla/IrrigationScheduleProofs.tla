----------------------- MODULE IrrigationScheduleProofs -----------------------
(***************************************************************************)
(* Proofs about IrrigationSchedule for every set of properties, messages,  *)
(* invocations, requests and delays, in three parts:                       *)
(*   - evaluations and types;                                              *)
(*   - safety: no evaluation throws, and until two evaluations overlap     *)
(*     every property is tracked and follows the lifecycle, all of which   *)
(*     rests on the inductive invariant OneEvaluation;                     *)
(*   - the chain of evaluations: while there is something left to do, the  *)
(*     message the row waits for is on its way, being handled, or gone for *)
(*     a known reason (ChainAlive), and a pending change is looked at soon *)
(*     (PendingSoon).                                                      *)
(***************************************************************************)
EXTENDS IrrigationSchedule, WellFoundedInduction, TLAPS

------------------------------------------------------------------------------
(* The evaluation of one property.                                          *)

\* A property is set after an evaluation exactly when an entry runs.
LEMMA SetIffRuns ==
  ASSUME NEW s \in PropertyState, NEW run \in BOOLEAN, NEW d \in Reading
  PROVE  NewSet(s, run, d) = run
BY DEF NewSet, TurnsOn, TurnsOff, PropertyState, Reading

\* What NewState returns is a property state.
LEMMA NewStateType ==
  ASSUME NEW s \in PropertyState, NEW run \in BOOLEAN, NEW d \in Reading,
         NEW abort \in BOOLEAN, NEW t \in Nat
  PROVE  NewState(s, run, d, abort, t) \in PropertyState
<1>1. NewSet(s, run, d) \in BOOLEAN
  BY SetIffRuns
<1>2. NewSeen(s, run, d) \in BOOLEAN
  BY DEF NewSeen, PropertyState, TurnsOn, TurnsOff, Reading
<1>3. CASE NewState(s, run, d, abort, t) = Absent
  BY <1>3 DEF Absent, PropertyState
<1>4. CASE NewState(s, run, d, abort, t) # Absent
  BY <1>1, <1>2, <1>4 DEF NewState, PropertyState
<1> QED
  BY <1>3, <1>4

\* What an evaluation that does not abort, or one that does, can make of a
\* property: it follows the lifecycle and publishes what the lifecycle allows.
LEMMA NewStateMoves ==
  ASSUME NEW s \in PropertyState, NEW run \in BOOLEAN, NEW d \in Reading,
         NEW abort \in BOOLEAN, NEW t \in Nat, abort => ~run
  PROVE  LET n == NewState(s, run, d, abort, t)
         IN  /\ TurnsOn(s, run, d) => n.set /\ ~n.seen
             /\ TurnsOff(s, run, d) => ~n.set
             /\ s.set /\ ~n.set => TurnsOff(s, run, d) /\ n.seen
             /\ \/ PhaseOf(n) = PhaseOf(s)
                \/ <<PhaseOf(s), PhaseOf(n)>> \in Lifecycle!Moves
<1> DEFINE set  == NewSet(s, run, d)
           seen == NewSeen(s, run, d)
           n    == NewState(s, run, d, abort, t)
<1>1. set = run
  BY SetIffRuns
<1>2. \/ n.set = set /\ n.seen = seen
      \/ ~n.set /\ ~n.seen /\ set = s.set /\ seen /\ ~run
      \/ ~n.set /\ ~n.seen /\ ~set /\ ~seen
  BY <1>1 DEF NewState, Absent, PropertyState
<1>3. TurnsOn(s, run, d) => set /\ ~seen
  BY <1>1 DEF NewSeen, TurnsOn
<1>4. TurnsOff(s, run, d) => ~set /\ seen
  BY <1>1 DEF NewSeen, TurnsOn, TurnsOff
<1>5. s.set /\ ~set => TurnsOff(s, run, d)
  BY <1>1 DEF TurnsOff
<1>6. ~s.set /\ set => ~seen
  BY <1>1 DEF NewSeen, TurnsOn
<1>7. ~s.set /\ ~s.seen /\ ~set => ~seen
  BY <1>1 DEF NewSeen, TurnsOn, TurnsOff, Reading, PropertyState
<1>8. s.set /\ s.seen /\ set => seen
  BY <1>1 DEF NewSeen, TurnsOn, TurnsOff, Reading, PropertyState
<1> HIDE DEF set, seen, n
<1>9. QED
  BY <1>1, <1>2, <1>3, <1>4, <1>5, <1>6, <1>7, <1>8
     DEF PhaseOf, Lifecycle!Moves, n, TurnsOn

------------------------------------------------------------------------------
(* The evaluation of a row.                                                 *)

\* "expected empty property schedule state" is never thrown: whatever is set
\* and seen belongs to a running entry, whose end is still to come.
LEMMA EvaluationNeverThrows ==
  ASSUME NEW r \in Row, NEW rep \in [Property -> Reading], NEW t \in Nat
  PROVE  ~Throws(r, NewStates(r, rep, t), t)
<1> SUFFICES ASSUME Throws(r, NewStates(r, rep, t), t) PROVE FALSE
  OBVIOUS
<1> DEFINE new(p) == NewStates(r, rep, t)[p]
<1>1. PICK p \in Property : IsTracked(new(p)) /\ ~IsPending(new(p))
  BY DEF Throws, AnyPending
<1>2. r.state[p] \in PropertyState /\ rep[p] \in Reading
      /\ Runs(r, p, t) \in BOOLEAN /\ r.abort \in BOOLEAN
  BY DEF Row, Runs
<1>3. new(p) = NewState(r.state[p], Runs(r, p, t), rep[p], r.abort, t)
  BY DEF NewStates
<1>4. new(p) \in PropertyState
  BY <1>2, <1>3, NewStateType
<1>5. new(p).set
  BY <1>1, <1>4 DEF IsTracked, IsPending, PropertyState
<1>6. Runs(r, p, t)
  BY <1>2, <1>3, <1>5, SetIffRuns DEF NewState, Absent
<1>7. PICK e \in r.entries : t < e.end
  BY <1>6 DEF Runs
<1>8. e.end \in Upcoming(r, t)
  BY <1>6, <1>7 DEF Upcoming, Runs, Row, Entry
<1> QED
  BY <1>8 DEF Throws

\* The states an evaluation stores are property states.
LEMMA NewStatesType ==
  ASSUME NEW r \in Row, NEW rep \in [Property -> Reading], NEW t \in Nat
  PROVE  NewStates(r, rep, t) \in [Property -> PropertyState]
<1> SUFFICES ASSUME NEW p \in Property
             PROVE  NewState(r.state[p], Runs(r, p, t), rep[p], r.abort, t)
                      \in PropertyState
  BY DEF NewStates
<1>1. r.state[p] \in PropertyState /\ rep[p] \in Reading
      /\ Runs(r, p, t) \in BOOLEAN /\ r.abort \in BOOLEAN
  BY DEF Row, Runs
<1> QED
  BY <1>1, NewStateType

\* The delays NextEvaluation asks for are naturals.
LEMMA NextEvaluationType ==
  ASSUME NEW r \in Row, NEW states, NEW t \in Nat
  PROVE  NextEvaluation(r, states, t) \in SUBSET Nat
<1>1. EvaluateDelay \in Nat
  BY EvaluationAssumption
<1>2. \A x \in Upcoming(r, t) : x \in Nat /\ x > t
  BY DEF Upcoming, Row, Entry
<1>3. \A x \in First(Upcoming(r, t)) : Larger(EvaluateDelay, x - t) \in Nat
  BY <1>1, <1>2 DEF First, Larger
<1> QED
  BY <1>1, <1>3 DEF NextEvaluation

\* The row an evaluation acts on: with abort set when it starts one.
Acting(read, rep, t) ==
  [read EXCEPT !.abort = @ \/ (~read.abort /\ TooManyExpired(NewStates(read, rep, t)))]

\* It is a row, different from the row read in nothing but the abort.
LEMMA ActingType ==
  ASSUME NEW read \in Row, NEW rep, NEW t
  PROVE  /\ Acting(read, rep, t) \in Row
         /\ Acting(read, rep, t).state = read.state
BY DEF Acting, Row

\* What an evaluation decides, as components of the row it acts on.
LEMMA DecideFields ==
  ASSUME NEW read \in Row, NEW rep \in [Property -> Reading], NEW t \in Nat
  PROVE  LET acting == Acting(read, rep, t)
             decided == Decide(read, rep, t).result
         IN  /\ decided \in Result
             /\ decided.state = NewStates(acting, rep, t)
             /\ decided.on = SwitchOn(acting, rep, t)
             /\ decided.off = SwitchOff(acting, rep, t)
<1> DEFINE acting == Acting(read, rep, t)
           decided == Decide(read, rep, t).result
<1>1. acting \in Row
  BY ActingType
<1>2. /\ NewStates(acting, rep, t) \in [Property -> PropertyState]
      /\ NextEvaluation(acting, NewStates(acting, rep, t), t) \in SUBSET Nat
      /\ KeptEntries(acting, t) \in SUBSET Entry
      /\ SwitchOn(acting, rep, t) \in SUBSET Property
      /\ SwitchOff(acting, rep, t) \in SUBSET Property
  BY <1>1, NewStatesType, NextEvaluationType
     DEF KeptEntries, SwitchOn, SwitchOff, Row
<1>3. decided =
        [state    |-> NewStates(acting, rep, t),
         aborting |-> ~read.abort /\ TooManyExpired(NewStates(read, rep, t)),
         cleaned  |-> KeptEntries(acting, t) # acting.entries,
         entries  |-> IF KeptEntries(acting, t) # acting.entries
                      THEN KeptEntries(acting, t) ELSE {},
         next     |-> NextEvaluation(acting, NewStates(acting, rep, t), t),
         id       |-> NoId,
         on       |-> SwitchOn(acting, rep, t),
         off      |-> SwitchOff(acting, rep, t)]
  BY DEF Decide, Acting
<1> HIDE DEF acting, decided
<1>4. decided \in Result
  BY <1>2, <1>3 DEF Result
<1> QED
  BY <1>3, <1>4 DEF acting, decided

------------------------------------------------------------------------------
(* Type correctness.                                                        *)

\* A fresh identity is an identity.
LEMMA NewIdType ==
  ASSUME FreshIds # {}
  PROVE  NewId \in MessageId
BY DEF NewId, FreshIds

\* A message is due at a natural time.
LEMMA SentType ==
  ASSUME TypeOK, NEW id \in MessageId \cup {NoId}, NEW delay \in Nat,
         NEW retry \in BOOLEAN
  PROVE  Sent(id, delay, retry) \in Message
<1>1. MinDelay \in Nat /\ MaxDelay \in Nat
  BY ScheduleAssumption
<1>2. Larger(MinDelay, Smaller(MaxDelay, delay)) \in Nat
  BY <1>1 DEF Larger, Smaller
<1> QED
  BY <1>2 DEF Sent, Message, TypeOK

\* Ending an invocation keeps the types of its variables.
LEMMA EndInvocationType ==
  ASSUME TypeOK, NEW w \in Worker, EndInvocation(w)
  PROVE  /\ pc' \in [Worker -> {"idle", "received", "evaluated", "sent",
                                 "stored"}]
         /\ batch' \in [Worker -> SUBSET Message]
         /\ msg' \in [Worker -> Message]
         /\ start' \in [Worker -> Nat]
         /\ result' \in [Worker -> Result]
<1>1. NoMessage \in Message
  BY DEF NoMessage, Message
<1>2. NoResult \in Result
  BY DEF NoResult, AllAbsent, Absent, Result, PropertyState
<1> QED
  BY <1>1, <1>2 DEF TypeOK, EndInvocation

\* So does returning its messages to the queue.
LEMMA ReturnBatchType ==
  ASSUME TypeOK, NEW w \in Worker, ReturnBatch(w)
  PROVE  /\ queue' \subseteq Message
         /\ lost' \subseteq Causes \X (MessageId \cup {NoId})
<1>1. VisibilityTimeout \in Nat
  BY ScheduleAssumption
<1>2. /\ batch[w] \subseteq Message /\ start[w] \in Nat
      /\ queue \subseteq Message
      /\ lost \subseteq Causes \X (MessageId \cup {NoId})
  BY DEF TypeOK
<1>3. ASSUME NEW m \in Message
      PROVE  Redelivery(m, start[w] + VisibilityTimeout) \in Message
  BY <1>1, <1>2 DEF Message, Redelivery
<1>4. \A m \in Message : m.id \in MessageId \cup {NoId}
  BY DEF Message
<1>5. queue' \subseteq Message
  BY <1>2, <1>3 DEF ReturnBatch
<1>6. "dead letter" \in Causes
  BY DEF Causes
<1>7. \A m \in batch[w] :
        <<"dead letter", m.id>> \in Causes \X (MessageId \cup {NoId})
  BY <1>2, <1>4, <1>6
<1>8. lost' \subseteq Causes \X (MessageId \cup {NoId})
  BY <1>2, <1>7 DEF ReturnBatch
<1> QED
  BY <1>5, <1>8

\* The messages an invocation leaves unhandled are lost messages.
LEMMA UnhandledType ==
  ASSUME TypeOK, NEW w \in Worker
  PROVE  /\ Unhandled(w) \subseteq Causes \X (MessageId \cup {NoId})
         /\ msg[w].id \in MessageId \cup {NoId}
<1>1. batch[w] \subseteq Message /\ msg[w] \in Message
  BY DEF TypeOK
<1>2. \A m \in Message : m.id \in MessageId \cup {NoId}
  BY DEF Message
<1>3. "rest of batch" \in Causes
  BY DEF Causes
<1>4. \A m \in batch[w] :
        <<"rest of batch", m.id>> \in Causes \X (MessageId \cup {NoId})
  BY <1>1, <1>2, <1>3
<1>5. Unhandled(w) \subseteq Causes \X (MessageId \cup {NoId})
  BY <1>4 DEF Unhandled
<1> QED
  BY <1>1, <1>2, <1>5

\* Publishing leaves a result a result.
LEMMA WithoutCommandType ==
  ASSUME NEW decided \in Result, NEW p
  PROVE  WithoutCommand(decided, p) \in Result
BY DEF WithoutCommand, Result

\* Requests at rest and done are requests.
LEMMA RequestType ==
  /\ NoRequest \in Request
  /\ DoneRequest \in Request
  /\ \A id \in MessageId, began \in Nat, entries \in SUBSET Entry :
       RequestAt("running", id, began, entries) \in Request
BY DEF NoRequest, DoneRequest, RequestAt, Request

\* Every variable keeps its type.
THEOREM TypeCorrect == Spec => []TypeOK
<1>1. Init => TypeOK
  <2> SUFFICES ASSUME Init PROVE TypeOK
    OBVIOUS
  <2>1. NoMessage \in Message
    BY DEF NoMessage, Message
  <2>2. NoResult \in Result /\ AllAbsent \in [Property -> PropertyState]
    BY DEF NoResult, AllAbsent, Absent, Result, PropertyState
  <2>3. row \in Row
    BY <2>2 DEF Init, Row
  <2> QED
    BY <2>1, <2>2, <2>3, RequestType DEF Init, TypeOK
<1>2. TypeOK /\ [Next]_vars => TypeOK'
  <2> SUFFICES ASSUME TypeOK, [Next]_vars PROVE TypeOK'
    OBVIOUS
  <2> USE DEF rowVars, handlerVars, ghostVars
  <2>1. ASSUME NEW w \in Worker, Receive(w) PROVE TypeOK'
    BY <2>1 DEF Receive, Visible, TypeOK
  <2>2. ASSUME NEW w \in Worker, Evaluate(w) PROVE TypeOK'
    <3>1. PICK read \in {row, prev}, rep \in [Property -> Reading] :
            LET decision == Decide(read, rep, start[w])
            IN  IF decision.tooMany
                THEN /\ EndInvocation(w)
                     /\ lost' = lost \cup Unhandled(w)
                          \cup {<<"second abort", msg[w].id>>}
                     /\ UNCHANGED <<queue, raced>>
                ELSE IF decision.throws
                THEN /\ EndInvocation(w)
                     /\ ReturnBatch(w)
                     /\ UNCHANGED raced
                ELSE /\ pc' = [pc EXCEPT ![w] = "evaluated"]
                     /\ result' = [result EXCEPT ![w] = decision.result]
                     /\ raced' = (raced \/ read # row \/ Evaluating # {})
                     /\ UNCHANGED <<queue, batch, msg, start, lost>>
      BY <2>2 DEF Evaluate
    <3> DEFINE decision == Decide(read, rep, start[w])
    <3>2. UNCHANGED <<now, rowVars, client, reset, failures, commanded, lostOff>>
      BY <2>2 DEF Evaluate
    <3>3. read \in Row /\ start[w] \in Nat
      BY DEF TypeOK
    <3>4. decision.result \in Result
      BY <3>3, DecideFields
    <3>5. <<"second abort", msg[w].id>> \in Causes \X (MessageId \cup {NoId})
      BY UnhandledType DEF Causes
    <3> HIDE DEF decision
    <3>6. CASE decision.tooMany
      <4>1. EndInvocation(w) /\ UNCHANGED <<queue, raced>>
        BY <3>1, <3>6 DEF decision
      <4>2. lost' = lost \cup Unhandled(w) \cup {<<"second abort", msg[w].id>>}
        BY <3>1, <3>6 DEF decision
      <4> QED
        BY <3>2, <3>5, <4>1, <4>2, EndInvocationType, UnhandledType DEF TypeOK
    <3>7. CASE ~decision.tooMany /\ decision.throws
      <4>1. EndInvocation(w) /\ ReturnBatch(w) /\ UNCHANGED raced
        BY <3>1, <3>7 DEF decision
      <4> QED
        BY <3>2, <4>1, EndInvocationType, ReturnBatchType DEF TypeOK
    <3>8. CASE ~decision.tooMany /\ ~decision.throws
      <4>1. /\ pc' = [pc EXCEPT ![w] = "evaluated"]
            /\ result' = [result EXCEPT ![w] = decision.result]
            /\ raced' = (raced \/ read # row \/ Evaluating # {})
            /\ UNCHANGED <<queue, batch, msg, start, lost>>
        BY <3>1, <3>8 DEF decision
      <4>2. raced' \in BOOLEAN
        BY <4>1
      <4> QED
        BY <3>2, <3>4, <4>1, <4>2 DEF TypeOK
    <3> QED
      BY <3>6, <3>7, <3>8
  <2>3. ASSUME NEW w \in Worker, Superseded(w) PROVE TypeOK'
    <3>1. RetryDelay \in Nat /\ msg[w].id \in MessageId \cup {NoId}
      BY UnhandledType, ScheduleAssumption
    <3>2. Sent(msg[w].id, RetryDelay, TRUE) \in Message
      BY <3>1, SentType
    <3>3. <<"unawaited send", msg[w].id>> \in Causes \X (MessageId \cup {NoId})
      BY <3>1 DEF Causes
    <3>4. EndInvocation(w)
      BY <2>3 DEF Superseded
    <3>5. queue' \subseteq Message
      BY <2>3, <3>2 DEF Superseded, TypeOK
    <3>6. lost' \subseteq Causes \X (MessageId \cup {NoId})
      <4>1. lost' \subseteq lost \cup Unhandled(w)
                            \cup {<<"unawaited send", msg[w].id>>}
        BY <2>3 DEF Superseded
      <4> QED
        BY <3>3, <4>1, UnhandledType DEF TypeOK
    <3>7. failures' \in Nat
      <4>1. failures' = failures \/ failures' = failures + 1
        BY <2>3 DEF Superseded
      <4> QED
        BY <4>1 DEF TypeOK
    <3> QED
      <4>1. UNCHANGED <<now, rowVars, client, reset, commanded, raced, lostOff>>
        BY <2>3 DEF Superseded
      <4> QED
        BY <3>4, <3>5, <3>6, <3>7, <4>1, EndInvocationType DEF TypeOK
  <2>4. ASSUME NEW w \in Worker, SendNext(w) PROVE TypeOK'
    <3>1. NewId \in MessageId
      BY <2>4, NewIdType DEF SendNext
    <3>2. PICK delay \in result[w].next :
            /\ queue' = queue \cup {Sent(NewId, delay, FALSE)}
            /\ result' = [result EXCEPT ![w].id = NewId]
      BY <2>4 DEF SendNext
    <3>3. result[w] \in Result
      BY DEF TypeOK
    <3>4. delay \in Nat
      BY <3>2, <3>3 DEF Result
    <3>5. Sent(NewId, delay, FALSE) \in Message
      BY <3>1, <3>4, SentType
    <3>6. [result[w] EXCEPT !.id = NewId] \in Result
      BY <3>1, <3>3 DEF Result
    <3>7. result' \in [Worker -> Result]
      BY <3>2, <3>6 DEF TypeOK
    <3> QED
      BY <2>4, <3>2, <3>5, <3>7 DEF SendNext, TypeOK
  <2>5. ASSUME NEW w \in Worker, UpdateSchedule(w) PROVE TypeOK'
    <3>1. result[w] \in Result /\ row \in Row
      BY DEF TypeOK
    <3>2. row' \in Row
      BY <2>5, <3>1 DEF UpdateSchedule, Result, Row
    <3>3. lost' \subseteq Causes \X (MessageId \cup {NoId})
      <4>1. <<"restored entries", row.messageId>>
              \in Causes \X (MessageId \cup {NoId})
        BY <3>1 DEF Causes, Row
      <4>2. lost' \subseteq lost \cup {<<"restored entries", row.messageId>>}
        BY <2>5 DEF UpdateSchedule
      <4> QED
        BY <4>1, <4>2 DEF TypeOK
    <3> QED
      <4>1. /\ prev' = row /\ pc' = [pc EXCEPT ![w] = "stored"]
            /\ UNCHANGED <<now, queue, batch, msg, start, result, client,
                           reset, failures, commanded, raced, lostOff>>
        BY <2>5 DEF UpdateSchedule
      <4> QED
        BY <3>1, <3>2, <3>3, <4>1 DEF TypeOK
  <2>6. ASSUME NEW w \in Worker, NEW p \in Property, Publish(w, p)
        PROVE  TypeOK'
    <3>1. WithoutCommand(result[w], p) \in Result
      BY WithoutCommandType DEF TypeOK
    <3> QED
      BY <2>6, <3>1 DEF Publish, TypeOK
  <2>7. ASSUME NEW w \in Worker, Finish(w) PROVE TypeOK'
    BY <2>7, EndInvocationType, UnhandledType DEF Finish, TypeOK
  <2>8. ASSUME NEW w \in Worker, Fail(w) PROVE TypeOK'
    <3>1. lostOff' \subseteq Property
      BY <2>8 DEF Fail, TypeOK, Result
    <3> QED
      BY <2>8, <3>1, EndInvocationType, ReturnBatchType DEF Fail, TypeOK
  <2>9. ASSUME NEW c \in Client, SetSchedule(c) PROVE TypeOK'
    <3>1. NewId \in MessageId /\ Schedules \subseteq SUBSET Entry
      BY <2>9, NewIdType, ScheduleAssumption DEF SetSchedule
    <3>2. \A entries \in Schedules :
            RequestAt("running", NewId, now, entries) \in Request
      BY <3>1, RequestType DEF TypeOK
    <3> QED
      BY <2>9, <3>2 DEF SetSchedule, TypeOK
  <2>10. ASSUME NEW c \in Client, ClientStep(c) \/ FailRequest(c)
         PROVE  TypeOK'
    <3>1. client[c] \in Request /\ row \in Row
      BY DEF TypeOK
    <3>2. CASE StoreEntries(c)
      <4>1. row' \in Row
        BY <3>1, <3>2 DEF StoreEntries, Row, Request
      <4>2. [client[c] EXCEPT !.stored = TRUE] \in Request
        BY <3>1 DEF Request
      <4> QED
        BY <3>2, <4>1, <4>2 DEF StoreEntries, TypeOK
    <3>3. CASE SendEvaluate(c)
      <4>1. Sent(client[c].id, MinDelay, FALSE) \in Message
        BY <3>1, SentType, ScheduleAssumption DEF Request
      <4>2. [client[c] EXCEPT !.sent = TRUE] \in Request
        BY <3>1 DEF Request
      <4> QED
        BY <3>3, <4>1, <4>2 DEF SendEvaluate, TypeOK
    <3>4. CASE Respond(c)
      BY <3>4, RequestType DEF Respond, TypeOK
    <3>5. CASE FailRequest(c)
      <4>1. <<"failed request", client[c].id>>
              \in Causes \X (MessageId \cup {NoId})
        BY <3>1 DEF Causes, Request
      <4>2. lost' \subseteq lost \cup {<<"failed request", client[c].id>>}
        BY <3>5 DEF FailRequest
      <4>3. lost' \subseteq Causes \X (MessageId \cup {NoId})
        BY <4>1, <4>2 DEF TypeOK
      <4>4. client' \in [Client -> Request]
        BY <3>5, RequestType DEF FailRequest, TypeOK
      <4> QED
        <5>1. /\ UNCHANGED <<now, rowVars, queue, handlerVars, reset, commanded,
                             raced, lostOff>>
              /\ failures' = failures + 1
          BY <3>5 DEF FailRequest
        <5> QED
          BY <4>3, <4>4, <5>1 DEF TypeOK
    <3> QED
      BY <2>10, <3>2, <3>3, <3>4, <3>5 DEF ClientStep
  <2>11. ASSUME NEW r \in Reset,
                ReadOnReset(r) \/ ResetStep(r) \/ FailReset(r)
         PROVE  TypeOK'
    <3>1. reset[r] \in Request /\ row \in Row
      BY DEF TypeOK
    <3>2. CASE ReadOnReset(r)
      <4>1. FreshIds # {} => RequestAt("running", NewId, now, {}) \in Request
        BY NewIdType, RequestType DEF TypeOK
      <4>2. reset' \in [Reset -> Request]
        BY <3>2, <4>1, RequestType DEF ReadOnReset, TypeOK
      <4> QED
        BY <3>2, <4>2 DEF ReadOnReset, TypeOK
    <3>3. CASE SendAbort(r)
      <4>1. Sent(reset[r].id, 0, FALSE) \in Message
        BY <3>1, SentType DEF Request
      <4>2. [reset[r] EXCEPT !.sent = TRUE] \in Request
        BY <3>1 DEF Request
      <4> QED
        BY <3>3, <4>1, <4>2 DEF SendAbort, TypeOK
    <3>4. CASE StoreAbort(r)
      <4>1. row' \in Row
        BY <3>1, <3>4 DEF StoreAbort, Row, Request
      <4> QED
        BY <3>4, <4>1, RequestType DEF StoreAbort, TypeOK
    <3>5. CASE FailReset(r)
      BY <3>5, RequestType DEF FailReset, TypeOK
    <3> QED
      BY <2>11, <3>2, <3>3, <3>4, <3>5 DEF ResetStep
  <2>12. CASE Tick
    BY <2>12 DEF Tick, TypeOK
  <2>13. CASE Horizon \/ UNCHANGED vars
    BY <2>13 DEF Horizon, vars, TypeOK
  <2> QED
    BY <2>1, <2>2, <2>3, <2>4, <2>5, <2>6, <2>7, <2>8, <2>9, <2>10, <2>11,
       <2>12, <2>13 DEF Next, Handler
<1> QED
  BY <1>1, <1>2, PTL DEF Spec

------------------------------------------------------------------------------
(* Safety.                                                                  *)

\* Whatever row the scheduler reaches, and whatever the device reports, an
\* evaluation of it does not throw.
THEOREM NeverThrowsCorrect == Spec => []NeverThrows
<1>1. ASSUME TypeOK PROVE NeverThrows
  <2> SUFFICES ASSUME NEW rep \in [Property -> Reading]
               PROVE  ~Decide(row, rep, now).throws
    BY DEF NeverThrows
  <2>1. Acting(row, rep, now) \in Row /\ now \in Nat
    BY ActingType, <1>1 DEF TypeOK
  <2>2. Decide(row, rep, now).throws
          = Throws(Acting(row, rep, now),
                   NewStates(Acting(row, rep, now), rep, now), now)
    BY DEF Decide, Acting
  <2> QED
    BY <2>1, <2>2, EvaluationNeverThrows
<1> QED
  BY <1>1, TypeCorrect, PTL

------------------------------------------------------------------------------
(* OneEvaluation is inductive.                                              *)

\* The decision of an evaluation fits the row it was taken from.
LEMMA DecisionMoves ==
  ASSUME NEW read \in Row, NEW rep \in [Property -> Reading], NEW t \in Nat,
         NEW p \in Property
  PROVE  LET decided == Decide(read, rep, t).result
             old == read.state[p]
             new == decided.state[p]
         IN  /\ \/ PhaseOf(new) = PhaseOf(old)
                \/ <<PhaseOf(old), PhaseOf(new)>> \in Lifecycle!Moves
             /\ p \in decided.on => PhaseOf(new) = "opening"
             /\ p \in decided.off => ~new.set
             /\ old.set /\ ~new.set => p \in decided.off /\ new.seen
<1> DEFINE acting  == Acting(read, rep, t)
           decided == Decide(read, rep, t).result
           run     == Runs(acting, p, t)
           old     == read.state[p]
           new     == decided.state[p]
<1>1. acting \in Row /\ acting.state = read.state
  BY ActingType
<1>2. /\ old \in PropertyState /\ rep[p] \in Reading
      /\ acting.abort \in BOOLEAN /\ run \in BOOLEAN
      /\ acting.abort => ~run
  BY <1>1 DEF Row, Runs
<1>3. /\ decided.state = NewStates(acting, rep, t)
      /\ decided.on = SwitchOn(acting, rep, t)
      /\ decided.off = SwitchOff(acting, rep, t)
  BY DecideFields
<1>4. new = NewState(old, run, rep[p], acting.abort, t)
  BY <1>1, <1>3 DEF NewStates
<1>5. /\ p \in decided.on <=> TurnsOn(old, run, rep[p])
      /\ p \in decided.off <=> TurnsOff(old, run, rep[p])
  BY <1>1, <1>3 DEF SwitchOn, SwitchOff
<1> HIDE DEF acting, decided, run, old, new
<1>6. /\ TurnsOn(old, run, rep[p]) => new.set /\ ~new.seen
      /\ TurnsOff(old, run, rep[p]) => ~new.set
      /\ old.set /\ ~new.set => TurnsOff(old, run, rep[p]) /\ new.seen
      /\ \/ PhaseOf(new) = PhaseOf(old)
         \/ <<PhaseOf(old), PhaseOf(new)>> \in Lifecycle!Moves
  BY <1>2, <1>4, NewStateMoves
<1>7. new.set /\ ~new.seen => PhaseOf(new) = "opening"
  BY DEF PhaseOf
<1> QED
  BY <1>5, <1>6, <1>7 DEF decided, old, new

\* A step that leaves the stored states, the decisions and the commands alone.
LEMMA QuietStep ==
  ASSUME OneEvaluation, row'.state = row.state,
         UNCHANGED <<pc, result, commanded, raced, lostOff>>
  PROVE  OneEvaluation'
BY DEF OneEvaluation, Evaluating, DecisionFits, SwitchedOnIsKnown

\* No step of a setSchedule request touches the stored states.
LEMMA RequestKeepsStates ==
  ASSUME NEW c \in Client,
         \/ SetSchedule(c) \/ StoreEntries(c) \/ SendEvaluate(c)
         \/ Respond(c) \/ FailRequest(c)
  PROVE  row'.state = row.state /\ commanded' = commanded
<1>1. CASE StoreEntries(c)
  BY <1>1 DEF StoreEntries, ghostVars
<1>2. CASE SetSchedule(c) \/ SendEvaluate(c) \/ Respond(c) \/ FailRequest(c)
  BY <1>2 DEF SetSchedule, SendEvaluate, Respond, FailRequest, rowVars,
              ghostVars
<1> QED
  BY <1>1, <1>2

\* Nor does a step of an abort after a reset.
LEMMA ResetKeepsStates ==
  ASSUME NEW r \in Reset,
         ReadOnReset(r) \/ SendAbort(r) \/ StoreAbort(r) \/ FailReset(r)
  PROVE  row'.state = row.state /\ commanded' = commanded
<1>1. CASE StoreAbort(r)
  BY <1>1 DEF StoreAbort, ghostVars
<1>2. CASE ReadOnReset(r) \/ SendAbort(r) \/ FailReset(r)
  BY <1>2 DEF ReadOnReset, SendAbort, FailReset, rowVars, ghostVars
<1> QED
  BY <1>1, <1>2

\* A step after which invocation w is idle, or has not evaluated yet: what it
\* had stored and not published is remembered as lost.
LEMMA RestingStep ==
  ASSUME TypeOK, OneEvaluation, NEW w \in Worker,
         NEW at \in {"idle", "received"},
         pc' = [pc EXCEPT ![w] = at],
         \A v \in Worker \ {w} : result'[v] = result[v],
         row' = row, UNCHANGED <<commanded, raced>>,
         lostOff \subseteq lostOff',
         pc[w] = "stored" => result[w].off \subseteq lostOff'
  PROVE  OneEvaluation'
<1> SUFFICES ASSUME ~raced PROVE OneEvaluation'
  BY DEF OneEvaluation
<1>1. pc'[w] \in {"idle", "received"}
  BY DEF TypeOK
<1>2. \A v \in Worker \ {w} : pc'[v] = pc[v]
  BY DEF TypeOK
<1>3. \A u, v \in Evaluating' : u = v
  BY <1>1, <1>2 DEF OneEvaluation, Evaluating
<1>4. ASSUME NEW v \in Worker, NEW p \in Property PROVE DecisionFits(v, p)'
  BY <1>1, <1>2 DEF OneEvaluation, DecisionFits
<1>5. ASSUME NEW p \in Property PROVE SwitchedOnIsKnown(p)'
  <2> SUFFICES ASSUME commanded[p], p \notin lostOff', ~row.state[p].set
               PROVE  \E v \in Worker : /\ pc'[v] = "stored"
                                        /\ p \in result'[v].off
                                        /\ row.state[p].seen
    BY DEF SwitchedOnIsKnown
  <2>1. PICK v \in Worker :
          pc[v] = "stored" /\ p \in result[v].off /\ row.state[p].seen
    BY DEF OneEvaluation, SwitchedOnIsKnown
  <2>2. v # w
    BY <2>1
  <2> QED
    BY <1>2, <2>1, <2>2
<1> QED
  BY <1>3, <1>4, <1>5 DEF OneEvaluation

\* An evaluation that does not race is the only one, of the current row.
LEMMA EvaluateStep ==
  ASSUME TypeOK, OneEvaluation, NEW w \in Worker, Evaluate(w)
  PROVE  OneEvaluation'
<1>1. PICK read \in {row, prev}, rep \in [Property -> Reading] :
        LET decision == Decide(read, rep, start[w])
        IN  IF decision.tooMany
            THEN EndInvocation(w) /\ UNCHANGED raced
            ELSE IF decision.throws
            THEN EndInvocation(w) /\ UNCHANGED raced
            ELSE /\ pc' = [pc EXCEPT ![w] = "evaluated"]
                 /\ result' = [result EXCEPT ![w] = decision.result]
                 /\ raced' = (raced \/ read # row \/ Evaluating # {})
  BY DEF Evaluate
<1>2. pc[w] = "received" /\ UNCHANGED <<row, prev, commanded, lostOff>>
  BY DEF Evaluate, rowVars
<1> DEFINE decision == Decide(read, rep, start[w])
<1>3. CASE decision.tooMany \/ decision.throws
  <2>1. EndInvocation(w) /\ UNCHANGED raced
    BY <1>1, <1>3
  <2>2. /\ pc' = [pc EXCEPT ![w] = "idle"]
        /\ \A v \in Worker \ {w} : result'[v] = result[v]
    BY <2>1 DEF EndInvocation, TypeOK
  <2> QED
    BY <1>2, <2>1, <2>2, RestingStep
<1>4. CASE ~decision.tooMany /\ ~decision.throws
  <2>1. /\ pc' = [pc EXCEPT ![w] = "evaluated"]
        /\ result' = [result EXCEPT ![w] = decision.result]
        /\ raced' = (raced \/ read # row \/ Evaluating # {})
    BY <1>1, <1>4
  <2> SUFFICES ASSUME ~raced' PROVE OneEvaluation'
    BY DEF OneEvaluation
  <2>2. ~raced /\ read = row /\ Evaluating = {}
    BY <2>1
  <2>3. /\ pc'[w] = "evaluated" /\ result'[w] = decision.result
        /\ \A v \in Worker \ {w} : pc'[v] = pc[v] /\ result'[v] = result[v]
    BY <2>1 DEF TypeOK
  <2>4. \A u, v \in Evaluating' : u = v
    BY <2>2, <2>3 DEF Evaluating
  <2>5. ASSUME NEW v \in Worker, NEW p \in Property
        PROVE  DecisionFits(v, p)'
    <3>1. CASE v = w
      <4>1. row \in Row /\ start[w] \in Nat
        BY DEF TypeOK
      <4>2. /\ \/ PhaseOf(decision.result.state[p]) = PhaseOf(row.state[p])
               \/ <<PhaseOf(row.state[p]), PhaseOf(decision.result.state[p])>>
                    \in Lifecycle!Moves
            /\ p \in decision.result.on
                 => PhaseOf(decision.result.state[p]) = "opening"
            /\ p \in decision.result.off => ~decision.result.state[p].set
            /\ row.state[p].set /\ ~decision.result.state[p].set
                 => p \in decision.result.off /\ decision.result.state[p].seen
        BY <2>2, <4>1, DecisionMoves
      <4> HIDE DEF decision
      <4> QED
        BY <1>2, <2>3, <3>1, <4>2 DEF DecisionFits
    <3>2. CASE v # w
      BY <1>2, <2>2, <2>3, <3>2 DEF OneEvaluation, DecisionFits
    <3> QED
      BY <3>1, <3>2
  <2>6. \A v \in Worker : pc[v] # "stored"
    BY <2>2 DEF Evaluating
  <2>7. \A p \in Property : SwitchedOnIsKnown(p)'
    BY <1>2, <2>2, <2>6 DEF OneEvaluation, SwitchedOnIsKnown
  <2> QED
    BY <2>4, <2>5, <2>7 DEF OneEvaluation
<1> QED
  BY <1>3, <1>4

\* Storing a decision makes the row what the decision said.
LEMMA UpdateStep ==
  ASSUME TypeOK, OneEvaluation, NEW w \in Worker, UpdateSchedule(w)
  PROVE  OneEvaluation'
<1> SUFFICES ASSUME ~raced PROVE OneEvaluation'
  BY DEF UpdateSchedule, OneEvaluation, ghostVars
<1>1. /\ pc[w] \in {"evaluated", "sent"}
      /\ pc'[w] = "stored"
      /\ \A v \in Worker \ {w} : pc'[v] = pc[v]
      /\ row'.state = result[w].state
      /\ UNCHANGED <<result, commanded, raced, lostOff>>
  BY DEF UpdateSchedule, TypeOK, ghostVars
<1>2. \A v \in Evaluating : v = w
  BY <1>1 DEF OneEvaluation, Evaluating
<1>3. \A u, v \in Evaluating' : u = v
  BY <1>1, <1>2 DEF Evaluating
<1>4. ASSUME NEW v \in Worker, NEW p \in Property PROVE DecisionFits(v, p)'
  <2>1. CASE v = w
    BY <1>1, <2>1 DEF OneEvaluation, DecisionFits
  <2>2. CASE v # w
    BY <1>1, <1>2, <2>2 DEF Evaluating, DecisionFits
  <2> QED
    BY <2>1, <2>2
<1>5. ASSUME NEW p \in Property PROVE SwitchedOnIsKnown(p)'
  <2> SUFFICES ASSUME commanded[p], p \notin lostOff,
                      ~result[w].state[p].set
               PROVE  p \in result[w].off /\ result[w].state[p].seen
    BY <1>1 DEF SwitchedOnIsKnown
  <2>1. row.state[p].set
    BY <1>1, <1>2 DEF OneEvaluation, SwitchedOnIsKnown, Evaluating
  <2> QED
    BY <1>1, <2>1 DEF OneEvaluation, DecisionFits
<1> QED
  BY <1>3, <1>4, <1>5 DEF OneEvaluation

\* Publishing a command that fits the phase keeps what is on known.
LEMMA PublishStep ==
  ASSUME TypeOK, OneEvaluation, NEW w \in Worker, NEW q \in Property,
         Publish(w, q)
  PROVE  OneEvaluation'
<1> SUFFICES ASSUME ~raced PROVE OneEvaluation'
  BY DEF Publish, OneEvaluation
<1>1. /\ pc[w] = "stored" /\ UNCHANGED <<row, pc, raced>>
      /\ q \in result[w].on \cup result[w].off
      /\ commanded' = [commanded EXCEPT ![q] = q \in result[w].on]
      /\ lostOff' = lostOff \ {q}
  BY DEF Publish, rowVars
<1>2. /\ result'[w].state = result[w].state
      /\ result'[w].on = result[w].on \ {q}
      /\ result'[w].off = result[w].off \ {q}
      /\ \A v \in Worker \ {w} : result'[v] = result[v]
  BY DEF Publish, WithoutCommand, TypeOK
<1>3. \A u, v \in Evaluating' : u = v
  BY <1>1 DEF OneEvaluation, Evaluating
<1>4. ASSUME NEW v \in Worker, NEW p \in Property PROVE DecisionFits(v, p)'
  <2>1. CASE v = w
    BY <1>1, <1>2, <2>1 DEF OneEvaluation, DecisionFits
  <2>2. CASE v # w
    BY <1>1, <1>2, <2>2 DEF OneEvaluation, DecisionFits
  <2> QED
    BY <2>1, <2>2
<1>5. ASSUME NEW p \in Property PROVE SwitchedOnIsKnown(p)'
  <2>1. CASE p = q
    <3>1. commanded'[p] = (q \in result[w].on)
      BY <1>1, <2>1 DEF TypeOK
    <3>2. q \in result[w].on => row.state[q].set
      BY <1>1 DEF OneEvaluation, DecisionFits, PhaseOf
    <3> QED
      BY <1>1, <2>1, <3>1, <3>2 DEF SwitchedOnIsKnown
  <2>2. CASE p # q
    <3>1. commanded'[p] = commanded[p]
      BY <1>1, <2>2
    <3>2. SwitchedOnIsKnown(p)
      BY DEF OneEvaluation
    <3>3. \A v \in Worker : p \in result[v].off => p \in result'[v].off
      BY <1>2, <2>2
    <3>4. p \notin lostOff' => p \notin lostOff
      BY <1>1, <2>2
    <3> QED
      BY <1>1, <3>1, <3>2, <3>3, <3>4 DEF SwitchedOnIsKnown
  <2> QED
    BY <2>1, <2>2
<1> QED
  BY <1>3, <1>4, <1>5 DEF OneEvaluation

\* Until evaluations overlap there is one at a time, and what it still has to
\* publish agrees with the stored row, whatever fails or is delivered again.
THEOREM OneEvaluationCorrect == Spec => []OneEvaluation
<1>1. Init => OneEvaluation
  <2> SUFFICES ASSUME Init PROVE OneEvaluation
    OBVIOUS
  <2>1. \A w \in Worker : pc[w] = "idle"
    BY DEF Init
  <2>2. \A p \in Property : ~commanded[p]
    BY DEF Init
  <2> QED
    BY <2>1, <2>2
       DEF OneEvaluation, Evaluating, DecisionFits, SwitchedOnIsKnown
<1>2. TypeOK /\ OneEvaluation /\ [Next]_vars => OneEvaluation'
  <2> SUFFICES ASSUME TypeOK, OneEvaluation, [Next]_vars
               PROVE  OneEvaluation'
    OBVIOUS
  <2>1. ASSUME NEW w \in Worker, Receive(w) PROVE OneEvaluation'
    BY <2>1, RestingStep DEF Receive, rowVars, ghostVars
  <2>2. ASSUME NEW w \in Worker, Evaluate(w) PROVE OneEvaluation'
    BY <2>2, EvaluateStep
  <2>3. ASSUME NEW w \in Worker, Superseded(w) \/ Finish(w)
        PROVE  OneEvaluation'
    <3>1. /\ pc' = [pc EXCEPT ![w] = "idle"]
          /\ \A v \in Worker \ {w} : result'[v] = result[v]
      BY <2>3 DEF Superseded, Finish, EndInvocation, TypeOK
    <3>2. /\ UNCHANGED <<row, commanded, raced, lostOff>>
          /\ pc[w] = "stored" => result[w].off = {}
      BY <2>3 DEF Superseded, Finish, rowVars
    <3> QED
      BY <3>1, <3>2, RestingStep
  <2>4. ASSUME NEW w \in Worker, SendNext(w) PROVE OneEvaluation'
    <3>1. /\ pc[w] = "evaluated" /\ pc'[w] = "sent"
          /\ \A v \in Worker \ {w} : pc'[v] = pc[v] /\ result'[v] = result[v]
      BY <2>4 DEF SendNext, TypeOK
    <3>2. /\ result'[w].state = result[w].state
          /\ result'[w].on = result[w].on /\ result'[w].off = result[w].off
      BY <2>4 DEF SendNext, TypeOK, Result
    <3>3. UNCHANGED <<row, commanded, raced, lostOff>>
      BY <2>4 DEF SendNext, rowVars, ghostVars
    <3> QED
      BY <3>1, <3>2, <3>3
         DEF OneEvaluation, Evaluating, DecisionFits, SwitchedOnIsKnown
  <2>5. ASSUME NEW w \in Worker, UpdateSchedule(w) PROVE OneEvaluation'
    BY <2>5, UpdateStep
  <2>6. ASSUME NEW w \in Worker, NEW p \in Property, Publish(w, p)
        PROVE  OneEvaluation'
    BY <2>6, PublishStep
  <2>7. ASSUME NEW w \in Worker, Fail(w) PROVE OneEvaluation'
    <3>1. /\ pc' = [pc EXCEPT ![w] = "idle"]
          /\ \A v \in Worker \ {w} : result'[v] = result[v]
      BY <2>7 DEF Fail, EndInvocation, TypeOK
    <3>2. /\ UNCHANGED <<row, commanded, raced>>
          /\ lostOff \subseteq lostOff'
          /\ pc[w] = "stored" => result[w].off \subseteq lostOff'
      BY <2>7 DEF Fail, rowVars
    <3> QED
      BY <3>1, <3>2, RestingStep
  <2>8. ASSUME NEW c \in Client,
               SetSchedule(c) \/ ClientStep(c) \/ FailRequest(c)
        PROVE  OneEvaluation'
    <3>1. row'.state = row.state
      BY <2>8, RequestKeepsStates DEF ClientStep
    <3>2. UNCHANGED <<pc, result, commanded, raced, lostOff>>
      BY <2>8 DEF SetSchedule, ClientStep, StoreEntries, SendEvaluate,
                  Respond, FailRequest, handlerVars, ghostVars
    <3> QED
      BY <3>1, <3>2, QuietStep
  <2>9. ASSUME NEW r \in Reset,
               ReadOnReset(r) \/ ResetStep(r) \/ FailReset(r)
        PROVE  OneEvaluation'
    <3>1. row'.state = row.state
      BY <2>9, ResetKeepsStates DEF ResetStep
    <3>2. UNCHANGED <<pc, result, commanded, raced, lostOff>>
      BY <2>9 DEF ReadOnReset, ResetStep, SendAbort, StoreAbort, FailReset,
                  handlerVars, ghostVars
    <3> QED
      BY <3>1, <3>2, QuietStep
  <2>10. CASE Tick \/ Horizon \/ UNCHANGED vars
    BY <2>10, QuietStep DEF Tick, Horizon, vars, handlerVars, rowVars, ghostVars
  <2> QED
    BY <2>1, <2>2, <2>3, <2>4, <2>5, <2>6, <2>7, <2>8, <2>9, <2>10
       DEF Next, Handler
<1> QED
  BY <1>1, <1>2, TypeCorrect, PTL DEF Spec

------------------------------------------------------------------------------
(* What follows from it.                                                    *)

\* A property last told to switch on is in the stored state, so it will be
\* switched off by some evaluation.
THEOREM TrackedCorrect == Spec => []Tracked
<1>1. OneEvaluation => Tracked
  BY DEF OneEvaluation, SwitchedOnIsKnown, Tracked, IsTracked
<1> QED
  BY <1>1, OneEvaluationCorrect, PTL

\* Every step until evaluations overlap is one of the lifecycle: only
\* UpdateSchedule writes the stored states, only Publish commands.
THEOREM LifecycleCorrect == Spec => FollowsLifecycle
<1> DEFINE States == <<row.state, commanded>>
<1>1. ASSUME TypeOK, OneEvaluation, [Next]_vars
      PROVE  [raced' \/ Lifecycle!Next]_States
  <2> SUFFICES ASSUME ~raced', ~UNCHANGED States PROVE Lifecycle!Next
    OBVIOUS
  <2>1. ASSUME NEW w \in Worker, UpdateSchedule(w) PROVE Lifecycle!Next
    <3>1. /\ pc[w] \in {"evaluated", "sent"}
          /\ row'.state = result[w].state
          /\ UNCHANGED <<commanded, raced>>
      BY <2>1 DEF UpdateSchedule, ghostVars
    <3>2. \A p \in Property :
            \/ PhaseOf(row'.state[p]) = PhaseOf(row.state[p])
            \/ <<PhaseOf(row.state[p]), PhaseOf(row'.state[p])>>
                 \in Lifecycle!Moves
      BY <1>1, <3>1 DEF OneEvaluation, DecisionFits
    <3>3. \A p \in Property : PhaseOf(row'.state[p]) \in Lifecycle!Phase
      BY DEF PhaseOf, Lifecycle!Phase
    <3> QED
      BY <3>1, <3>2, <3>3 DEF Lifecycle!Next, Lifecycle!Advance
  <2>2. ASSUME NEW w \in Worker, NEW p \in Property, Publish(w, p)
        PROVE  Lifecycle!Next
    <3>1. /\ pc[w] = "stored" /\ UNCHANGED <<row, raced>>
          /\ p \in result[w].on \cup result[w].off
          /\ commanded' = [commanded EXCEPT ![p] = p \in result[w].on]
      BY <2>2 DEF Publish, rowVars
    <3>2. DecisionFits(w, p)
      BY <1>1, <3>1 DEF OneEvaluation
    <3>3. CASE p \in result[w].on
      <4>1. PhaseOf(row.state[p]) = "opening"
        BY <3>1, <3>2, <3>3 DEF DecisionFits
      <4>2. commanded' = [commanded EXCEPT ![p] = TRUE]
        BY <3>1, <3>3
      <4> QED
        BY <3>1, <4>1, <4>2 DEF Lifecycle!Next, Lifecycle!CommandOn
    <3>4. CASE p \notin result[w].on
      <4>1. PhaseOf(row.state[p]) \in {"closing", "rest"}
        BY <3>1, <3>2, <3>4 DEF DecisionFits, PhaseOf
      <4>2. (p \in result[w].on) = FALSE
        BY <3>4
      <4>3. commanded' = [commanded EXCEPT ![p] = FALSE]
        BY <3>1, <4>2
      <4> QED
        BY <3>1, <4>1, <4>3 DEF Lifecycle!Next, Lifecycle!CommandOff
    <3> QED
      BY <3>3, <3>4
  <2>3. ASSUME NEW w \in Worker,
               \/ Receive(w) \/ Evaluate(w) \/ Superseded(w) \/ SendNext(w)
               \/ Finish(w) \/ Fail(w)
        PROVE  UNCHANGED States
    BY <2>3 DEF Receive, Evaluate, Superseded, SendNext, Finish, Fail,
                rowVars, ghostVars
  <2>4. ASSUME NEW c \in Client,
               SetSchedule(c) \/ ClientStep(c) \/ FailRequest(c)
        PROVE  UNCHANGED States
    BY <2>4, RequestKeepsStates DEF ClientStep
  <2>5. ASSUME NEW r \in Reset,
               ReadOnReset(r) \/ ResetStep(r) \/ FailReset(r)
        PROVE  UNCHANGED States
    BY <2>5, ResetKeepsStates DEF ResetStep
  <2>6. CASE Tick \/ Horizon \/ UNCHANGED vars
    BY <2>6 DEF Tick, Horizon, vars, rowVars, ghostVars
  <2> QED
    BY <1>1, <2>1, <2>2, <2>3, <2>4, <2>5, <2>6 DEF Next, Handler
<1> QED
  BY <1>1, TypeCorrect, OneEvaluationCorrect, PTL DEF Spec, FollowsLifecycle

------------------------------------------------------------------------------
(* The chain of evaluations.                                               *)
(*                                                                         *)
(* The argument follows the writers: whoever will store a message identity *)
(* in the row later.  Their identities are their own, their messages       *)
(* survive until they have stored (a message that comes too early is sent  *)
(* again, once, with a delay longer than any invocation runs), and the     *)
(* invocation that handles the message of the row either leaves a new one  *)
(* or nothing to do.                                                       *)

------------------------------------------------------------------------------
(* The inductive invariant.                                                 *)

\* All messages there are.
Messages == queue \cup UNION {batch[w] : w \in Worker}

Lost(id) == \E cause \in Causes : <<cause, id>> \in lost

\* The longest of the delays for pending changes, retries and redeliveries.
Soon == Larger(EvaluateDelay, Larger(RetryDelay, VisibilityTimeout))

\* Who will still write a message identity to the row: since when it runs,
\* whether the message is sent, whether that message is to be due soon.
WritingClients == {c \in Client : client[c].pc = "running" /\ ~client[c].stored}

WritingResets == {r \in Reset : reset[r].pc = "running"}

WritingWorkers == {w \in Worker : pc[w] = "sent"}

ClientWriter(c) ==
  [who |-> <<"client", c>>, id |-> client[c].id, start |-> client[c].start,
   sent |-> client[c].sent, soon |-> TRUE]

ResetWriter(r) ==
  [who |-> <<"reset", r>>, id |-> reset[r].id, start |-> reset[r].start,
   sent |-> reset[r].sent, soon |-> TRUE]

WorkerWriter(w) ==
  [who |-> <<"worker", w>>, id |-> result[w].id, start |-> start[w],
   sent |-> TRUE, soon |-> AnyPending(result[w].state)]

Writers ==
  {ClientWriter(c) : c \in WritingClients}
    \cup {ResetWriter(r) : r \in WritingResets}
    \cup {WorkerWriter(w) : w \in WritingWorkers}

\* No two writers bring the same identity, none brings the one the row has or
\* had, or the one of a message that is being evaluated.
OwnIds ==
  /\ \A x, y \in Writers : x.id = y.id => x.who = y.who
  /\ \A x \in Writers : x.id # row.messageId /\ x.id # prev.messageId
  /\ \A x \in Writers, w \in Evaluating : x.id # msg[w].id

\* A running setSchedule shares its identity with no writer but itself, whether
\* it has stored it or not.
OwnRequests ==
  \A x \in Writers, c \in Client :
    client[c].pc = "running" /\ client[c].id = x.id => x.who = <<"client", c>>

\* Nothing runs longer than LambdaTimeout, and what an invocation was given
\* was due when it began.
OnTime ==
  /\ \A w \in Worker :
       IF pc[w] = "idle" THEN batch[w] = {}
       ELSE /\ msg[w] \in batch[w]
            /\ start[w] <= now /\ now <= start[w] + LambdaTimeout
            /\ \A m \in batch[w] : m.due <= start[w]
  /\ \A x \in Writers : x.start <= now /\ now <= x.start + LambdaTimeout
  /\ \A m \in Messages : m.sent <= now

\* The message of a writer is young, and a retry of it is not due before the
\* writer has ended.
Waits(m, x) ==
  /\ x.start <= m.sent
  /\ m.retry => m.due > x.start + LambdaTimeout
  /\ x.soon => m.due <= now + Soon

WritersWait == \A x \in Writers, m \in Messages : m.id = x.id => Waits(m, x)

\* What a writer has sent is still there when it writes.
WritersHeard ==
  \A x \in Writers : x.sent => x.id \in Ids(Messages) \/ Lost(x.id)

\* While the previous row is readable, the messages of the present one are
\* young enough to be sent again, and none is a retry.
RetriesCatchUp ==
  prev.messageId # row.messageId =>
    \A m \in Messages :
      m.id = row.messageId =>
        now <= m.sent + LambdaTimeout /\ (m.retry => m.due > now)

\* The messages of a row with pending changes are due soon.
RowSoon ==
  AnyPending(row.state) =>
    \A m \in Messages : m.id = row.messageId => m.due <= now + Soon

Restored == <<"restored entries", row.messageId>> \in lost

\* A write that keeps the message of the row does not add to what is to do.
PrevCovers ==
  prev.messageId = row.messageId /\ ~Restored =>
    /\ row.entries \subseteq prev.entries
    /\ prev.abort => row.abort

\* An invocation that sends no message decided on rest, and leaves the row
\* that waits for the message it handled with nothing to do.
DecidesRest(w) ==
  /\ pc[w] = "evaluated" /\ result[w].next = {} =>
       /\ \A p \in Property : ~IsTracked(result[w].state[p])
       /\ row.messageId = msg[w].id /\ ~Restored =>
            \/ row.abort \/ result[w].aborting
            \/ \A e \in row.entries : e.end <= start[w]
  /\ pc[w] = "evaluated" /\ AnyPending(result[w].state) =>
       result[w].next = {EvaluateDelay}
  /\ pc[w] = "sent" => result[w].next # {}
  /\ pc[w] = "stored" /\ row.messageId = msg[w].id /\ ~Restored =>
       ~NeedsEvaluation

RestIsRest == \A w \in Worker : DecidesRest(w)

\* A request that has stored its identity and will send the message.
Sending(c) ==
  /\ client[c].pc = "running" /\ client[c].stored /\ ~client[c].sent
  /\ client[c].id = row.messageId

ChainKept ==
  NeedsEvaluation =>
    \/ row.messageId \in Ids(Messages)
    \/ \E c \in Client : Sending(c)
    \/ Lost(row.messageId)

\* The inductive invariant.
ChainInv ==
  /\ OwnIds
  /\ OwnRequests
  /\ OnTime
  /\ WritersWait
  /\ WritersHeard
  /\ RetriesCatchUp
  /\ RowSoon
  /\ PrevCovers
  /\ RestIsRest
  /\ ChainKept

------------------------------------------------------------------------------
(* Delays, messages and writers.                                            *)

\* How the delays compare.
LEMMA Delays ==
  /\ Soon \in Nat /\ RetryDelay \in Nat /\ LambdaTimeout \in Nat
  /\ EvaluateDelay \in Nat /\ VisibilityTimeout \in Nat /\ MinDelay \in Nat
  /\ EvaluateDelay <= Soon /\ RetryDelay <= Soon /\ VisibilityTimeout <= Soon
  /\ MinDelay <= Soon
  /\ LambdaTimeout < RetryDelay
BY EvaluationAssumption, ScheduleAssumption, RetryAssumption
   DEF Soon, Larger

\* The fields of a message that is sent now; it is due soon for each of the
\* delays the code uses, and after the time an invocation runs for a retry.
LEMMA SentFields ==
  ASSUME TypeOK, NEW id, NEW delay \in Nat, NEW retry \in BOOLEAN
  PROVE  /\ Sent(id, delay, retry).id = id
         /\ Sent(id, delay, retry).sent = now
         /\ Sent(id, delay, retry).retry = retry
         /\ delay <= Soon => Sent(id, delay, retry).due <= now + Soon
         /\ delay = RetryDelay =>
              Sent(id, delay, retry).due > now + LambdaTimeout
<1>1. /\ MinDelay \in Nat /\ MaxDelay \in Nat /\ now \in Nat
      /\ MinDelay <= RetryDelay /\ RetryDelay <= MaxDelay
  BY ScheduleAssumption, RetryAssumption DEF TypeOK
<1> QED
  BY <1>1, Delays DEF Sent, Larger, Smaller

\* The messages are messages, and are where they are.
LEMMA MessagesType ==
  ASSUME TypeOK
  PROVE  /\ Messages \subseteq Message
         /\ queue \subseteq Messages
         /\ \A w \in Worker : batch[w] \subseteq Messages
         /\ \A m \in Messages : m \in queue \/ \E w \in Worker : m \in batch[w]
BY DEF Messages, TypeOK

\* The same after a step.
LEMMA MessagesNext ==
  ASSUME TypeOK'
  PROVE  /\ Messages' \subseteq Message
         /\ queue' \subseteq Messages'
         /\ \A w \in Worker : batch'[w] \subseteq Messages'
         /\ \A m \in Messages' :
              m \in queue' \/ \E w \in Worker : m \in batch'[w]
BY DEF Messages, TypeOK

LEMMA MessageFields ==
  ASSUME NEW m \in Message
  PROVE  /\ m.id \in MessageId \cup {NoId} /\ m.due \in Nat /\ m.sent \in Nat
         /\ m.retry \in BOOLEAN /\ m.receives \in Nat
BY DEF Message

\* The fields of a writer.
LEMMA WriterFields ==
  ASSUME TypeOK, NEW x \in Writers
  PROVE  /\ x.start \in Nat /\ x.id \in MessageId \cup {NoId}
         /\ \/ \E c \in WritingClients : x = ClientWriter(c)
            \/ \E r \in WritingResets : x = ResetWriter(r)
            \/ \E w \in WritingWorkers : x = WorkerWriter(w)
BY DEF Writers, ClientWriter, ResetWriter, WorkerWriter, WritingClients,
       WritingResets, WritingWorkers, TypeOK, Request, Result

LEMMA LostGrows ==
  ASSUME lost \subseteq lost', NEW id, Lost(id)
  PROVE  Lost(id)'
BY DEF Lost

\* A fresh identity is on no message, in neither row and no other writer's.
LEMMA FreshId ==
  ASSUME TypeOK, OnTime, FreshIds # {}
  PROVE  /\ NewId \in MessageId
         /\ NewId # row.messageId /\ NewId # prev.messageId
         /\ \A m \in Messages : m.id # NewId
         /\ \A x \in Writers : x.id # NewId
         /\ \A w \in Evaluating : msg[w].id # NewId
         /\ \A c \in Client : client[c].id # NewId
<1>1. NewId \in FreshIds
  BY DEF NewId
<1>2. NewId \in MessageId /\ NewId \notin UsedIds
  BY <1>1 DEF FreshIds
<1>3. NewId # row.messageId /\ NewId # prev.messageId
  BY <1>2 DEF UsedIds
<1>4. \A m \in queue : m.id # NewId
  BY <1>2 DEF UsedIds, Ids
<1>5. \A w \in Worker : NewId \notin Ids(batch[w]) /\ NewId # result[w].id
  BY <1>2 DEF UsedIds
<1>6. \A w \in Worker : \A m \in batch[w] : m.id # NewId
  BY <1>5 DEF Ids
<1>7. \A m \in Messages : m.id # NewId
  BY <1>4, <1>6, MessagesType
<1>8. /\ \A c \in Client : client[c].id # NewId
      /\ \A r \in Reset : reset[r].id # NewId
  BY <1>2 DEF UsedIds
<1>9. \A x \in Writers : x.id # NewId
  BY <1>5, <1>8, WriterFields DEF ClientWriter, ResetWriter, WorkerWriter,
     WritingClients, WritingResets, WritingWorkers
<1>10. \A w \in Evaluating : msg[w] \in batch[w]
  BY DEF OnTime, Evaluating
<1> QED
  BY <1>2, <1>3, <1>6, <1>7, <1>8, <1>9, <1>10 DEF Evaluating

------------------------------------------------------------------------------
(* What steps of different kinds leave of the invariant.                     *)

\* Message m is k, or what a failed invocation or a mismatch makes of it.
Heir(m, k) ==
  /\ m.id = k.id /\ k.sent <= m.sent /\ m.sent <= now
  /\ m = k \/ m.due <= now + Soon
  /\ m.retry => \/ m = k
                \/ k.retry /\ k.due <= now
                \/ m.due > now + LambdaTimeout

\* Messages that are heirs of earlier ones keep what is said of messages.
LEMMA HeirsFit ==
  ASSUME TypeOK, TypeOK', OnTime, WritersWait, RetriesCatchUp, RowSoon,
         \A m \in Messages' : \E k \in Messages : Heir(m, k),
         Writers' \subseteq Writers, UNCHANGED <<now, row, prev>>
  PROVE  /\ WritersWait' /\ RetriesCatchUp' /\ RowSoon'
         /\ \A m \in Messages' : m.sent <= now'
<1>1. Messages \subseteq Message /\ Messages' \subseteq Message
  BY MessagesType, MessagesNext
<1>2. now \in Nat /\ now' = now /\ row' = row /\ prev' = prev
  BY DEF TypeOK
<1>3. \A m \in Messages' : m.sent <= now
  BY DEF Heir
<1>4. WritersWait'
  <2> SUFFICES ASSUME NEW x \in Writers', NEW m \in Messages', m.id = x.id
               PROVE  Waits(m, x)'
    BY DEF WritersWait
  <2>1. PICK k \in Messages : Heir(m, k)
    OBVIOUS
  <2>2. x \in Writers /\ k.id = x.id
    BY <2>1 DEF Heir
  <2>3. Waits(k, x)
    BY <2>2 DEF WritersWait
  <2>4. x.start \in Nat /\ x.start <= now /\ now <= x.start + LambdaTimeout
    BY <2>2, WriterFields DEF OnTime
  <2>5. /\ m.sent \in Nat /\ m.due \in Nat /\ m.retry \in BOOLEAN
        /\ k.sent \in Nat /\ k.due \in Nat /\ k.retry \in BOOLEAN
    BY <1>1, MessageFields
  <2> QED
    BY <1>2, <2>1, <2>3, <2>4, <2>5, Delays DEF Waits, Heir
<1>5. RetriesCatchUp'
  <2> SUFFICES ASSUME prev.messageId # row.messageId, NEW m \in Messages',
                      m.id = row.messageId
               PROVE  now <= m.sent + LambdaTimeout /\ (m.retry => m.due > now)
    BY <1>2 DEF RetriesCatchUp
  <2>1. PICK k \in Messages : Heir(m, k)
    OBVIOUS
  <2>2. now <= k.sent + LambdaTimeout /\ (k.retry => k.due > now)
    BY <2>1 DEF RetriesCatchUp, Heir
  <2>3. /\ m.sent \in Nat /\ m.due \in Nat /\ k.sent \in Nat /\ k.due \in Nat
    BY <1>1, MessageFields
  <2> QED
    BY <1>2, <2>1, <2>2, <2>3, Delays DEF Heir
<1>6. RowSoon'
  <2> SUFFICES ASSUME AnyPending(row.state), NEW m \in Messages',
                      m.id = row.messageId
               PROVE  m.due <= now + Soon
    BY <1>2 DEF RowSoon
  <2>1. PICK k \in Messages : Heir(m, k)
    OBVIOUS
  <2>2. k.due <= now + Soon
    BY <2>1 DEF RowSoon, Heir
  <2> QED
    BY <2>1, <2>2 DEF Heir
<1> QED
  BY <1>2, <1>3, <1>4, <1>5, <1>6

\* The writers are the same or fewer when no request or invocation becomes
\* one and those that are keep their fields.
LEMMA FewerWriters ==
  ASSUME WritingClients' \subseteq WritingClients,
         WritingResets' \subseteq WritingResets,
         WritingWorkers' \subseteq WritingWorkers,
         \A c \in WritingClients' : client'[c] = client[c],
         \A r \in WritingResets' : reset'[r] = reset[r],
         \A w \in WritingWorkers' : result'[w] = result[w] /\ start'[w] = start[w]
  PROVE  Writers' \subseteq Writers
<1>1. \A c \in WritingClients' : ClientWriter(c)' = ClientWriter(c)
  BY DEF ClientWriter
<1>2. \A r \in WritingResets' : ResetWriter(r)' = ResetWriter(r)
  BY DEF ResetWriter
<1>3. \A w \in WritingWorkers' : WorkerWriter(w)' = WorkerWriter(w)
  BY DEF WorkerWriter
<1> QED
  BY <1>1, <1>2, <1>3 DEF Writers

\* Nobody waits for message m: no writer brings its identity, and the row does
\* not need it.
Spent(m) ==
  /\ \A x \in Writers : x.id # m.id
  /\ row.messageId = m.id /\ NeedsEvaluation => Lost(m.id)

\* An invocation ends.  Its messages are queued again or lost, except one that
\* nobody waits for.
LEMMA EndStep ==
  ASSUME TypeOK, TypeOK', ChainInv, NEW w \in Worker,
         pc[w] # "idle", EndInvocation(w),
         UNCHANGED <<now, row, prev, client, reset>>,
         lost \subseteq lost', queue \subseteq queue',
         \A m \in queue' : m \in queue \/ \E k \in batch[w] : Heir(m, k),
         \A k \in batch[w] : \/ k.id \in Ids(queue)' \/ Lost(k.id)'
                             \/ Spent(k)
  PROVE  ChainInv'
<1> USE DEF ChainInv
<1>1. /\ pc' = [pc EXCEPT ![w] = "idle"] /\ pc'[w] = "idle" /\ batch'[w] = {}
      /\ \A v \in Worker \ {w} :
           /\ pc'[v] = pc[v] /\ batch'[v] = batch[v] /\ msg'[v] = msg[v]
           /\ start'[v] = start[v] /\ result'[v] = result[v]
  BY DEF EndInvocation, TypeOK
<1>2. Messages \subseteq Message /\ now \in Nat
  BY MessagesType, MessagesNext DEF TypeOK
<1>3. \A m \in Messages' : \E k \in Messages : Heir(m, k)
  <2> TAKE m \in Messages'
  <2>1. m \in Messages => Heir(m, m)
    BY <1>2, MessageFields, Delays DEF Heir, OnTime
  <2>2. CASE m \in queue'
    BY <2>1, <2>2, MessagesType, MessagesNext
  <2>3. CASE \E v \in Worker : m \in batch'[v]
    BY <1>1, <2>1, <2>3, MessagesType, MessagesNext
  <2> QED
    BY <2>2, <2>3, MessagesType, MessagesNext
<1>4. \A v \in Worker \ {w} : v \in Evaluating' => v \in Evaluating
  BY <1>1 DEF Evaluating
<1>5. Evaluating' \subseteq Evaluating \ {w}
  BY <1>1 DEF Evaluating
<1>6. Writers' \subseteq Writers
  <2>1. WritingWorkers' \subseteq WritingWorkers \ {w}
    BY <1>1 DEF WritingWorkers
  <2> QED
    BY <1>1, <2>1, FewerWriters DEF WritingClients, WritingResets, WritingWorkers
<1>7. /\ WritersWait' /\ RetriesCatchUp' /\ RowSoon'
      /\ \A m \in Messages' : m.sent <= now'
  BY <1>3, <1>6, HeirsFit
<1>8. OwnIds' /\ OwnRequests'
  BY <1>1, <1>5, <1>6 DEF OwnIds, OwnRequests, Evaluating
<1>9. OnTime'
  <2>1. ASSUME NEW v \in Worker
        PROVE  (IF pc[v] = "idle" THEN batch[v] = {}
                ELSE /\ msg[v] \in batch[v]
                     /\ start[v] <= now /\ now <= start[v] + LambdaTimeout
                     /\ \A m \in batch[v] : m.due <= start[v])'
    BY <1>1 DEF OnTime
  <2>2. \A x \in Writers' : x.start <= now' /\ now' <= x.start + LambdaTimeout
    BY <1>6 DEF OnTime
  <2> QED
    BY <1>7, <2>1, <2>2 DEF OnTime
<1>10. ASSUME NEW m \in Messages
       PROVE  m.id \in Ids(Messages)' \/ Lost(m.id)' \/ Spent(m)
  <2>1. CASE m \in queue
    <3>1. m \in Messages'
      BY <2>1, MessagesType, MessagesNext
    <3> QED
      BY <3>1 DEF Ids
  <2>2. CASE m \in batch[w]
    <3>1. Ids(queue)' \subseteq Ids(Messages)'
      BY MessagesType, MessagesNext DEF Ids
    <3> QED
      BY <2>2, <3>1
  <2>3. ASSUME NEW v \in Worker \ {w}, m \in batch[v]
        PROVE  m.id \in Ids(Messages)'
    <3>1. m \in Messages'
      BY <1>1, <2>3, MessagesType, MessagesNext
    <3> QED
      BY <3>1 DEF Ids
  <2> QED
    BY <2>1, <2>2, <2>3, MessagesType, MessagesNext
<1>11. WritersHeard'
  <2> SUFFICES ASSUME NEW x \in Writers, x.sent
               PROVE  x.id \in Ids(Messages)' \/ Lost(x.id)'
    BY <1>6 DEF WritersHeard
  <2>1. CASE Lost(x.id)
    BY <2>1, LostGrows
  <2>2. CASE x.id \in Ids(Messages)
    <3>1. PICK m \in Messages : m.id = x.id
      BY <2>2 DEF Ids
    <3> QED
      BY <1>10, <3>1 DEF Spent
  <2> QED
    BY <2>1, <2>2 DEF WritersHeard
<1>12. ~Restored' => ~Restored
  BY DEF Restored
<1>13. PrevCovers'
  BY <1>12 DEF PrevCovers
<1>14. NeedsEvaluation' <=> NeedsEvaluation
  BY DEF NeedsEvaluation
<1>15. RestIsRest'
  <2> SUFFICES ASSUME NEW v \in Worker PROVE DecidesRest(v)'
    BY DEF RestIsRest
  <2>1. CASE v = w
    BY <1>1, <2>1 DEF DecidesRest
  <2>2. CASE v # w
    BY <1>1, <1>12, <1>14, <2>2 DEF DecidesRest, RestIsRest
  <2> QED
    BY <2>1, <2>2
<1>16. ChainKept'
  <2> SUFFICES ASSUME NeedsEvaluation
               PROVE  \/ row.messageId \in Ids(Messages)'
                      \/ \E c \in Client : Sending(c)'
                      \/ Lost(row.messageId)'
    BY <1>14 DEF ChainKept
  <2>1. CASE row.messageId \in Ids(Messages)
    <3>1. PICK m \in Messages : m.id = row.messageId
      BY <2>1 DEF Ids
    <3> QED
      BY <1>10, <3>1, LostGrows DEF Spent
  <2>2. CASE \E c \in Client : Sending(c)
    BY <2>2 DEF Sending
  <2>3. CASE Lost(row.messageId)
    BY <2>3, LostGrows
  <2> QED
    BY <2>1, <2>2, <2>3 DEF ChainKept
<1> QED
  BY <1>7, <1>8, <1>9, <1>11, <1>13, <1>15, <1>16

------------------------------------------------------------------------------
(* The steps of an invocation.                                              *)

\* The message that an evaluating invocation handles is no writer's, and the
\* row needs it only until the decision is stored.
LEMMA HandledSpent ==
  ASSUME ChainInv, NEW w \in Worker, pc[w] = "stored"
  PROVE  Spent(msg[w])
<1>1. w \in Evaluating
  BY DEF Evaluating
<1>2. \A x \in Writers : x.id # msg[w].id
  BY <1>1 DEF ChainInv, OwnIds
<1>3. row.messageId = msg[w].id /\ NeedsEvaluation => Lost(msg[w].id)
  BY DEF ChainInv, RestIsRest, DecidesRest, Restored, Lost, Causes
<1> QED
  BY <1>2, <1>3 DEF Spent

\* The messages a successful invocation never looked at are lost.
LEMMA UnhandledLost ==
  ASSUME NEW w \in Worker, Unhandled(w) \subseteq lost'
  PROVE  \A k \in batch[w] : k = msg[w] \/ Lost(k.id)'
<1> TAKE k \in batch[w]
<1>1. k # msg[w] => <<"rest of batch", k.id>> \in lost'
  BY DEF Unhandled
<1>2. "rest of batch" \in Causes
  BY DEF Causes
<1> QED
  BY <1>1, <1>2 DEF Lost

\* The messages of a failed invocation are queued again or dead-lettered.
LEMMA ReturnBatchHeirs ==
  ASSUME TypeOK, ChainInv, NEW w \in Worker, pc[w] # "idle", ReturnBatch(w)
  PROVE  /\ lost \subseteq lost' /\ queue \subseteq queue'
         /\ \A m \in queue' : m \in queue \/ \E k \in batch[w] : Heir(m, k)
         /\ \A k \in batch[w] : k.id \in Ids(queue)' \/ Lost(k.id)'
<1> DEFINE again == {m \in batch[w] : m.receives + 1 < MaxReceiveCount}
           due   == start[w] + VisibilityTimeout
<1>1. /\ queue' = queue \cup {Redelivery(m, due) : m \in again}
      /\ lost' = lost \cup {<<"dead letter", m.id>> : m \in batch[w] \ again}
  BY DEF ReturnBatch
<1>2. /\ start[w] \in Nat /\ now \in Nat /\ start[w] <= now
      /\ \A m \in batch[w] : m \in Message /\ m.due <= start[w] /\ m.sent <= now
  BY MessagesType DEF TypeOK, ChainInv, OnTime
<1>3. due <= now + Soon
  BY <1>2, Delays
<1> HIDE DEF due
<1>4. ASSUME NEW k \in again PROVE Heir(Redelivery(k, due), k)
  <2>1. /\ k \in batch[w] /\ k.due \in Nat /\ k.sent \in Nat
        /\ k.retry \in BOOLEAN
    BY <1>2, <1>4, MessageFields
  <2> QED
    BY <1>2, <1>3, <2>1 DEF Heir, Redelivery
<1>5. ASSUME NEW k \in again PROVE k.id \in Ids(queue)'
  <2>1. Redelivery(k, due) \in queue'
    BY <1>1
  <2>2. Redelivery(k, due).id = k.id
    BY DEF Redelivery
  <2> QED
    BY <2>1, <2>2 DEF Ids
<1>6. ASSUME NEW k \in batch[w] \ again PROVE Lost(k.id)'
  <2>1. <<"dead letter", k.id>> \in lost' /\ "dead letter" \in Causes
    BY <1>1, <1>6 DEF Causes
  <2> QED
    BY <2>1 DEF Lost
<1>7. \A m \in queue' : m \in queue \/ \E k \in batch[w] : Heir(m, k)
  BY <1>1, <1>4
<1> QED
  BY <1>1, <1>5, <1>6, <1>7

LEMMA FinishChain ==
  ASSUME TypeOK, TypeOK', ChainInv, NEW w \in Worker, Finish(w)
  PROVE  ChainInv'
<1>1. /\ pc[w] # "idle" /\ EndInvocation(w) /\ lost' = lost \cup Unhandled(w)
      /\ UNCHANGED <<now, row, prev, queue, client, reset>>
  BY DEF Finish, rowVars
<1>2. \A k \in batch[w] : Lost(k.id)' \/ Spent(k)
  BY <1>1, UnhandledLost, HandledSpent DEF Finish
<1> QED
  BY <1>1, <1>2, EndStep

LEMMA FailChain ==
  ASSUME TypeOK, TypeOK', ChainInv, NEW w \in Worker, Fail(w)
  PROVE  ChainInv'
<1>1. /\ pc[w] # "idle" /\ EndInvocation(w) /\ ReturnBatch(w)
      /\ UNCHANGED <<now, row, prev, client, reset>>
  BY DEF Fail, rowVars
<1> QED
  BY <1>1, ReturnBatchHeirs, EndStep

\* A message the row seems not to wait for is sent again when a writer may
\* still come, or the row may have been read too early.
LEMMA SupersededChain ==
  ASSUME TypeOK, TypeOK', ChainInv, NEW w \in Worker, Superseded(w)
  PROVE  ChainInv'
<1>1. /\ pc[w] # "idle" /\ EndInvocation(w)
      /\ UNCHANGED <<now, row, prev, client, reset>>
  BY DEF Superseded, rowVars
<1>0. row.messageId # msg[w].id \/ prev.messageId # msg[w].id
  BY DEF Superseded
<1>2. PICK m \in batch[w] : m = msg[w]
  BY <1>1 DEF ChainInv, OnTime
<1> DEFINE again == Sent(m.id, RetryDelay, TRUE)
           young == ~m.retry /\ start[w] - m.sent < RetryDelay
<1>3. \/ /\ young
         /\ \/ queue' = queue \cup {again} /\ lost' = lost \cup Unhandled(w)
            \/ /\ queue' = queue
               /\ lost' = lost \cup Unhandled(w)
                            \cup {<<"unawaited send", m.id>>}
      \/ ~young /\ lost' = lost \cup Unhandled(w) /\ queue' = queue
  BY <1>2 DEF Superseded
<1>4. /\ m \in Messages
      /\ start[w] \in Nat /\ now \in Nat /\ start[w] <= now
      /\ m.due <= start[w] /\ m.sent <= now
      /\ m.due \in Nat /\ m.sent \in Nat /\ m.retry \in BOOLEAN
  BY <1>1, MessagesType, MessageFields DEF TypeOK, ChainInv, OnTime
<1>5. Heir(again, m)
  <2>1. /\ again.id = m.id /\ again.sent = now
        /\ again.due <= now + Soon /\ again.due > now + LambdaTimeout
    <3>1. RetryDelay \in Nat /\ RetryDelay <= Soon
      BY Delays
    <3> QED
      BY <3>1, SentFields
  <2> HIDE DEF again
  <2> QED
    BY <1>4, <2>1 DEF Heir
<1>6. ASSUME ~young PROVE Spent(m)
  <2>1. ASSUME NEW x \in Writers PROVE x.id # m.id
    <3> SUFFICES ASSUME x.id = m.id PROVE FALSE
      OBVIOUS
    <3>1. Waits(m, x) /\ now <= x.start + LambdaTimeout /\ x.start \in Nat
      BY <1>4, WriterFields DEF ChainInv, WritersWait, OnTime
    <3> QED
      BY <1>4, <1>6, <3>1, Delays DEF Waits
  <2>2. row.messageId # m.id
    <3> SUFFICES ASSUME row.messageId = m.id PROVE FALSE
      OBVIOUS
    <3>1. now <= m.sent + LambdaTimeout /\ (m.retry => m.due > now)
      BY <1>0, <1>2, <1>4 DEF ChainInv, RetriesCatchUp
    <3> QED
      BY <1>4, <1>6, <3>1, Delays
  <2> QED
    BY <2>1, <2>2 DEF Spent
<1>7. again.id = m.id
  BY DEF Sent
<1> HIDE DEF again, young
<1>8. lost \subseteq lost' /\ queue \subseteq queue' /\ Unhandled(w) \subseteq lost'
  BY <1>3
<1>9. \A k \in queue' : k \in queue \/ Heir(k, m)
  BY <1>3, <1>5
<1>10. m.id \in Ids(queue)' \/ Lost(m.id)' \/ Spent(m)
  <2>1. CASE queue' = queue \cup {again}
    BY <1>7, <2>1 DEF Ids
  <2>2. CASE <<"unawaited send", m.id>> \in lost'
    BY <2>2 DEF Lost, Causes
  <2> QED
    BY <1>3, <1>6, <2>1, <2>2
<1>11. \A k \in batch[w] : k.id \in Ids(queue)' \/ Lost(k.id)' \/ Spent(k)
  BY <1>2, <1>8, <1>10, UnhandledLost
<1> QED
  BY <1>1, <1>2, <1>8, <1>9, <1>11, EndStep

\* Steps that leave all messages where some invocation or request can find
\* them, and make nobody a writer.
LEMMA MessagesStay ==
  ASSUME TypeOK, TypeOK', ChainInv, Messages' = Messages,
         Writers' \subseteq Writers, UNCHANGED <<now, row, prev>>,
         lost \subseteq lost',
         \A c \in Client : client'[c].pc = "running" =>
           client[c].pc = "running" /\ client'[c].id = client[c].id
  PROVE  /\ WritersWait' /\ RetriesCatchUp' /\ RowSoon' /\ WritersHeard'
         /\ PrevCovers' /\ OwnRequests'
         /\ \A m \in Messages' : m.sent <= now'
         /\ \A x \in Writers' : x.start <= now' /\ now' <= x.start + LambdaTimeout
         /\ \A x \in Writers', y \in Writers' : x.id = y.id => x.who = y.who
         /\ \A x \in Writers' : x.id # row'.messageId /\ x.id # prev'.messageId
         /\ ~Restored' => ~Restored
<1>1. \A m \in Messages : Heir(m, m)
  BY MessagesType, MessageFields, Delays DEF ChainInv, OnTime, Heir, TypeOK
<1>2. /\ WritersWait' /\ RetriesCatchUp' /\ RowSoon'
      /\ \A m \in Messages' : m.sent <= now'
  BY <1>1, HeirsFit DEF ChainInv
<1>3. WritersHeard'
  BY LostGrows DEF ChainInv, WritersHeard, Ids
<1>4. ~Restored' => ~Restored
  BY DEF Restored
<1>5. PrevCovers'
  BY <1>4 DEF ChainInv, PrevCovers
<1>6. OwnRequests'
  BY DEF ChainInv, OwnRequests
<1> QED
  BY <1>2, <1>3, <1>4, <1>5, <1>6 DEF ChainInv, OwnIds, OnTime

\* Every nonempty set of naturals has a least element.
LEMMA LeastNatural ==
  ASSUME NEW T \in SUBSET Nat, T # {}
  PROVE  \E x \in T : \A y \in T : x <= y
<1> DEFINE R == OpToRel(<, Nat)
<1>1. IsWellFoundedOn(R, Nat)
  BY NatLessThanWellFounded
<1>2. \A x, y \in Nat : y < x => <<y, x>> \in R
  BY DEF OpToRel
<1> HIDE DEF R
<1>3. \E x \in T : \A y \in T : ~(<<y, x>> \in R)
  BY <1>1, WFMin
<1>4. PICK x \in T : \A y \in T : ~(<<y, x>> \in R)
  BY <1>3
<1>5. x \in Nat /\ \A y \in T : y \in Nat /\ ~(y < x)
  BY <1>2, <1>4
<1> QED
  BY <1>5

\* An evaluation that asks for no other leaves nothing to do, and one that
\* leaves a change pending asks for the next soon.
LEMMA DecisionRests ==
  ASSUME NEW read \in Row, NEW rep \in [Property -> Reading], NEW t \in Nat
  PROVE  LET decided == Decide(read, rep, t).result
         IN  /\ decided.next = {} =>
                  /\ \A p \in Property : ~IsTracked(decided.state[p])
                  /\ \/ read.abort \/ decided.aborting
                     \/ \A e \in read.entries : e.end <= t
             /\ AnyPending(decided.state) => decided.next = {EvaluateDelay}
             /\ decided.id = NoId
<1> DEFINE acting   == Acting(read, rep, t)
           states   == NewStates(acting, rep, t)
           upcoming == Upcoming(acting, t)
           decided  == Decide(read, rep, t).result
<1>1. acting \in Row /\ acting.entries = read.entries
      /\ acting.abort = (read.abort \/ decided.aborting)
  BY ActingType DEF Acting, Decide, Row
<1>2. /\ decided.state = states
      /\ decided.next = NextEvaluation(acting, states, t)
      /\ decided.id = NoId
  BY DEF Decide, Acting
<1>3. ~Throws(acting, states, t)
  BY <1>1, EvaluationNeverThrows
<1> HIDE DEF acting, states, decided
<1>4. AnyPending(states) => decided.next = {EvaluateDelay}
  BY <1>2 DEF NextEvaluation
<1>5. ASSUME decided.next = {} PROVE ~AnyPending(states) /\ upcoming = {}
  <2>1. ~AnyPending(states)
    BY <1>4, <1>5
  <2>2. First(upcoming) = {}
    BY <1>2, <1>5, <2>1 DEF NextEvaluation
  <2>3. upcoming \in SUBSET Nat
    BY <1>1 DEF Upcoming, Row, Entry
  <2>4. upcoming = {}
    <3> HIDE DEF upcoming
    <3> QED
      BY <2>2, <2>3, LeastNatural DEF First
  <2> QED
    BY <2>1, <2>4
<1>6. ASSUME decided.next = {} PROVE \A p \in Property : ~IsTracked(states[p])
  BY <1>3, <1>5, <1>6 DEF Throws
<1>7. ASSUME decided.next = {}, ~acting.abort, NEW e \in read.entries
      PROVE  e.end <= t
  <2>1. e.end \notin upcoming
    BY <1>5, <1>7
  <2>2. ~(e.end > t)
    BY <1>1, <1>7, <2>1 DEF Upcoming
  <2>3. e.end \in Nat
    BY DEF Row, Entry
  <2> QED
    BY <2>2, <2>3
<1> QED
  BY <1>1, <1>2, <1>4, <1>6, <1>7 DEF decided

LEMMA EvaluateChain ==
  ASSUME TypeOK, TypeOK', ChainInv, NEW w \in Worker, Evaluate(w)
  PROVE  ChainInv'
<1>1. /\ pc[w] = "received" /\ UNCHANGED <<now, row, prev, client, reset>>
  BY DEF Evaluate, rowVars
<1>2. PICK read \in {row, prev}, rep \in [Property -> Reading] :
        /\ read.messageId = msg[w].id
        /\ LET decision == Decide(read, rep, start[w])
           IN  IF decision.tooMany
               THEN /\ EndInvocation(w)
                    /\ lost' = lost \cup Unhandled(w)
                         \cup {<<"second abort", msg[w].id>>}
                    /\ UNCHANGED <<queue, raced>>
               ELSE IF decision.throws
               THEN /\ EndInvocation(w)
                    /\ ReturnBatch(w)
                    /\ UNCHANGED raced
               ELSE /\ pc' = [pc EXCEPT ![w] = "evaluated"]
                    /\ result' = [result EXCEPT ![w] = decision.result]
                    /\ raced' = (raced \/ read # row \/ Evaluating # {})
                    /\ UNCHANGED <<queue, batch, msg, start, lost>>
  BY DEF Evaluate
<1> DEFINE decision == Decide(read, rep, start[w])
<1>3. read \in Row /\ start[w] \in Nat
  BY DEF TypeOK
<1>4. PICK m \in batch[w] : m = msg[w]
  BY <1>1 DEF ChainInv, OnTime
<1>5. CASE decision.tooMany
  <2>1. /\ EndInvocation(w) /\ UNCHANGED queue
        /\ lost' = lost \cup Unhandled(w) \cup {<<"second abort", m.id>>}
    BY <1>2, <1>4, <1>5
  <2>2. Lost(m.id)'
    BY <2>1 DEF Lost, Causes
  <2>3. \A k \in batch[w] : Lost(k.id)'
    BY <1>4, <2>1, <2>2, UnhandledLost
  <2> QED
    BY <1>1, <2>1, <2>3, EndStep
<1>6. CASE ~decision.tooMany /\ decision.throws
  <2>1. EndInvocation(w) /\ ReturnBatch(w)
    BY <1>2, <1>6
  <2> QED
    BY <1>1, <2>1, ReturnBatchHeirs, EndStep
<1>7. CASE ~decision.tooMany /\ ~decision.throws
  <2> DEFINE decided == decision.result
  <2>1. /\ pc' = [pc EXCEPT ![w] = "evaluated"]
        /\ result' = [result EXCEPT ![w] = decided]
        /\ UNCHANGED <<queue, batch, msg, start, lost>>
    BY <1>2, <1>7
  <2>2. /\ decided.next = {} =>
             /\ \A p \in Property : ~IsTracked(decided.state[p])
             /\ \/ read.abort \/ decided.aborting
                \/ \A e \in read.entries : e.end <= start[w]
        /\ AnyPending(decided.state) => decided.next = {EvaluateDelay}
    BY <1>3, DecisionRests
  <2> HIDE DEF decided, decision
  <2>3. /\ pc'[w] = "evaluated" /\ result'[w] = decided
        /\ \A v \in Worker \ {w} : pc'[v] = pc[v] /\ result'[v] = result[v]
    BY <2>1 DEF TypeOK
  <2>4. Evaluating' \subseteq Evaluating \cup {w}
    BY <2>3 DEF Evaluating
  <2>5. Writers' \subseteq Writers
    <3>1. WritingWorkers' \subseteq WritingWorkers \ {w}
      BY <2>3 DEF WritingWorkers
    <3> QED
      BY <1>1, <2>1, <2>3, <3>1, FewerWriters
         DEF WritingClients, WritingResets, WritingWorkers
  <2>6. Messages' = Messages
    BY <2>1 DEF Messages
  <2>7. /\ WritersWait' /\ RetriesCatchUp' /\ RowSoon' /\ WritersHeard'
        /\ PrevCovers' /\ OwnRequests'
        /\ \A k \in Messages' : k.sent <= now'
        /\ \A x \in Writers' : x.start <= now' /\ now' <= x.start + LambdaTimeout
        /\ \A x \in Writers', y \in Writers' : x.id = y.id => x.who = y.who
        /\ \A x \in Writers' : x.id # row'.messageId /\ x.id # prev'.messageId
    BY <1>1, <2>1, <2>5, <2>6, MessagesStay
  <2>8. OwnIds'
    <3>1. \A x \in Writers : x.id # msg[w].id
      BY <1>2 DEF ChainInv, OwnIds
    <3> QED
      BY <2>1, <2>4, <2>5, <2>7, <3>1 DEF ChainInv, OwnIds
  <2>9. OnTime'
    BY <1>1, <2>1, <2>3, <2>7 DEF ChainInv, OnTime
  <2>10. RestIsRest'
    <3> SUFFICES ASSUME NEW v \in Worker PROVE DecidesRest(v)'
      BY DEF RestIsRest
    <3>1. NeedsEvaluation' <=> NeedsEvaluation
      BY <1>1 DEF NeedsEvaluation
    <3>2. CASE v # w
      BY <1>1, <2>1, <2>3, <3>1, <3>2
         DEF ChainInv, RestIsRest, DecidesRest, Restored
    <3>3. CASE v = w
      <4>1. row.messageId = msg[w].id /\ ~Restored =>
              row.entries \subseteq read.entries /\ (read.abort => row.abort)
        BY <1>2 DEF ChainInv, PrevCovers
      <4> QED
        BY <1>1, <2>1, <2>2, <2>3, <3>3, <4>1 DEF DecidesRest, Restored
    <3> QED
      BY <3>2, <3>3
  <2>11. ChainKept'
    BY <1>1, <2>1, <2>6 DEF ChainInv, ChainKept, NeedsEvaluation, Ids, Sending,
                            Lost
  <2> QED
    BY <2>7, <2>8, <2>9, <2>10, <2>11 DEF ChainInv
<1> QED
  BY <1>5, <1>6, <1>7

LEMMA ReceiveChain ==
  ASSUME TypeOK, TypeOK', ChainInv, NEW w \in Worker, Receive(w)
  PROVE  ChainInv'
<1>1. /\ pc[w] = "idle" /\ pc' = [pc EXCEPT ![w] = "received"]
      /\ start' = [start EXCEPT ![w] = now]
      /\ UNCHANGED <<now, row, prev, result, client, reset, lost>>
  BY DEF Receive, rowVars, ghostVars
<1>2. PICK records \in SUBSET Visible :
        /\ \E first \in records : msg' = [msg EXCEPT ![w] = first]
        /\ batch' = [batch EXCEPT ![w] = records]
        /\ queue' = queue \ records
  BY DEF Receive
<1>3. /\ pc'[w] = "received" /\ start'[w] = now /\ batch'[w] = records
      /\ msg'[w] \in records /\ now \in Nat
      /\ \A v \in Worker \ {w} :
           /\ pc'[v] = pc[v] /\ batch'[v] = batch[v] /\ msg'[v] = msg[v]
           /\ start'[v] = start[v]
  BY <1>1, <1>2 DEF TypeOK
<1>4. records \subseteq queue /\ \A m \in records : m.due <= now
  BY DEF Visible
<1>5. Messages' = Messages
  <2>1. batch[w] = {}
    BY <1>1 DEF ChainInv, OnTime
  <2>2. ASSUME NEW m \in Messages PROVE m \in Messages'
    <3>1. CASE m \in records
      BY <1>3, <3>1, MessagesNext
    <3>2. CASE m \in queue \ records
      BY <1>2, <3>2, MessagesNext
    <3>3. ASSUME NEW v \in Worker, m \in batch[v] PROVE m \in Messages'
      BY <1>3, <2>1, <3>3, MessagesNext
    <3> QED
      BY <3>1, <3>2, <3>3, MessagesType
  <2>3. ASSUME NEW m \in Messages' PROVE m \in Messages
    <3>1. CASE m \in queue'
      BY <1>2, <3>1, MessagesType
    <3>2. ASSUME NEW v \in Worker, m \in batch'[v] PROVE m \in Messages
      BY <1>3, <1>4, <3>2, MessagesType
    <3> QED
      BY <3>1, <3>2, MessagesNext
  <2> QED
    BY <2>2, <2>3
<1>6. Evaluating' = Evaluating /\ w \notin Evaluating
  BY <1>1, <1>3 DEF Evaluating
<1>7. Writers' \subseteq Writers
  <2>1. WritingWorkers' \subseteq WritingWorkers \ {w}
    BY <1>3 DEF WritingWorkers
  <2> QED
    BY <1>1, <1>3, <2>1, FewerWriters
       DEF WritingClients, WritingResets, WritingWorkers
<1>8. /\ WritersWait' /\ RetriesCatchUp' /\ RowSoon' /\ WritersHeard'
      /\ PrevCovers' /\ OwnRequests'
      /\ \A k \in Messages' : k.sent <= now'
      /\ \A x \in Writers' : x.start <= now' /\ now' <= x.start + LambdaTimeout
      /\ \A x \in Writers', y \in Writers' : x.id = y.id => x.who = y.who
      /\ \A x \in Writers' : x.id # row'.messageId /\ x.id # prev'.messageId
  BY <1>1, <1>5, <1>7, MessagesStay
<1>9. OwnIds'
  BY <1>3, <1>6, <1>7, <1>8 DEF ChainInv, OwnIds, Evaluating
<1>10. OnTime'
  BY <1>1, <1>3, <1>4, <1>8, Delays DEF ChainInv, OnTime
<1>11. RestIsRest'
  BY <1>1, <1>3 DEF ChainInv, RestIsRest, DecidesRest, Restored, NeedsEvaluation
<1>12. ChainKept'
  BY <1>1, <1>5 DEF ChainInv, ChainKept, NeedsEvaluation, Ids, Sending, Lost
<1> QED
  BY <1>8, <1>9, <1>10, <1>11, <1>12 DEF ChainInv

LEMMA PublishChain ==
  ASSUME TypeOK, TypeOK', ChainInv, NEW w \in Worker, NEW p \in Property,
         Publish(w, p)
  PROVE  ChainInv'
<1>1. /\ pc[w] = "stored"
      /\ result' = [result EXCEPT ![w] = WithoutCommand(@, p)]
      /\ UNCHANGED <<now, row, prev, queue, pc, batch, msg, start, client,
                     reset, lost>>
  BY DEF Publish, rowVars
<1>2. \A v \in Worker \ {w} : result'[v] = result[v]
  BY <1>1 DEF TypeOK
<1>3. Messages' = Messages
  BY <1>1 DEF Messages
<1>4. Writers' \subseteq Writers
  BY <1>1, <1>2, FewerWriters DEF WritingClients, WritingResets, WritingWorkers
<1>5. /\ WritersWait' /\ RetriesCatchUp' /\ RowSoon' /\ WritersHeard'
      /\ PrevCovers' /\ OwnRequests'
      /\ \A k \in Messages' : k.sent <= now'
      /\ \A x \in Writers' : x.start <= now' /\ now' <= x.start + LambdaTimeout
      /\ \A x \in Writers', y \in Writers' : x.id = y.id => x.who = y.who
      /\ \A x \in Writers' : x.id # row'.messageId /\ x.id # prev'.messageId
  BY <1>1, <1>3, <1>4, MessagesStay
<1>6. OwnIds' /\ OnTime'
  BY <1>1, <1>4, <1>5 DEF ChainInv, OwnIds, OnTime, Evaluating
<1>7. RestIsRest'
  BY <1>1, <1>2 DEF ChainInv, RestIsRest, DecidesRest, Restored, NeedsEvaluation
<1>8. ChainKept'
  BY <1>1, <1>3 DEF ChainInv, ChainKept, NeedsEvaluation, Ids, Sending, Lost
<1> QED
  BY <1>5, <1>6, <1>7, <1>8 DEF ChainInv

------------------------------------------------------------------------------
(* Steps that add a writer or a message, and writes to the row.             *)

\* A request ends, or an abort finds nothing to do.
LEMMA LeaveStep ==
  ASSUME TypeOK, TypeOK', ChainInv, Writers' \subseteq Writers,
         UNCHANGED <<now, row, prev, queue, pc, batch, msg, start, result>>,
         lost \subseteq lost',
         \A c \in Client : client'[c].pc = "running" =>
           client[c].pc = "running" /\ client'[c].id = client[c].id,
         \A c \in Client : Sending(c) => Sending(c)' \/ Lost(row.messageId)'
  PROVE  ChainInv'
<1>1. Messages' = Messages
  BY DEF Messages
<1>2. /\ WritersWait' /\ RetriesCatchUp' /\ RowSoon' /\ WritersHeard'
      /\ PrevCovers' /\ OwnRequests'
      /\ \A k \in Messages' : k.sent <= now'
      /\ \A x \in Writers' : x.start <= now' /\ now' <= x.start + LambdaTimeout
      /\ \A x \in Writers', y \in Writers' : x.id = y.id => x.who = y.who
      /\ \A x \in Writers' : x.id # row'.messageId /\ x.id # prev'.messageId
      /\ ~Restored' => ~Restored
  BY <1>1, MessagesStay
<1>3. OwnIds' /\ OnTime'
  BY <1>2 DEF ChainInv, OwnIds, OnTime, Evaluating
<1>4. RestIsRest'
  BY <1>2 DEF ChainInv, RestIsRest, DecidesRest, NeedsEvaluation
<1>5. ChainKept'
  BY <1>1, LostGrows DEF ChainInv, ChainKept, NeedsEvaluation, Ids
<1> QED
  BY <1>2, <1>3, <1>4, <1>5 DEF ChainInv

\* A request that will write begins, with an identity of its own.
LEMMA JoinStep ==
  ASSUME TypeOK, TypeOK', ChainInv, FreshIds # {}, NEW new,
         new.id = NewId, new.start = now, ~new.sent,
         Writers' \subseteq Writers \cup {new},
         UNCHANGED <<now, row, prev, queue, pc, batch, msg, start, result, lost>>,
         \A c \in Client : client'[c].pc = "running" =>
           \/ client[c].pc = "running" /\ client'[c].id = client[c].id
           \/ client'[c].id = NewId /\ new.who = <<"client", c>>,
         \A c \in Client : Sending(c) => Sending(c)'
  PROVE  ChainInv'
<1>1. Messages' = Messages /\ Evaluating' = Evaluating
  BY DEF Messages, Evaluating
<1>2. /\ NewId # row.messageId /\ NewId # prev.messageId
      /\ \A m \in Messages : m.id # NewId
      /\ \A x \in Writers : x.id # NewId
      /\ \A w \in Evaluating : msg[w].id # NewId
      /\ \A c \in Client : client[c].id # NewId
  BY FreshId DEF ChainInv
<1>3. now \in Nat
  BY DEF TypeOK
<1>4. OwnIds'
  BY <1>1, <1>2 DEF ChainInv, OwnIds
<1>5. OwnRequests'
  BY <1>2 DEF ChainInv, OwnRequests
<1>6. OnTime'
  BY <1>1, <1>3, Delays DEF ChainInv, OnTime
<1>7. WritersWait'
  BY <1>1, <1>2 DEF ChainInv, WritersWait, Waits
<1>8. WritersHeard'
  BY <1>1, LostGrows DEF ChainInv, WritersHeard, Ids
<1>9. RetriesCatchUp' /\ RowSoon' /\ PrevCovers'
  BY <1>1 DEF ChainInv, RetriesCatchUp, RowSoon, PrevCovers, Restored
<1>10. RestIsRest'
  BY DEF ChainInv, RestIsRest, DecidesRest, NeedsEvaluation, Restored
<1>11. ChainKept'
  BY <1>1, LostGrows DEF ChainInv, ChainKept, NeedsEvaluation, Ids
<1> QED
  BY <1>4, <1>5, <1>6, <1>7, <1>8, <1>9, <1>10, <1>11 DEF ChainInv

\* A request sends its message.
LEMMA SendStep ==
  ASSUME TypeOK, TypeOK', ChainInv, NEW m \in Message,
         m.sent = now, ~m.retry, m.due <= now + Soon,
         queue' = queue \cup {m},
         UNCHANGED <<now, row, prev, pc, batch, msg, start, result, lost>>,
         \A x \in Writers' : \E y \in Writers :
           /\ x.who = y.who /\ x.id = y.id /\ x.start = y.start
           /\ x.soon = y.soon /\ (x.sent => y.sent \/ x.id = m.id),
         \A c \in Client : client'[c].pc = "running" =>
           client[c].pc = "running" /\ client'[c].id = client[c].id,
         \A c \in Client : Sending(c) => Sending(c)' \/ row.messageId = m.id
  PROVE  ChainInv'
<1>1. Messages' = Messages \cup {m} /\ Evaluating' = Evaluating
  BY DEF Messages, Evaluating
<1>2. now \in Nat
  BY DEF TypeOK
<1>3. \A id : id \in Ids(Messages) \/ id = m.id => id \in Ids(Messages)'
  BY <1>1 DEF Ids
<1>4. OwnIds'
  BY <1>1 DEF ChainInv, OwnIds
<1>5. OwnRequests'
  BY DEF ChainInv, OwnRequests
<1>6. OnTime'
  BY <1>1, <1>2 DEF ChainInv, OnTime
<1>7. WritersWait'
  <2> SUFFICES ASSUME NEW x \in Writers', NEW k \in Messages', k.id = x.id
               PROVE  Waits(k, x)'
    BY DEF WritersWait
  <2>1. PICK y \in Writers : x.id = y.id /\ x.start = y.start /\ x.soon = y.soon
    OBVIOUS
  <2>2. y.start <= now
    BY DEF ChainInv, OnTime
  <2>3. CASE k = m
    BY <2>1, <2>2, <2>3 DEF Waits
  <2>4. CASE k # m
    BY <1>1, <2>1, <2>4 DEF ChainInv, WritersWait, Waits
  <2> QED
    BY <2>3, <2>4
<1>8. WritersHeard'
  BY <1>3, LostGrows DEF ChainInv, WritersHeard
<1>9. RetriesCatchUp' /\ RowSoon' /\ PrevCovers'
  <2>1. now <= m.sent + LambdaTimeout
    BY <1>2, Delays
  <2>2. RetriesCatchUp'
    BY <1>1, <2>1 DEF ChainInv, RetriesCatchUp
  <2>3. RowSoon'
    BY <1>1 DEF ChainInv, RowSoon
  <2> QED
    BY <2>2, <2>3 DEF ChainInv, PrevCovers, Restored
<1>10. RestIsRest'
  BY DEF ChainInv, RestIsRest, DecidesRest, NeedsEvaluation, Restored
<1>11. ChainKept'
  BY <1>3, LostGrows DEF ChainInv, ChainKept, NeedsEvaluation
<1> QED
  BY <1>4, <1>5, <1>6, <1>7, <1>8, <1>9, <1>10, <1>11 DEF ChainInv

\* A writer stores its identity in the row.
LEMMA StoreStep ==
  ASSUME TypeOK, TypeOK', ChainInv, NEW y \in Writers,
         row'.messageId = y.id, prev' = row, y.soon \/ ~AnyPending(row.state)',
         \A x \in Writers' : x \in Writers /\ x.who # y.who,
         y.sent \/ \E c \in Client : Sending(c)',
         UNCHANGED <<now, queue, batch, msg, start, result>>,
         lost \subseteq lost',
         \A w \in Worker : \/ pc'[w] = pc[w]
                           \/ pc'[w] = "stored" /\ w \in Evaluating,
         \A c \in Client : client'[c].pc = "running" =>
           client[c].pc = "running" /\ client'[c].id = client[c].id
  PROVE  ChainInv'
<1>1. Messages' = Messages /\ Evaluating' \subseteq Evaluating
  BY DEF Messages, Evaluating
<1>2. /\ y.id # row.messageId
      /\ \A w \in Evaluating : y.id # msg[w].id
      /\ \A x \in Writers' : x.id # y.id
  BY DEF ChainInv, OwnIds
<1>3. OwnIds'
  BY <1>1, <1>2 DEF ChainInv, OwnIds
<1>4. OwnRequests'
  BY DEF ChainInv, OwnRequests
<1>5. OnTime'
  BY <1>1 DEF ChainInv, OnTime, Evaluating
<1>6. WritersWait'
  BY <1>1 DEF ChainInv, WritersWait, Waits
<1>7. WritersHeard'
  BY <1>1, LostGrows DEF ChainInv, WritersHeard, Ids
<1>8. ASSUME NEW m \in Messages', m.id = row'.messageId
      PROVE  /\ now' <= m.sent + LambdaTimeout /\ (m.retry => m.due > now')
             /\ y.soon => m.due <= now' + Soon
  <2>1. Waits(m, y)
    BY <1>1, <1>8 DEF ChainInv, WritersWait
  <2>2. y.start \in Nat /\ now <= y.start + LambdaTimeout /\ now \in Nat
    BY WriterFields DEF ChainInv, OnTime, TypeOK
  <2>3. m.sent \in Nat /\ m.due \in Nat
    BY <1>1, MessagesType, MessageFields
  <2> QED
    BY <2>1, <2>2, <2>3, Delays DEF Waits
<1>9. RetriesCatchUp' /\ RowSoon' /\ PrevCovers'
  BY <1>2, <1>8 DEF RetriesCatchUp, RowSoon, PrevCovers
<1>10. RestIsRest'
  <2> SUFFICES ASSUME NEW w \in Worker PROVE DecidesRest(w)'
    BY DEF RestIsRest
  <2>1. w \in Evaluating => row'.messageId # msg'[w].id
    BY <1>2
  <2>2. DecidesRest(w)
    BY DEF ChainInv, RestIsRest
  <2> QED
    BY <2>1, <2>2 DEF DecidesRest, Evaluating
<1>11. ChainKept'
  <2>1. y.sent => (row.messageId \in Ids(Messages) \/ Lost(row.messageId))'
    <3>1. y.sent => y.id \in Ids(Messages) \/ Lost(y.id)
      BY DEF ChainInv, WritersHeard
    <3>2. Lost(y.id) => Lost(y.id)'
      BY LostGrows
    <3> QED
      BY <1>1, <3>1, <3>2 DEF Ids
  <2> QED
    BY <2>1 DEF ChainKept
<1> QED
  BY <1>3, <1>4, <1>5, <1>6, <1>7, <1>9, <1>10, <1>11 DEF ChainInv

LEMMA SendNextChain ==
  ASSUME TypeOK, TypeOK', ChainInv, NEW w \in Worker, SendNext(w)
  PROVE  ChainInv'
<1> DEFINE new == WorkerWriter(w)'
<1>1. /\ pc[w] = "evaluated" /\ FreshIds # {} /\ pc' = [pc EXCEPT ![w] = "sent"]
      /\ UNCHANGED <<now, row, prev, batch, msg, start, client, reset, lost>>
  BY DEF SendNext, rowVars, ghostVars
<1>2. PICK delay \in result[w].next :
        /\ queue' = queue \cup {Sent(NewId, delay, FALSE)}
        /\ result' = [result EXCEPT ![w].id = NewId]
  BY DEF SendNext
<1>3. PICK m \in Message : m = Sent(NewId, delay, FALSE)
  <2>1. delay \in Nat
    BY DEF TypeOK, Result
  <2> QED
    BY <1>1, <2>1, NewIdType, SentType
<1>4. /\ m.id = NewId /\ m.sent = now /\ ~m.retry
      /\ delay = EvaluateDelay => m.due <= now + Soon
  <2>1. delay \in Nat
    BY DEF TypeOK, Result
  <2> QED
    BY <1>3, <2>1, SentFields, Delays
<1>5. /\ result'[w].id = NewId /\ result'[w].state = result[w].state
      /\ result'[w].next = result[w].next
      /\ \A v \in Worker \ {w} : result'[v] = result[v] /\ pc'[v] = pc[v]
      /\ pc'[w] = "sent"
  BY <1>1, <1>2 DEF TypeOK
<1>6. /\ NewId # row.messageId /\ NewId # prev.messageId
      /\ \A k \in Messages : k.id # NewId
      /\ \A x \in Writers : x.id # NewId
      /\ \A v \in Evaluating : msg[v].id # NewId
      /\ \A c \in Client : client[c].id # NewId
  BY <1>1, FreshId DEF ChainInv
<1>7. /\ new.id = NewId /\ new.start = start[w]
      /\ new.soon = AnyPending(result[w].state)
  BY <1>1, <1>5 DEF WorkerWriter, AnyPending
<1> HIDE DEF new
<1>8. Writers' \subseteq Writers \cup {new}
  <2>1. WritingClients' = WritingClients /\ WritingResets' = WritingResets
    BY <1>1 DEF WritingClients, WritingResets
  <2>2. WritingWorkers' \subseteq WritingWorkers \cup {w}
    BY <1>5 DEF WritingWorkers
  <2>3. \A c \in WritingClients : ClientWriter(c)' = ClientWriter(c)
    BY <1>1 DEF ClientWriter
  <2>4. \A r \in WritingResets : ResetWriter(r)' = ResetWriter(r)
    BY <1>1 DEF ResetWriter
  <2>5. \A v \in WritingWorkers \ {w} : WorkerWriter(v)' = WorkerWriter(v)
    BY <1>1, <1>5 DEF WorkerWriter, WritingWorkers
  <2> QED
    BY <2>1, <2>2, <2>3, <2>4, <2>5 DEF Writers, new
<1>9. /\ Messages' = Messages \cup {m}
      /\ \A v \in Worker : v \in Evaluating' <=> v \in Evaluating
  BY <1>1, <1>2, <1>3, <1>5 DEF Messages, Evaluating
<1>10. /\ start[w] <= now /\ now <= start[w] + LambdaTimeout
       /\ now \in Nat /\ start[w] \in Nat
  BY <1>1 DEF ChainInv, OnTime, TypeOK
<1>11. OwnIds'
  BY <1>1, <1>6, <1>7, <1>8, <1>9 DEF ChainInv, OwnIds, Evaluating
<1>12. OwnRequests'
  BY <1>1, <1>6, <1>7, <1>8 DEF ChainInv, OwnRequests
<1>13. OnTime'
  <2>1. ASSUME NEW v \in Worker
        PROVE  (IF pc[v] = "idle" THEN batch[v] = {}
                ELSE /\ msg[v] \in batch[v]
                     /\ start[v] <= now /\ now <= start[v] + LambdaTimeout
                     /\ \A k \in batch[v] : k.due <= start[v])'
    BY <1>1, <1>5 DEF ChainInv, OnTime
  <2>2. \A x \in Writers' : x.start <= now' /\ now' <= x.start + LambdaTimeout
    BY <1>1, <1>7, <1>8, <1>10 DEF ChainInv, OnTime
  <2>3. \A k \in Messages' : k.sent <= now'
    BY <1>1, <1>4, <1>9, <1>10 DEF ChainInv, OnTime
  <2> QED
    BY <2>1, <2>2, <2>3 DEF OnTime
<1>14. WritersWait'
  <2> SUFFICES ASSUME NEW x \in Writers', NEW k \in Messages', k.id = x.id
               PROVE  Waits(k, x)'
    BY DEF WritersWait
  <2>1. CASE x = new
    <3>1. k = m
      BY <1>6, <1>7, <1>9, <2>1
    <3>2. x.soon => m.due <= now + Soon
      BY <1>1, <1>4, <1>7, <2>1 DEF ChainInv, RestIsRest, DecidesRest
    <3> QED
      BY <1>1, <1>4, <1>7, <1>10, <2>1, <3>1, <3>2 DEF Waits
  <2>2. CASE x \in Writers
    <3>1. k \in Messages
      BY <1>4, <1>6, <1>9, <2>2
    <3> QED
      BY <1>1, <2>2, <3>1 DEF ChainInv, WritersWait, Waits
  <2> QED
    BY <1>8, <2>1, <2>2
<1>15. \A id : id \in Ids(Messages) \/ id = NewId => id \in Ids(Messages)'
  BY <1>4, <1>9 DEF Ids
<1>16. WritersHeard'
  BY <1>1, <1>7, <1>8, <1>15, LostGrows DEF ChainInv, WritersHeard
<1>17. RetriesCatchUp' /\ RowSoon' /\ PrevCovers'
  BY <1>1, <1>4, <1>6, <1>9
     DEF ChainInv, RetriesCatchUp, RowSoon, PrevCovers, Restored
<1>18. RestIsRest'
  BY <1>1, <1>2, <1>5
     DEF ChainInv, RestIsRest, DecidesRest, NeedsEvaluation, Restored
<1>19. ChainKept'
  BY <1>1, <1>15, LostGrows DEF ChainInv, ChainKept, NeedsEvaluation, Sending
<1> QED
  BY <1>11, <1>12, <1>13, <1>14, <1>16, <1>17, <1>18, <1>19 DEF ChainInv

\* A decision that needs no further evaluation keeps the message of the row,
\* and leaves no more to do than there was.
LEMMA RestStoreChain ==
  ASSUME TypeOK, TypeOK', ChainInv, NEW w \in Worker, UpdateSchedule(w),
         pc[w] = "evaluated", result[w].next = {}
  PROVE  ChainInv'
<1>1. /\ row' = [entries   |-> IF result[w].cleaned THEN result[w].entries
                               ELSE row.entries,
                 state     |-> result[w].state,
                 abort     |-> row.abort \/ result[w].aborting,
                 messageId |-> row.messageId]
      /\ prev' = row /\ pc' = [pc EXCEPT ![w] = "stored"]
      /\ lost' = IF ~(row'.entries \subseteq row.entries)
                 THEN lost \cup {<<"restored entries", row.messageId>>}
                 ELSE lost
      /\ UNCHANGED <<now, queue, batch, msg, start, result, client, reset>>
  BY DEF UpdateSchedule
<1>2. /\ row'.messageId = row.messageId /\ row'.state = result[w].state
      /\ row'.abort = (row.abort \/ result[w].aborting)
      /\ row'.entries = IF result[w].cleaned THEN result[w].entries
                        ELSE row.entries
      /\ row.entries \subseteq Entry /\ row'.entries \subseteq Entry
      /\ row.abort \in BOOLEAN
  BY <1>1 DEF TypeOK, Row
<1>3. /\ pc'[w] = "stored" /\ \A v \in Worker \ {w} : pc'[v] = pc[v]
      /\ lost \subseteq lost'
  BY <1>1 DEF TypeOK
<1>4. ~Restored' => ~Restored /\ row'.entries \subseteq row.entries
  BY <1>1, <1>2 DEF Restored
<1>5. \A p \in Property : ~IsTracked(row'.state[p])
  BY <1>2 DEF ChainInv, RestIsRest, DecidesRest
<1>6. ~Restored' /\ NeedsEvaluation' => NeedsEvaluation
  BY <1>1, <1>2, <1>4, <1>5 DEF NeedsEvaluation
<1>7. Writers' \subseteq Writers
  <2>1. WritingWorkers' \subseteq WritingWorkers
    BY <1>3 DEF WritingWorkers
  <2> QED
    BY <1>1, <2>1, FewerWriters DEF WritingClients, WritingResets, WritingWorkers
<1>8. Messages' = Messages /\ Evaluating' \subseteq Evaluating
  BY <1>1, <1>3 DEF Messages, Evaluating
<1>9. OwnIds'
  BY <1>1, <1>2, <1>7, <1>8 DEF ChainInv, OwnIds
<1>10. OwnRequests'
  BY <1>1, <1>7 DEF ChainInv, OwnRequests
<1>11. OnTime'
  BY <1>1, <1>3, <1>7, <1>8 DEF ChainInv, OnTime
<1>12. WritersWait'
  BY <1>1, <1>7, <1>8 DEF ChainInv, WritersWait, Waits
<1>13. WritersHeard'
  BY <1>3, <1>7, <1>8, LostGrows DEF ChainInv, WritersHeard, Ids
<1>14. RetriesCatchUp' /\ RowSoon'
  <2>1. ~AnyPending(row.state)'
    BY <1>5 DEF AnyPending, IsPending, IsTracked, TypeOK, Row, PropertyState
  <2> QED
    BY <1>1, <1>2, <2>1 DEF RetriesCatchUp, RowSoon
<1>15. PrevCovers'
  BY <1>1, <1>2, <1>4 DEF PrevCovers
<1>16. RestIsRest'
  <2> SUFFICES ASSUME NEW v \in Worker PROVE DecidesRest(v)'
    BY DEF RestIsRest
  <2>1. DecidesRest(v)
    BY DEF ChainInv, RestIsRest
  <2>2. CASE v # w
    BY <1>1, <1>2, <1>3, <1>4, <1>6, <2>1, <2>2 DEF DecidesRest
  <2>3. CASE v = w
    <3>1. row'.messageId = msg'[w].id /\ ~Restored' => ~NeedsEvaluation'
      <4> SUFFICES ASSUME row'.messageId = msg'[w].id, ~Restored'
                   PROVE  ~NeedsEvaluation'
        OBVIOUS
      <4>1. \/ row'.abort \/ \A e \in row.entries : e.end <= start[w]
        BY <1>1, <1>2, <1>4, <2>1, <2>3 DEF DecidesRest
      <4>2. /\ start[w] <= now /\ start[w] \in Nat /\ now \in Nat
            /\ \A e \in row.entries : e.end \in Nat
        BY <1>2 DEF ChainInv, OnTime, TypeOK, Entry
      <4>3. row'.abort \/ \A e \in row'.entries : ~(e.end > now)
        BY <1>4, <4>1, <4>2
      <4> QED
        BY <1>1, <1>5, <4>3 DEF NeedsEvaluation
    <3> QED
      BY <1>3, <2>3, <3>1 DEF DecidesRest
  <2> QED
    BY <2>2, <2>3
<1>17. ChainKept'
  <2>1. CASE ~Restored'
    BY <1>1, <1>2, <1>3, <1>6, <1>8, <2>1, LostGrows
       DEF ChainInv, ChainKept, Ids, Sending
  <2>2. CASE Restored'
    BY <2>2 DEF ChainKept, Restored, Lost, Causes
  <2> QED
    BY <2>1, <2>2
<1> QED
  BY <1>9, <1>10, <1>11, <1>12, <1>13, <1>14, <1>15, <1>16, <1>17 DEF ChainInv

LEMMA UpdateScheduleChain ==
  ASSUME TypeOK, TypeOK', ChainInv, NEW w \in Worker, UpdateSchedule(w)
  PROVE  ChainInv'
<1>1. CASE pc[w] = "evaluated" /\ result[w].next = {}
  BY <1>1, RestStoreChain
<1>2. CASE pc[w] = "sent"
  <2> DEFINE y == WorkerWriter(w)
  <2>1. /\ result[w].next # {}
        /\ y \in Writers /\ y.who = <<"worker", w>> /\ y.id = result[w].id
        /\ y.sent /\ y.soon = AnyPending(result[w].state)
    BY <1>2 DEF ChainInv, RestIsRest, DecidesRest, Writers, WritingWorkers,
                WorkerWriter
  <2>2. /\ row'.messageId = result[w].id /\ row'.state = result[w].state
        /\ prev' = row /\ pc' = [pc EXCEPT ![w] = "stored"]
        /\ UNCHANGED <<now, queue, batch, msg, start, result, client, reset>>
    BY <2>1 DEF UpdateSchedule
  <2>3. lost \subseteq lost'
    BY DEF UpdateSchedule
  <2>4. /\ pc'[w] = "stored" /\ w \in Evaluating
        /\ \A v \in Worker \ {w} : pc'[v] = pc[v]
    BY <1>2, <2>2 DEF TypeOK, Evaluating
  <2>5. Writers' \subseteq Writers
    <3>1. WritingWorkers' \subseteq WritingWorkers
      BY <2>4 DEF WritingWorkers
    <3> QED
      BY <2>2, <3>1, FewerWriters
         DEF WritingClients, WritingResets, WritingWorkers
  <2>6. ASSUME NEW x \in Writers' PROVE x.who # <<"worker", w>>
    BY <2>4, <2>6 DEF Writers, WritingWorkers, ClientWriter, ResetWriter,
                      WorkerWriter
  <2>7. y.soon \/ ~AnyPending(row.state)'
    BY <2>1, <2>2 DEF AnyPending
  <2> HIDE DEF y
  <2> QED
    BY <2>1, <2>2, <2>3, <2>4, <2>5, <2>6, <2>7, StoreStep
<1> QED
  BY <1>1, <1>2 DEF UpdateSchedule

------------------------------------------------------------------------------
(* The steps of requests, resets and time.                                  *)

LEMMA SetScheduleChain ==
  ASSUME TypeOK, TypeOK', ChainInv, NEW c \in Client, SetSchedule(c)
  PROVE  ChainInv'
<1> DEFINE new == ClientWriter(c)'
<1>1. /\ client[c].pc = "idle" /\ FreshIds # {}
      /\ UNCHANGED <<now, row, prev, queue, pc, batch, msg, start, result,
                     reset, lost>>
  BY DEF SetSchedule, rowVars, handlerVars, ghostVars
<1>2. PICK entries \in Schedules :
        client' = [client EXCEPT ![c] = RequestAt("running", NewId, now, entries)]
  BY DEF SetSchedule
<1>3. /\ client'[c].id = NewId /\ client'[c].start = now /\ ~client'[c].sent
      /\ \A d \in Client \ {c} : client'[d] = client[d]
  BY <1>2 DEF RequestAt, TypeOK
<1>4. /\ new.id = NewId /\ new.start = now /\ ~new.sent
      /\ new.who = <<"client", c>>
  BY <1>3 DEF ClientWriter
<1> HIDE DEF new
<1>5. Writers' \subseteq Writers \cup {new}
  <2>1. WritingResets' = WritingResets /\ WritingWorkers' = WritingWorkers
    BY <1>1 DEF WritingResets, WritingWorkers
  <2>2. WritingClients' \subseteq WritingClients \cup {c}
    BY <1>3 DEF WritingClients
  <2>3. \A d \in WritingClients \ {c} : ClientWriter(d)' = ClientWriter(d)
    BY <1>3 DEF ClientWriter, WritingClients
  <2>4. \A r \in WritingResets : ResetWriter(r)' = ResetWriter(r)
    BY <1>1 DEF ResetWriter
  <2>5. \A w \in WritingWorkers : WorkerWriter(w)' = WorkerWriter(w)
    BY <1>1 DEF WorkerWriter
  <2> QED
    BY <2>1, <2>2, <2>3, <2>4, <2>5 DEF Writers, new
<1>6. \A d \in Client : Sending(d) => Sending(d)'
  BY <1>1, <1>3 DEF Sending
<1> QED
  BY <1>1, <1>3, <1>4, <1>5, <1>6, JoinStep

LEMMA ReadOnResetChain ==
  ASSUME TypeOK, TypeOK', ChainInv, NEW r \in Reset, ReadOnReset(r)
  PROVE  ChainInv'
<1> DEFINE new == ResetWriter(r)'
<1>1. /\ reset[r].pc = "idle"
      /\ UNCHANGED <<now, row, prev, queue, pc, batch, msg, start, result,
                     client, lost>>
  BY DEF ReadOnReset, rowVars, handlerVars, ghostVars
<1>2. \/ /\ FreshIds # {}
         /\ reset' = [reset EXCEPT ![r] = RequestAt("running", NewId, now, {})]
      \/ reset' = [reset EXCEPT ![r] = DoneRequest]
  BY DEF ReadOnReset
<1>3. \A q \in Reset \ {r} : reset'[q] = reset[q]
  BY <1>2 DEF TypeOK
<1>4. /\ WritingClients' = WritingClients /\ WritingWorkers' = WritingWorkers
      /\ \A c \in WritingClients : ClientWriter(c)' = ClientWriter(c)
      /\ \A w \in WritingWorkers : WorkerWriter(w)' = WorkerWriter(w)
      /\ \A q \in WritingResets \ {r} : ResetWriter(q)' = ResetWriter(q)
  BY <1>1, <1>3 DEF WritingClients, WritingWorkers, WritingResets, ClientWriter,
                    WorkerWriter, ResetWriter
<1>5. \A c \in Client : Sending(c) => Sending(c)'
  BY <1>1 DEF Sending
<1>6. ASSUME FreshIds # {},
             reset' = [reset EXCEPT ![r] = RequestAt("running", NewId, now, {})]
      PROVE  ChainInv'
  <2>1. reset'[r].id = NewId /\ reset'[r].start = now /\ ~reset'[r].sent
    BY <1>6 DEF RequestAt, TypeOK
  <2>2. new.id = NewId /\ new.start = now /\ ~new.sent
    BY <2>1 DEF ResetWriter
  <2> HIDE DEF new
  <2>3. WritingResets' \subseteq WritingResets \cup {r}
    BY <1>3 DEF WritingResets
  <2>4. Writers' \subseteq Writers \cup {new}
    BY <1>4, <2>3 DEF Writers, new
  <2> QED
    BY <1>1, <1>5, <1>6, <2>2, <2>4, JoinStep
<1>7. CASE reset' = [reset EXCEPT ![r] = DoneRequest]
  <2>1. reset'[r].pc = "done"
    BY <1>7 DEF DoneRequest, RequestAt, TypeOK
  <2>2. WritingResets' \subseteq WritingResets \ {r}
    BY <1>3, <2>1 DEF WritingResets
  <2>3. Writers' \subseteq Writers
    BY <1>4, <2>2 DEF Writers
  <2> QED
    BY <1>1, <1>5, <2>3, LeaveStep
<1> QED
  BY <1>2, <1>6, <1>7

LEMMA StoreEntriesChain ==
  ASSUME TypeOK, TypeOK', ChainInv, NEW c \in Client, StoreEntries(c)
  PROVE  ChainInv'
<1> DEFINE y == ClientWriter(c)
<1>1. /\ client[c].pc = "running" /\ ~client[c].stored
      /\ row' = [entries |-> client[c].entries, state |-> row.state,
                 abort |-> FALSE, messageId |-> client[c].id]
      /\ prev' = row /\ client' = [client EXCEPT ![c].stored = TRUE]
      /\ UNCHANGED <<now, queue, pc, batch, msg, start, result, reset, lost>>
  BY DEF StoreEntries, handlerVars, ghostVars
<1>2. /\ y \in Writers /\ y.who = <<"client", c>> /\ y.id = client[c].id
      /\ y.soon /\ y.sent = client[c].sent
  BY <1>1 DEF Writers, WritingClients, ClientWriter
<1>3. /\ client'[c].pc = "running" /\ client'[c].stored
      /\ client'[c].sent = client[c].sent /\ client'[c].id = client[c].id
      /\ \A d \in Client \ {c} : client'[d] = client[d]
  BY <1>1 DEF TypeOK, Request
<1>4. WritingClients' \subseteq WritingClients \ {c}
  BY <1>3 DEF WritingClients
<1>5. Writers' \subseteq Writers
  BY <1>1, <1>3, <1>4, FewerWriters
     DEF WritingClients, WritingResets, WritingWorkers
<1>6. \A x \in Writers' : x.who # <<"client", c>>
  BY <1>4 DEF Writers, WritingClients, ClientWriter, ResetWriter, WorkerWriter
<1>7. row'.messageId = y.id
  BY <1>1, <1>2
<1>8. y.sent \/ Sending(c)'
  BY <1>2, <1>3, <1>7 DEF Sending, TypeOK, Request
<1> HIDE DEF y
<1> QED
  BY <1>1, <1>2, <1>3, <1>5, <1>6, <1>7, <1>8, StoreStep

LEMMA StoreAbortChain ==
  ASSUME TypeOK, TypeOK', ChainInv, NEW r \in Reset, StoreAbort(r)
  PROVE  ChainInv'
<1> DEFINE y == ResetWriter(r)
<1>1. /\ reset[r].pc = "running" /\ reset[r].sent
      /\ row' = [entries |-> row.entries, state |-> row.state,
                 abort |-> TRUE, messageId |-> reset[r].id]
      /\ prev' = row /\ reset' = [reset EXCEPT ![r] = DoneRequest]
      /\ UNCHANGED <<now, queue, pc, batch, msg, start, result, client, lost>>
  BY DEF StoreAbort, handlerVars, ghostVars
<1>2. /\ y \in Writers /\ y.who = <<"reset", r>> /\ y.id = reset[r].id
      /\ y.soon /\ y.sent
  BY <1>1 DEF Writers, WritingResets, ResetWriter
<1>3. /\ reset'[r].pc = "done"
      /\ \A q \in Reset \ {r} : reset'[q] = reset[q]
  BY <1>1 DEF TypeOK, DoneRequest, RequestAt
<1>4. WritingResets' \subseteq WritingResets \ {r}
  BY <1>3 DEF WritingResets
<1>5. Writers' \subseteq Writers
  BY <1>1, <1>3, <1>4, FewerWriters
     DEF WritingClients, WritingResets, WritingWorkers
<1>6. \A x \in Writers' : x.who # <<"reset", r>>
  BY <1>4 DEF Writers, WritingResets, ClientWriter, ResetWriter, WorkerWriter
<1>7. row'.messageId = y.id
  BY <1>1, <1>2
<1> HIDE DEF y
<1> QED
  BY <1>1, <1>2, <1>5, <1>6, <1>7, StoreStep

LEMMA SendEvaluateChain ==
  ASSUME TypeOK, TypeOK', ChainInv, NEW c \in Client, SendEvaluate(c)
  PROVE  ChainInv'
<1>1. /\ client[c].pc = "running" /\ ~client[c].sent
      /\ queue' = queue \cup {Sent(client[c].id, MinDelay, FALSE)}
      /\ client' = [client EXCEPT ![c].sent = TRUE]
      /\ UNCHANGED <<now, row, prev, pc, batch, msg, start, result, reset, lost>>
  BY DEF SendEvaluate, rowVars, handlerVars, ghostVars
<1>2. PICK m \in Message : m = Sent(client[c].id, MinDelay, FALSE)
  BY SentType, Delays DEF TypeOK, Request
<1>3. m.id = client[c].id /\ m.sent = now /\ ~m.retry /\ m.due <= now + Soon
  BY <1>2, SentFields, Delays
<1>4. /\ client'[c].pc = client[c].pc /\ client'[c].id = client[c].id
      /\ client'[c].start = client[c].start
      /\ client'[c].stored = client[c].stored
      /\ \A d \in Client \ {c} : client'[d] = client[d]
  BY <1>1 DEF TypeOK, Request
<1>5. ASSUME NEW x \in Writers'
      PROVE  \E y \in Writers :
               /\ x.who = y.who /\ x.id = y.id /\ x.start = y.start
               /\ x.soon = y.soon /\ (x.sent => y.sent \/ x.id = m.id)
  <2>1. CASE x \in {ResetWriter(r)' : r \in WritingResets'}
    <3>1. x \in Writers
      BY <1>1, <2>1 DEF Writers, WritingResets, ResetWriter
    <3> QED
      BY <3>1
  <2>2. CASE x \in {WorkerWriter(w)' : w \in WritingWorkers'}
    <3>1. x \in Writers
      BY <1>1, <2>2 DEF Writers, WritingWorkers, WorkerWriter
    <3> QED
      BY <3>1
  <2>3. ASSUME NEW d \in WritingClients', x = ClientWriter(d)'
        PROVE  \E y \in Writers :
                 /\ x.who = y.who /\ x.id = y.id /\ x.start = y.start
                 /\ x.soon = y.soon /\ (x.sent => y.sent \/ x.id = m.id)
    <3>1. d \in WritingClients /\ ClientWriter(d) \in Writers
      BY <1>4 DEF WritingClients, Writers
    <3>2. /\ ClientWriter(d).who = x.who /\ ClientWriter(d).id = x.id
          /\ ClientWriter(d).start = x.start /\ ClientWriter(d).soon = x.soon
          /\ x.sent => ClientWriter(d).sent \/ d = c
      BY <1>4, <2>3, <3>1 DEF ClientWriter, WritingClients
    <3>3. d = c => x.id = m.id
      BY <1>3, <1>4, <2>3 DEF ClientWriter
    <3> QED
      BY <3>1, <3>2, <3>3
  <2> QED
    BY <2>1, <2>2, <2>3 DEF Writers
<1>6. \A d \in Client : Sending(d) => Sending(d)' \/ row.messageId = m.id
  BY <1>1, <1>3, <1>4 DEF Sending
<1>7. \A d \in Client : client'[d].pc = "running" =>
        client[d].pc = "running" /\ client'[d].id = client[d].id
  BY <1>4
<1>8. UNCHANGED <<now, row, prev, pc, batch, msg, start, result, lost>>
  BY <1>1
<1> QED
  BY <1>1, <1>2, <1>3, <1>5, <1>6, <1>7, <1>8, SendStep

LEMMA SendAbortChain ==
  ASSUME TypeOK, TypeOK', ChainInv, NEW r \in Reset, SendAbort(r)
  PROVE  ChainInv'
<1>1. /\ reset[r].pc = "running" /\ ~reset[r].sent
      /\ queue' = queue \cup {Sent(reset[r].id, 0, FALSE)}
      /\ reset' = [reset EXCEPT ![r].sent = TRUE]
      /\ UNCHANGED <<now, row, prev, pc, batch, msg, start, result, client, lost>>
  BY DEF SendAbort, rowVars, handlerVars, ghostVars
<1>2. PICK m \in Message : m = Sent(reset[r].id, 0, FALSE)
  BY SentType DEF TypeOK, Request
<1>3. m.id = reset[r].id /\ m.sent = now /\ ~m.retry /\ m.due <= now + Soon
  <2>1. 0 \in Nat /\ 0 <= Soon
    BY Delays
  <2> QED
    BY <1>2, <2>1, SentFields
<1>4. /\ reset'[r].pc = reset[r].pc /\ reset'[r].id = reset[r].id
      /\ reset'[r].start = reset[r].start
      /\ \A q \in Reset \ {r} : reset'[q] = reset[q]
  BY <1>1 DEF TypeOK, Request
<1>5. ASSUME NEW x \in Writers'
      PROVE  \E y \in Writers :
               /\ x.who = y.who /\ x.id = y.id /\ x.start = y.start
               /\ x.soon = y.soon /\ (x.sent => y.sent \/ x.id = m.id)
  <2>1. CASE x \in {ClientWriter(c)' : c \in WritingClients'}
    <3>1. x \in Writers
      BY <1>1, <2>1 DEF Writers, WritingClients, ClientWriter
    <3> QED
      BY <3>1
  <2>2. CASE x \in {WorkerWriter(w)' : w \in WritingWorkers'}
    <3>1. x \in Writers
      BY <1>1, <2>2 DEF Writers, WritingWorkers, WorkerWriter
    <3> QED
      BY <3>1
  <2>3. ASSUME NEW q \in WritingResets', x = ResetWriter(q)'
        PROVE  \E y \in Writers :
                 /\ x.who = y.who /\ x.id = y.id /\ x.start = y.start
                 /\ x.soon = y.soon /\ (x.sent => y.sent \/ x.id = m.id)
    <3>1. q \in WritingResets /\ ResetWriter(q) \in Writers
      BY <1>4 DEF WritingResets, Writers
    <3>2. /\ ResetWriter(q).who = x.who /\ ResetWriter(q).id = x.id
          /\ ResetWriter(q).start = x.start /\ ResetWriter(q).soon = x.soon
          /\ x.sent => ResetWriter(q).sent \/ q = r
      BY <1>4, <2>3, <3>1 DEF ResetWriter, WritingResets
    <3>3. q = r => x.id = m.id
      BY <1>3, <1>4, <2>3 DEF ResetWriter
    <3> QED
      BY <3>1, <3>2, <3>3
  <2> QED
    BY <2>1, <2>2, <2>3 DEF Writers
<1>6. UNCHANGED <<now, row, prev, pc, batch, msg, start, result, client, lost>>
  BY <1>1
<1>7. \A c \in Client : Sending(c) => Sending(c)'
  BY <1>6 DEF Sending
<1> QED
  BY <1>1, <1>2, <1>3, <1>5, <1>6, <1>7, SendStep

\* A request that responds has sent its message; one that fails before it has
\* loses it.
LEMMA RequestEndChain ==
  ASSUME TypeOK, TypeOK', ChainInv, NEW c \in Client,
         Respond(c) \/ FailRequest(c)
  PROVE  ChainInv'
<1>1. /\ client' = [client EXCEPT ![c] = DoneRequest]
      /\ UNCHANGED <<now, row, prev, queue, pc, batch, msg, start, result, reset>>
  BY DEF Respond, FailRequest, rowVars, handlerVars
<1>2. /\ client'[c].pc = "done"
      /\ \A d \in Client \ {c} : client'[d] = client[d]
  BY <1>1 DEF TypeOK, DoneRequest, RequestAt
<1>3. lost \subseteq lost'
  BY DEF Respond, FailRequest, ghostVars
<1>4. Sending(c) => Lost(row.messageId)'
  <2> SUFFICES ASSUME Sending(c) PROVE Lost(row.messageId)'
    OBVIOUS
  <2>1. <<"failed request", row.messageId>> \in lost'
    BY DEF Respond, FailRequest, Sending
  <2> QED
    BY <1>1, <2>1 DEF Lost, Causes
<1>5. WritingClients' \subseteq WritingClients \ {c}
  BY <1>2 DEF WritingClients
<1>6. Writers' \subseteq Writers
  BY <1>1, <1>2, <1>5, FewerWriters
     DEF WritingClients, WritingResets, WritingWorkers
<1>7. \A d \in Client : Sending(d) => Sending(d)' \/ Lost(row.messageId)'
  BY <1>1, <1>2, <1>4 DEF Sending
<1> QED
  BY <1>1, <1>2, <1>3, <1>6, <1>7, LeaveStep

LEMMA FailResetChain ==
  ASSUME TypeOK, TypeOK', ChainInv, NEW r \in Reset, FailReset(r)
  PROVE  ChainInv'
<1>1. /\ reset' = [reset EXCEPT ![r] = DoneRequest]
      /\ UNCHANGED <<now, row, prev, queue, pc, batch, msg, start, result,
                     client, lost>>
  BY DEF FailReset, rowVars, handlerVars, ghostVars
<1>2. /\ reset'[r].pc = "done"
      /\ \A q \in Reset \ {r} : reset'[q] = reset[q]
  BY <1>1 DEF TypeOK, DoneRequest, RequestAt
<1>3. WritingResets' \subseteq WritingResets \ {r}
  BY <1>2 DEF WritingResets
<1>4. Writers' \subseteq Writers
  BY <1>1, <1>2, <1>3, FewerWriters
     DEF WritingClients, WritingResets, WritingWorkers
<1>5. \A c \in Client : Sending(c) => Sending(c)'
  BY <1>1 DEF Sending
<1> QED
  BY <1>1, <1>4, <1>5, LeaveStep

\* Time passes: what was due soon is due sooner, nothing runs too long, and
\* the previous row is no longer readable.
LEMMA TickChain ==
  ASSUME TypeOK, TypeOK', ChainInv, Tick
  PROVE  ChainInv'
<1>1. /\ now' = now + 1 /\ prev' = row /\ now \in Nat
      /\ UNCHANGED <<row, queue, pc, batch, msg, start, result, client, reset,
                     lost>>
  BY DEF Tick, handlerVars, ghostVars, TypeOK
<1>2. Messages' = Messages /\ Evaluating' = Evaluating
  BY <1>1 DEF Messages, Evaluating
<1>3. Writers' \subseteq Writers
  BY <1>1, FewerWriters DEF WritingClients, WritingResets, WritingWorkers
<1>4. OwnIds'
  BY <1>1, <1>2, <1>3 DEF ChainInv, OwnIds
<1>5. OwnRequests'
  BY <1>1, <1>3 DEF ChainInv, OwnRequests
<1>6. /\ \A m \in Messages : m.sent \in Nat /\ m.due \in Nat
      /\ \A w \in Worker : start[w] \in Nat
      /\ \A x \in Writers : x.start \in Nat
  BY MessagesType, MessageFields, WriterFields DEF TypeOK
<1>7. ASSUME NEW x \in Writers PROVE now + 1 <= x.start + LambdaTimeout
  BY WriterFields DEF Tick, InTime, ClientWriter, ResetWriter, WorkerWriter,
     WritingClients, WritingResets, WritingWorkers
<1>8. OnTime'
  <2>1. ASSUME NEW w \in Worker
        PROVE  (IF pc[w] = "idle" THEN batch[w] = {}
                ELSE /\ msg[w] \in batch[w]
                     /\ start[w] <= now /\ now <= start[w] + LambdaTimeout
                     /\ \A m \in batch[w] : m.due <= start[w])'
    BY <1>1, <1>6 DEF ChainInv, OnTime, Tick, InTime
  <2>2. \A x \in Writers' : x.start <= now' /\ now' <= x.start + LambdaTimeout
    BY <1>1, <1>3, <1>6, <1>7 DEF ChainInv, OnTime
  <2>3. \A m \in Messages' : m.sent <= now'
    BY <1>1, <1>2, <1>6 DEF ChainInv, OnTime
  <2> QED
    BY <2>1, <2>2, <2>3 DEF OnTime
<1>9. WritersWait'
  <2> SUFFICES ASSUME NEW x \in Writers', NEW m \in Messages', m.id = x.id
               PROVE  Waits(m, x)'
    BY DEF WritersWait
  <2>1. Waits(m, x)
    BY <1>2, <1>3 DEF ChainInv, WritersWait
  <2> QED
    BY <1>1, <1>2, <1>6, <2>1, Delays DEF Waits
<1>10. WritersHeard'
  BY <1>1, <1>2, <1>3, LostGrows DEF ChainInv, WritersHeard, Ids
<1>11. RetriesCatchUp' /\ PrevCovers'
  BY <1>1 DEF RetriesCatchUp, PrevCovers
<1>12. RowSoon'
  BY <1>1, <1>2, <1>6, Delays DEF ChainInv, RowSoon
<1>13. NeedsEvaluation' => NeedsEvaluation
  <2>1. \A e \in row.entries : e.end > now + 1 => e.end > now
    BY <1>1 DEF TypeOK, Row, Entry
  <2> QED
    BY <1>1, <2>1 DEF NeedsEvaluation
<1>14. RestIsRest'
  BY <1>1, <1>13 DEF ChainInv, RestIsRest, DecidesRest, Restored
<1>15. ChainKept'
  BY <1>1, <1>2, <1>13, LostGrows DEF ChainInv, ChainKept, Ids, Sending
<1> QED
  BY <1>4, <1>5, <1>8, <1>9, <1>10, <1>11, <1>12, <1>14, <1>15 DEF ChainInv

------------------------------------------------------------------------------
(* The theorems.                                                            *)

\* The invariant holds at first: there is nothing to do and nobody at work.
LEMMA ChainInit ==
  ASSUME Init
  PROVE  ChainInv
<1>1. Messages = {} /\ Writers = {} /\ Evaluating = {}
  BY DEF Init, Messages, Writers, WritingClients, WritingResets, WritingWorkers,
         Evaluating, NoRequest, RequestAt
<1>2. ~NeedsEvaluation /\ ~AnyPending(row.state)
  BY DEF Init, NeedsEvaluation, AnyPending, IsPending, IsTracked, AllAbsent,
         Absent
<1>3. OwnIds /\ OwnRequests /\ OnTime /\ WritersWait /\ WritersHeard
  BY <1>1 DEF OwnIds, OwnRequests, OnTime, WritersWait, WritersHeard, Init
<1>4. RetriesCatchUp /\ RowSoon /\ ChainKept
  BY <1>1, <1>2 DEF RetriesCatchUp, RowSoon, ChainKept
<1>5. PrevCovers
  BY DEF Init, PrevCovers
<1>6. RestIsRest
  BY DEF Init, RestIsRest, DecidesRest
<1> QED
  BY <1>3, <1>4, <1>5, <1>6 DEF ChainInv

LEMMA ChainStays ==
  ASSUME TypeOK, TypeOK', ChainInv, [Next]_vars
  PROVE  ChainInv'
<1>1. ASSUME NEW w \in Worker, Handler(w) \/ Fail(w) PROVE ChainInv'
  BY <1>1, ReceiveChain, EvaluateChain, SupersededChain, SendNextChain,
     UpdateScheduleChain, PublishChain, FinishChain, FailChain DEF Handler
<1>2. ASSUME NEW c \in Client,
             SetSchedule(c) \/ ClientStep(c) \/ FailRequest(c)
      PROVE  ChainInv'
  BY <1>2, SetScheduleChain, StoreEntriesChain, SendEvaluateChain,
     RequestEndChain DEF ClientStep
<1>3. ASSUME NEW r \in Reset, ReadOnReset(r) \/ ResetStep(r) \/ FailReset(r)
      PROVE  ChainInv'
  BY <1>3, ReadOnResetChain, SendAbortChain, StoreAbortChain, FailResetChain
     DEF ResetStep
<1>4. CASE Tick
  BY <1>4, TickChain
<1>5. CASE Horizon \/ UNCHANGED vars
  <2>1. /\ UNCHANGED <<now, row, prev, queue, pc, batch, msg, start, result,
                       client, reset, lost>>
    BY <1>5 DEF Horizon, vars, rowVars, handlerVars, ghostVars
  <2>2. Writers' \subseteq Writers
    BY <2>1, FewerWriters DEF WritingClients, WritingResets, WritingWorkers
  <2>3. \A c \in Client : Sending(c) => Sending(c)'
    BY <2>1 DEF Sending
  <2> QED
    BY <2>1, <2>2, <2>3, LeaveStep
<1> QED
  BY <1>1, <1>2, <1>3, <1>4, <1>5 DEF Next

\* The inductive invariant holds throughout.
THEOREM ChainInvCorrect == Spec => []ChainInv
<1>1. Init => ChainInv
  BY ChainInit
<1>2. TypeOK /\ TypeOK' /\ ChainInv /\ [Next]_vars => ChainInv'
  BY ChainStays
<1> QED
  BY <1>1, <1>2, TypeCorrect, PTL DEF Spec

\* While there is something left to do, the message the row waits for is on
\* its way or being handled, or it is gone for one of the reasons that
\* ChainAlive names, for a second abort or as the rest of a batch.
THEOREM ChainAliveCorrect ==
  Spec => [](ChainAlive \/ LostTo({"second abort", "rest of batch"}))
<1>1. ASSUME ChainInv
      PROVE  ChainAlive \/ LostTo({"second abort", "rest of batch"})
  <2> SUFFICES ASSUME NeedsEvaluation
               PROVE  \/ row.messageId \in Carried
                      \/ \E cause \in Causes : <<cause, row.messageId>> \in lost
    BY DEF ChainAlive, LostTo, Causes
  <2>1. Ids(Messages) \subseteq Carried
    BY DEF Ids, Messages, Carried
  <2>2. ASSUME NEW c \in Client, Sending(c) PROVE row.messageId \in Carried
    BY <2>2 DEF Sending, Carried
  <2> QED
    BY <1>1, <2>1, <2>2 DEF ChainInv, ChainKept, Lost
<1> QED
  BY <1>1, ChainInvCorrect, PTL

\* A pending change is looked at within the longest of the delays for pending
\* changes, retries and redeliveries.
THEOREM PendingSoonCorrect == Spec => []PendingSoon
<1>1. ASSUME TypeOK, ChainInv PROVE PendingSoon
  <2> SUFFICES ASSUME AnyPending(row.state)
               PROVE  \/ \E m \in Messages :
                           m.id = row.messageId /\ m.due <= now + Soon
                      \/ \E c \in Client :
                           client[c].id = row.messageId /\ ~client[c].sent
                      \/ LostTo(Causes)
    BY DEF PendingSoon, Messages, Soon
  <2>1. NeedsEvaluation
    <3>1. PICK p \in Property : row.state[p].set # row.state[p].seen
      BY DEF AnyPending, IsPending
    <3>2. row.state[p].set \in BOOLEAN /\ row.state[p].seen \in BOOLEAN
      <4>1. row.state \in [Property -> PropertyState]
        BY <1>1 DEF TypeOK, Row
      <4>2. row.state[p] \in PropertyState
        BY <4>1
      <4> QED
        BY <4>2 DEF PropertyState
    <3>3. IsTracked(row.state[p])
      BY <3>1, <3>2, Zenon DEF IsTracked
    <3> QED
      BY <3>3 DEF NeedsEvaluation
  <2>2. CASE row.messageId \in Ids(Messages)
    BY <1>1, <2>2 DEF ChainInv, RowSoon, Ids
  <2>3. CASE \E c \in Client : Sending(c)
    BY <2>3 DEF Sending
  <2>4. CASE Lost(row.messageId)
    BY <2>4 DEF Lost, LostTo
  <2> QED
    BY <1>1, <2>1, <2>2, <2>3, <2>4 DEF ChainInv, ChainKept
<1> QED
  BY <1>1, TypeCorrect, ChainInvCorrect, PTL

==============================================================================
