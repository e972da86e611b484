-------------------------- MODULE IrrigationSchedule --------------------------
(***************************************************************************)
(* The cloud side of irrigation scheduling for one device: the schedule    *)
(* row in DynamoDB, the SQS queue whose messages trigger evaluations, the  *)
(* Lambda invocations that consume them (handleScheduleMessage), the       *)
(* device/setSchedule requests of websocket clients and the abort that a   *)
(* "started" event of the device causes (abortScheduleOnReset).            *)
(*                                                                         *)
(* There is one action per await point of a handler.  Every read of the    *)
(* row may return the version before the last write while that write is    *)
(* recent (the code does not ask for consistent reads), an invocation may  *)
(* fail or time out at any await, and SQS then delivers its messages       *)
(* again.  The readings an evaluation works from are arbitrary: nothing is *)
(* assumed of the device.                                                  *)
(***************************************************************************)
EXTENDS ScheduleEvaluation

CONSTANTS
  MessageId,         \* identities of queue messages (generateMessageId)
  NoId,              \* no identity
  Worker,            \* concurrent invocations of the schedule handler
  Client,            \* setSchedule requests, each made at most once
  Reset,             \* "started" events of the device, each at most once
  Schedules,         \* the sets of entries a client may ask for
  BatchSize,         \* messages SQS may hand to one invocation
  MaxReceiveCount,   \* deliveries before a message is dead-lettered
  MinDelay, MaxDelay, \* the delays sendMessage can ask SQS for
  RetryDelay,        \* delay, and age limit, of a retry after a mismatch
  VisibilityTimeout, \* time until the messages of a failed invocation return
  LambdaTimeout,     \* longest time an invocation runs
  DeliveryLatency,   \* longest time a visible message waits for SQS
  MaxFailures,       \* bound: failed invocations and requests
  MaxTime            \* bound: the horizon of the model

ASSUME ScheduleAssumption ==
  /\ NoId \notin MessageId
  /\ Schedules \subseteq SUBSET Entry
  /\ {BatchSize, MaxReceiveCount} \subseteq Nat \ {0}
  /\ {MinDelay, MaxDelay, RetryDelay, VisibilityTimeout, LambdaTimeout,
      DeliveryLatency, MaxFailures, MaxTime} \subseteq Nat

\* The delay of a retry (the handler's literal 30000 ms) is one SQS can be asked
\* for, and longer than an invocation runs (serverless.yaml leaves the timeout of
\* the function at 6 s).
ASSUME RetryAssumption ==
  /\ LambdaTimeout < RetryDelay
  /\ MinDelay <= RetryDelay /\ RetryDelay <= MaxDelay

Message == [id : MessageId \cup {NoId}, due : Nat, sent : Nat,
            retry : BOOLEAN, receives : Nat]

Row == [entries : SUBSET Entry, state : [Property -> PropertyState],
        abort : BOOLEAN, messageId : MessageId \cup {NoId}]

\* What one evaluation decided: the states to store, whether it starts an
\* abort, the entries left when some were cleaned up, the delay and identity
\* of the next message (empty and NoId for none), the commands to publish.
Result == [state : [Property -> PropertyState], aborting : BOOLEAN,
           cleaned : BOOLEAN, entries : SUBSET Entry,
           next : SUBSET Nat, id : MessageId \cup {NoId},
           on : SUBSET Property, off : SUBSET Property]

NoMessage == [id |-> NoId, due |-> 0, sent |-> 0, retry |-> FALSE,
              receives |-> 0]

AllAbsent == [p \in Property |-> Absent]

NoResult == [state |-> AllAbsent, aborting |-> FALSE, cleaned |-> FALSE,
             entries |-> {}, next |-> {}, id |-> NoId, on |-> {}, off |-> {}]

RequestAt(at, id, began, entries) ==
  [pc |-> at, id |-> id, start |-> began, entries |-> entries,
   stored |-> FALSE, sent |-> FALSE]

NoRequest == RequestAt("idle", NoId, 0, {})

DoneRequest == RequestAt("done", NoId, 0, {})

Request == [pc : {"idle", "running", "done"}, id : MessageId \cup {NoId},
            start : Nat, entries : SUBSET Entry,
            stored : BOOLEAN, sent : BOOLEAN]

\* The ways in which a message that the row waits for can be gone.
Causes == {"dead letter", "failed request", "unawaited send",
           "second abort", "rest of batch", "restored entries"}

VARIABLES
  now,       \* time
  row,       \* the schedule row of the device
  prev,      \* the row before the last write, still readable
  queue,     \* messages in SQS, delayed or visible
  pc,        \* where each invocation of the handler is
  batch,     \* the messages each invocation was given
  msg,       \* Records[0], the one it looks at
  start,     \* the time it began, its Date.now()
  result,    \* what its evaluation decided
  client,    \* setSchedule requests
  reset,     \* abortScheduleOnReset calls
  failures,  \* invocations and requests failed so far
  \* Observations, read by no handler:
  commanded, \* the last value published to each property
  raced,     \* two evaluations overlapped, or one read a stale row
  lostOff,   \* properties whose setProperty(0) was stored, not published
  lost       \* messages that will never be handled, with the cause

rowVars == <<row, prev>>
handlerVars == <<pc, batch, msg, start, result>>
ghostVars == <<commanded, raced, lostOff, lost>>
vars == <<now, rowVars, queue, handlerVars, client, reset, failures, ghostVars>>

TypeOK ==
  /\ now \in Nat
  /\ row \in Row /\ prev \in Row
  /\ queue \subseteq Message
  /\ pc \in [Worker -> {"idle", "received", "evaluated", "sent", "stored"}]
  /\ batch \in [Worker -> SUBSET Message]
  /\ msg \in [Worker -> Message]
  /\ start \in [Worker -> Nat]
  /\ result \in [Worker -> Result]
  /\ client \in [Client -> Request]
  /\ reset \in [Reset -> Request]
  /\ failures \in Nat
  /\ commanded \in [Property -> BOOLEAN]
  /\ raced \in BOOLEAN
  /\ lostOff \subseteq Property
  /\ lost \subseteq Causes \X (MessageId \cup {NoId})

Init ==
  /\ now = 0
  /\ row = [entries |-> {}, state |-> AllAbsent, abort |-> FALSE,
            messageId |-> NoId]
  /\ prev = row
  /\ queue = {}
  /\ pc = [w \in Worker |-> "idle"]
  /\ batch = [w \in Worker |-> {}]
  /\ msg = [w \in Worker |-> NoMessage]
  /\ start = [w \in Worker |-> 0]
  /\ result = [w \in Worker |-> NoResult]
  /\ client = [c \in Client |-> NoRequest]
  /\ reset = [r \in Reset |-> NoRequest]
  /\ failures = 0
  /\ commanded = [p \in Property |-> FALSE]
  /\ raced = FALSE
  /\ lostOff = {}
  /\ lost = {}

------------------------------------------------------------------------------
(* The queue.                                                               *)

Ids(messages) == {m.id : m \in messages}

UsedIds ==
  {row.messageId, prev.messageId} \cup Ids(queue) \cup {l[2] : l \in lost}
    \cup (UNION {Ids(batch[w]) \cup {result[w].id} : w \in Worker})
    \cup {client[c].id : c \in Client} \cup {reset[r].id : r \in Reset}

\* generateMessageId: random, so different from every identity still around.
FreshIds == MessageId \ UsedIds

NewId == CHOOSE id \in FreshIds : TRUE

\* sendMessage: delays are whole seconds, at least one and at most 15 minutes.
Sent(id, delay, retry) ==
  [id |-> id, due |-> now + Larger(MinDelay, Smaller(MaxDelay, delay)),
   sent |-> now, retry |-> retry, receives |-> 0]

Visible == {m \in queue : m.due <= now}

\* SQS hands a batch to an idle invocation; it looks at Records[0] only.
Receive(w) ==
  /\ pc[w] = "idle"
  /\ \E records \in SUBSET Visible :
       /\ Cardinality(records) \in 1 .. BatchSize
       /\ \E first \in records : msg' = [msg EXCEPT ![w] = first]
       /\ batch' = [batch EXCEPT ![w] = records]
       /\ queue' = queue \ records
  /\ pc' = [pc EXCEPT ![w] = "received"]
  /\ start' = [start EXCEPT ![w] = now]
  /\ UNCHANGED <<now, rowVars, result, client, reset, failures, ghostVars>>

\* The invocation ends; its slot is free for another.
EndInvocation(w) ==
  /\ pc' = [pc EXCEPT ![w] = "idle"]
  /\ batch' = [batch EXCEPT ![w] = {}]
  /\ msg' = [msg EXCEPT ![w] = NoMessage]
  /\ start' = [start EXCEPT ![w] = 0]
  /\ result' = [result EXCEPT ![w] = NoResult]

\* The messages of the batch that a successful invocation never looked at:
\* SQS deletes them with the rest.
Unhandled(w) ==
  {<<"rest of batch", m.id>> : m \in batch[w] \ {msg[w]}}

Redelivery(m, due) ==
  [id |-> m.id, due |-> due, sent |-> m.sent, retry |-> m.retry,
   receives |-> m.receives + 1]

\* The invocation throws or times out: its messages become visible again, or
\* go to the dead letter queue when they were received too often.
ReturnBatch(w) ==
  LET again == {m \in batch[w] : m.receives + 1 < MaxReceiveCount}
  IN  /\ queue' = queue \cup
                    {Redelivery(m, start[w] + VisibilityTimeout) : m \in again}
      /\ lost' = lost \cup {<<"dead letter", m.id>> : m \in batch[w] \ again}

------------------------------------------------------------------------------
(* handleScheduleMessage.                                                   *)

\* Invocations that have evaluated and not ended yet.
Evaluating == {w \in Worker : pc[w] \in {"evaluated", "sent", "stored"}}

Decide(read, rep, t) ==
  LET first    == NewStates(read, rep, t)
      aborting == ~read.abort /\ TooManyExpired(first)
      acting   == [read EXCEPT !.abort = @ \/ aborting]
      states   == NewStates(acting, rep, t)
      kept     == KeptEntries(acting, t)
  IN  [tooMany |-> TooManyExpired(states),
       throws  |-> Throws(acting, states, t),
       result  |-> [state    |-> states,
                    aborting |-> aborting,
                    cleaned  |-> kept # acting.entries,
                    entries  |-> IF kept # acting.entries THEN kept ELSE {},
                    next     |-> NextEvaluation(acting, states, t),
                    id       |-> NoId,
                    on       |-> SwitchOn(acting, rep, t),
                    off      |-> SwitchOff(acting, rep, t)]]

\* The row still waits for this message: evaluate it.  When the evaluation
\* asks for an abort twice, the handler ends without storing or sending.
Evaluate(w) ==
  /\ pc[w] = "received"
  /\ \E read \in {row, prev}, rep \in [Property -> Reading] :
       /\ read.messageId = msg[w].id
       /\ LET decision == Decide(read, rep, start[w])
          IN  IF decision.tooMany
              THEN /\ EndInvocation(w)
                   /\ lost' = lost \cup Unhandled(w)
                        \cup {<<"second abort", msg[w].id>>}
                   /\ UNCHANGED <<queue, raced>>
              ELSE IF decision.throws
              THEN /\ EndInvocation(w)
                   /\ ReturnBatch(w)
                   /\ UNCHANGED raced
              ELSE /\ pc' = [pc EXCEPT ![w] = "evaluated"]
                   /\ result' = [result EXCEPT ![w] = decision.result]
                   /\ raced' = (raced \/ read # row \/ Evaluating # {})
                   /\ UNCHANGED <<queue, batch, msg, start, lost>>
  /\ UNCHANGED <<now, rowVars, client, reset, failures, commanded, lostOff>>

\* A mutant: a message that does not match is never sent again.
Superseded_NoRetry(w) ==
  /\ pc[w] = "received"
  /\ \E read \in {row, prev} : read.messageId # msg[w].id
  /\ lost' = lost \cup Unhandled(w)
  /\ EndInvocation(w)
  /\ UNCHANGED <<now, rowVars, queue, client, reset, failures, commanded,
                 raced, lostOff>>

\* The row waits for another message.  A young one may have overtaken the
\* update of the row, so it is sent once more; that send is not awaited, so
\* the environment may be frozen before it happens.
Superseded(w) ==
  /\ pc[w] = "received"
  /\ \E read \in {row, prev} : read.messageId # msg[w].id
  /\ IF ~msg[w].retry /\ start[w] - msg[w].sent < RetryDelay
     THEN \/ /\ queue' = queue \cup {Sent(msg[w].id, RetryDelay, TRUE)}
             /\ lost' = lost \cup Unhandled(w)
             /\ UNCHANGED failures
          \/ /\ failures < MaxFailures
             /\ failures' = failures + 1
             /\ lost' = lost \cup Unhandled(w)
                          \cup {<<"unawaited send", msg[w].id>>}
             /\ UNCHANGED queue
     ELSE /\ lost' = lost \cup Unhandled(w)
          /\ UNCHANGED <<queue, failures>>
  /\ EndInvocation(w)
  /\ UNCHANGED <<now, rowVars, client, reset, commanded, raced, lostOff>>

\* The next message is sent, and awaited, before the row is updated.
SendNext(w) ==
  /\ pc[w] = "evaluated"
  /\ FreshIds # {}
  /\ \E delay \in result[w].next :
       /\ queue' = queue \cup {Sent(NewId, delay, FALSE)}
       /\ result' = [result EXCEPT ![w].id = NewId]
  /\ pc' = [pc EXCEPT ![w] = "sent"]
  /\ UNCHANGED <<now, rowVars, batch, msg, start, client, reset, failures,
                 ghostVars>>

\* store.updateSchedule: writes the fields it is given, whatever the row now
\* holds.  Entries a client removed since this evaluation read the row come
\* back with the cleaned up ones; when it sent no message, the one the row
\* waits for may have been handled already.
UpdateSchedule(w) ==
  /\ \/ pc[w] = "sent"
     \/ pc[w] = "evaluated" /\ result[w].next = {}
  /\ row' = [entries   |-> IF result[w].cleaned THEN result[w].entries
                           ELSE row.entries,
             state     |-> result[w].state,
             abort     |-> row.abort \/ result[w].aborting,
             messageId |-> IF result[w].next # {} THEN result[w].id
                           ELSE row.messageId]
  /\ prev' = row
  /\ pc' = [pc EXCEPT ![w] = "stored"]
  /\ lost' = IF result[w].next = {} /\ ~(row'.entries \subseteq row.entries)
             THEN lost \cup {<<"restored entries", row.messageId>>}
             ELSE lost
  /\ UNCHANGED <<now, queue, batch, msg, start, result, client, reset,
                 failures, commanded, raced, lostOff>>

\* A mutant: one publication settles all of them (any instead of all).
WithoutCommand_Any(decided, p) == [decided EXCEPT !.on = {}, !.off = {}]

WithoutCommand(decided, p) ==
  [state |-> decided.state, aborting |-> decided.aborting,
   cleaned |-> decided.cleaned, entries |-> decided.entries,
   next |-> decided.next, id |-> decided.id,
   on |-> decided.on \ {p}, off |-> decided.off \ {p}]

\* A mutant: commands are published before the row is updated.
Publish_BeforeStore(w, p) ==
  /\ pc[w] \in {"evaluated", "sent", "stored"}
  /\ p \in result[w].on \cup result[w].off
  /\ commanded' = [commanded EXCEPT ![p] = p \in result[w].on]
  /\ lostOff' = lostOff \ {p}
  /\ result' = [result EXCEPT ![w] = WithoutCommand(@, p)]
  /\ UNCHANGED <<now, rowVars, queue, pc, batch, msg, start, client, reset,
                 failures, raced, lost>>

\* One of the concurrent setProperty publications goes through.
Publish(w, p) ==
  /\ pc[w] = "stored"
  /\ p \in result[w].on \cup result[w].off
  /\ commanded' = [commanded EXCEPT ![p] = p \in result[w].on]
  /\ lostOff' = lostOff \ {p}
  /\ result' = [result EXCEPT ![w] = WithoutCommand(@, p)]
  /\ UNCHANGED <<now, rowVars, queue, pc, batch, msg, start, client, reset,
                 failures, raced, lost>>

\* All publications done: the invocation succeeds, its batch is deleted.
Finish(w) ==
  /\ pc[w] = "stored"
  /\ result[w].on \cup result[w].off = {}
  /\ EndInvocation(w)
  /\ lost' = lost \cup Unhandled(w)
  /\ UNCHANGED <<now, rowVars, queue, client, reset, failures, commanded,
                 raced, lostOff>>

Fail(w) ==
  /\ pc[w] # "idle"
  /\ failures < MaxFailures
  /\ failures' = failures + 1
  /\ lostOff' = IF pc[w] = "stored" THEN lostOff \cup result[w].off
                ELSE lostOff
  /\ ReturnBatch(w)
  /\ EndInvocation(w)
  /\ UNCHANGED <<now, rowVars, client, reset, commanded, raced>>

------------------------------------------------------------------------------
(* device/setSchedule: the row update and the message are issued together.  *)

SetSchedule(c) ==
  /\ client[c].pc = "idle"
  /\ FreshIds # {}
  /\ \E entries \in Schedules :
       client' = [client EXCEPT ![c] =
                    RequestAt("running", NewId, now, entries)]
  /\ UNCHANGED <<now, rowVars, queue, handlerVars, reset, failures, ghostVars>>

\* Mutants: a new schedule forgets the stored states; it keeps the message
\* the row waits for.
StoreEntries_NoState(c) ==
  /\ client[c].pc = "running" /\ ~client[c].stored
  /\ row' = [entries |-> client[c].entries, state |-> AllAbsent,
             abort |-> FALSE, messageId |-> client[c].id]
  /\ prev' = row
  /\ client' = [client EXCEPT ![c].stored = TRUE]
  /\ UNCHANGED <<now, queue, handlerVars, reset, failures, ghostVars>>

StoreEntries_SameId(c) ==
  /\ client[c].pc = "running" /\ ~client[c].stored
  /\ row' = [entries |-> client[c].entries, state |-> row.state,
             abort |-> FALSE, messageId |-> row.messageId]
  /\ prev' = row
  /\ client' = [client EXCEPT ![c].stored = TRUE]
  /\ UNCHANGED <<now, queue, handlerVars, reset, failures, ghostVars>>

StoreEntries(c) ==
  /\ client[c].pc = "running" /\ ~client[c].stored
  /\ row' = [entries |-> client[c].entries, state |-> row.state,
             abort |-> FALSE, messageId |-> client[c].id]
  /\ prev' = row
  /\ client' = [client EXCEPT ![c].stored = TRUE]
  /\ UNCHANGED <<now, queue, handlerVars, reset, failures, ghostVars>>

SendEvaluate(c) ==
  /\ client[c].pc = "running" /\ ~client[c].sent
  /\ queue' = queue \cup {Sent(client[c].id, MinDelay, FALSE)}
  /\ client' = [client EXCEPT ![c].sent = TRUE]
  /\ UNCHANGED <<now, rowVars, handlerVars, reset, failures, ghostVars>>

Respond(c) ==
  /\ client[c].pc = "running" /\ client[c].stored /\ client[c].sent
  /\ client' = [client EXCEPT ![c] = DoneRequest]
  /\ UNCHANGED <<now, rowVars, queue, handlerVars, reset, failures, ghostVars>>

\* The request fails between its steps; the client is told so.
FailRequest(c) ==
  /\ client[c].pc = "running"
  /\ failures < MaxFailures
  /\ failures' = failures + 1
  /\ client' = [client EXCEPT ![c] = DoneRequest]
  /\ lost' = IF client[c].stored /\ ~client[c].sent
             THEN lost \cup {<<"failed request", client[c].id>>}
             ELSE lost
  /\ UNCHANGED <<now, rowVars, queue, handlerVars, reset, commanded, raced,
                 lostOff>>

------------------------------------------------------------------------------
(* abortScheduleOnReset: read, send, then update, for a schedule that is     *)
(* doing something.                                                          *)

ReadOnReset(r) ==
  /\ reset[r].pc = "idle"
  /\ \E read \in {row, prev} :
       IF \E p \in Property : IsTracked(read.state[p])
       THEN /\ FreshIds # {}
            /\ reset' = [reset EXCEPT ![r] =
                           RequestAt("running", NewId, now, {})]
       ELSE reset' = [reset EXCEPT ![r] = DoneRequest]
  /\ UNCHANGED <<now, rowVars, queue, handlerVars, client, failures, ghostVars>>

SendAbort(r) ==
  /\ reset[r].pc = "running" /\ ~reset[r].sent
  /\ queue' = queue \cup {Sent(reset[r].id, 0, FALSE)}
  /\ reset' = [reset EXCEPT ![r].sent = TRUE]
  /\ UNCHANGED <<now, rowVars, handlerVars, client, failures, ghostVars>>

StoreAbort(r) ==
  /\ reset[r].pc = "running" /\ reset[r].sent
  /\ row' = [entries |-> row.entries, state |-> row.state,
             abort |-> TRUE, messageId |-> reset[r].id]
  /\ prev' = row
  /\ reset' = [reset EXCEPT ![r] = DoneRequest]
  /\ UNCHANGED <<now, queue, handlerVars, client, failures, ghostVars>>

\* Errors are only logged: the abort does not happen.
FailReset(r) ==
  /\ reset[r].pc = "running"
  /\ failures < MaxFailures
  /\ failures' = failures + 1
  /\ reset' = [reset EXCEPT ![r] = DoneRequest]
  /\ UNCHANGED <<now, rowVars, queue, handlerVars, client, ghostVars>>

------------------------------------------------------------------------------
(* Time: nothing runs longer than LambdaTimeout, no message waits longer     *)
(* than DeliveryLatency, and a write can be missed by reads for less than    *)
(* one unit.                                                                 *)

InTime(began) == now + 1 <= began + LambdaTimeout

Tick ==
  /\ now < MaxTime
  /\ \A w \in Worker : pc[w] # "idle" => InTime(start[w])
  /\ \A c \in Client : client[c].pc = "running" => InTime(client[c].start)
  /\ \A r \in Reset : reset[r].pc = "running" => InTime(reset[r].start)
  /\ \A m \in queue : now + 1 <= m.due + DeliveryLatency
  /\ now' = now + 1
  /\ prev' = row
  /\ UNCHANGED <<row, queue, handlerVars, client, reset, failures, ghostVars>>

\* The horizon of the model: time stops.
Horizon == now = MaxTime /\ UNCHANGED vars

Handler(w) ==
  \/ Receive(w) \/ Evaluate(w) \/ Superseded(w) \/ SendNext(w)
  \/ UpdateSchedule(w) \/ (\E p \in Property : Publish(w, p)) \/ Finish(w)

ClientStep(c) == StoreEntries(c) \/ SendEvaluate(c) \/ Respond(c)

ResetStep(r) == SendAbort(r) \/ StoreAbort(r)

Next ==
  \/ \E w \in Worker : Handler(w) \/ Fail(w)
  \/ \E c \in Client : SetSchedule(c) \/ ClientStep(c) \/ FailRequest(c)
  \/ \E r \in Reset : ReadOnReset(r) \/ ResetStep(r) \/ FailReset(r)
  \/ Tick
  \/ Horizon

Spec == Init /\ [][Next]_vars

\* Lambda and SQS make progress; nobody has to ask for a schedule or reset.
Fairness ==
  /\ \A w \in Worker : WF_vars(Handler(w))
  /\ \A c \in Client : WF_vars(ClientStep(c))
  /\ \A r \in Reset : WF_vars(ResetStep(r))
  /\ WF_vars(Tick)

FairSpec == Spec /\ Fairness

------------------------------------------------------------------------------
(* Properties.                                                              *)

\* There is something left to do: a property that was changed and is not
\* back to rest, or an entry that has not ended.
NeedsEvaluation ==
  \/ \E p \in Property : IsTracked(row.state[p])
  \/ ~row.abort /\ \E e \in row.entries : e.end > now

\* Identities some message, invocation or request will still bring.
Carried ==
  Ids(queue) \cup (UNION {Ids(batch[w]) : w \in Worker})
    \cup {client[c].id : c \in {d \in Client : ~client[d].sent}}

LostTo(causes) == \E cause \in causes : <<cause, row.messageId>> \in lost

\* The chain of evaluations never breaks while there is something left to do:
\* the message the row waits for is on its way or being handled, whatever
\* requests, aborts, failures and redeliveries came between.  It may only
\* have been dead-lettered, never sent by a failed setSchedule, lost in the
\* send of a mismatch that nobody awaits, or handled before an overlapping
\* evaluation brought removed entries back.
ChainAlive ==
  NeedsEvaluation =>
    row.messageId \in Carried
      \/ LostTo({"dead letter", "failed request", "unawaited send",
                 "restored entries"})

\* A change that has not been seen to take effect is looked at again soon:
\* the message the row waits for is due within the longest of the delays for
\* pending changes, retries and redeliveries, never at the next entry.
PendingSoon ==
  AnyPending(row.state) =>
    \/ \E m \in queue \cup UNION {batch[w] : w \in Worker} :
         /\ m.id = row.messageId
         /\ m.due <= now + Larger(EvaluateDelay,
                                 Larger(RetryDelay, VisibilityTimeout))
    \/ \E c \in Client : client[c].id = row.messageId /\ ~client[c].sent
    \/ LostTo(Causes)

\* A property that was last told to switch on is in the stored state, so some
\* evaluation will switch it off again.  The exceptions are the two this
\* design has: evaluations that overlapped, and a setProperty(0) whose
\* invocation failed after it was stored.
Tracked ==
  ~raced => \A p \in Property :
              commanded[p] /\ p \notin lostOff => IsTracked(row.state[p])

\* The same without the exception for overlapping evaluations: no property
\* update is ever untracked.
AlwaysTracked ==
  \A p \in Property :
    commanded[p] /\ p \notin lostOff => IsTracked(row.state[p])

\* An evaluation never finds "expected empty property schedule state", now or
\* after an abort, whatever the device reports.
NeverThrows ==
  \A rep \in [Property -> Reading] : ~Decide(row, rep, now).throws

\* An abort does not stop the evaluations: nothing is lost because an
\* evaluation of an aborted schedule asks for an abort.
AbortKeepsEvaluating == ~LostTo({"second abort"}) \/ ~NeedsEvaluation

\* Every message SQS delivers is looked at.
BatchHandled == ~LostTo({"rest of batch"}) \/ ~NeedsEvaluation

\* Evaluations only ever remove entries: what a client took out of the
\* schedule does not come back.
OnlyClientsAddEntries ==
  [][row'.entries \subseteq row.entries
       \/ \E c \in Client : client'[c].stored /\ ~client[c].stored]_row

\* Where a stored state is in the lifecycle of ScheduleLifecycle.
PhaseOf(s) ==
  IF s.set THEN IF s.seen THEN "open" ELSE "opening"
  ELSE IF s.seen THEN "closing" ELSE "rest"

Lifecycle ==
  INSTANCE ScheduleLifecycle
    WITH phase <- [p \in Property |-> PhaseOf(row.state[p])]

\* Until evaluations overlap, every step of the system is a step of the
\* lifecycle: no failure, redelivery, abort or new schedule makes it skip the
\* closing of a property or publish a command against its phase.
FollowsLifecycle ==
  [][raced' \/ Lifecycle!Next]_<<row.state, commanded>>

\* Where the stored state of a property is headed: what invocation w decided
\* moves it along the lifecycle, and publishes what fits its new phase.
DecisionFits(w, p) ==
  LET old == row.state[p]
      new == result[w].state[p]
  IN  /\ pc[w] \in {"evaluated", "sent"} =>
           /\ \/ PhaseOf(new) = PhaseOf(old)
              \/ <<PhaseOf(old), PhaseOf(new)>> \in Lifecycle!Moves
           /\ p \in result[w].on => PhaseOf(new) = "opening"
           /\ p \in result[w].off => ~new.set
           /\ old.set /\ ~new.set => p \in result[w].off /\ new.seen
      /\ pc[w] = "stored" =>
           /\ p \in result[w].on => PhaseOf(old) = "opening"
           /\ p \in result[w].off => ~old.set

\* A property told to switch on is stored as set, or an invocation that has
\* stored its closing is about to tell it so.
SwitchedOnIsKnown(p) ==
  commanded[p] /\ p \notin lostOff =>
    \/ row.state[p].set
    \/ \E w \in Worker :
         pc[w] = "stored" /\ p \in result[w].off /\ row.state[p].seen

\* The inductive invariant behind Tracked and FollowsLifecycle: until
\* evaluations overlap there is one at a time, and the commands it has not
\* published yet agree with the row.
OneEvaluation ==
  ~raced =>
    /\ \A v, w \in Evaluating : v = w
    /\ \A w \in Worker, p \in Property : DecisionFits(w, p)
    /\ \A p \in Property : SwitchedOnIsKnown(p)

\* When invocations end before the shortest SQS delay has passed, evaluations
\* never overlap and the scheduler implements the lifecycle.
ImplementsLifecycle == Lifecycle!Spec

\* An abort ends, unless a client sets a schedule again: its properties are
\* seen off or given up after AbortTimeLimit, whatever the devices report.
\* Only aborts early enough before the horizon are considered.  With more properties than
\* ExpiredLimit the failed ones ask for an abort a second time, which throws.
AbortSettles ==
  (/\ row.abort
   /\ Cardinality(Property) <= ExpiredLimit
   /\ now + MaxDelay + VisibilityTimeout + AbortTimeLimit + 2 * EvaluateDelay
        < MaxTime)
    ~> (~row.abort \/ row.state = AllAbsent)

==============================================================================
