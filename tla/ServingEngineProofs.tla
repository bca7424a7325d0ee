------------------------ MODULE ServingEngineProofs ------------------------
(***************************************************************************)
(* Proofs about ServingEngine, for every value of its constants.           *)
(***************************************************************************)
EXTENDS ServingEngine, FiniteSets, FiniteSetTheorems, TLAPS

(***************************************************************************)
(* Contains and IsInjective through Append and Tail: what the proofs need  *)
(* to know about the queue and the batch.                                  *)
(***************************************************************************)
LEMMA ContainsAppend ==
  ASSUME NEW S, NEW q \in Seq(S), NEW x \in S, NEW y
  PROVE  Contains(Append(q, x), y) <=> Contains(q, y) \/ y = x
  BY DEF Contains

LEMMA ContainsTail ==
  ASSUME NEW S, NEW q \in Seq(S), q # <<>>, NEW y
  PROVE  Contains(q, y) <=> Contains(Tail(q), y) \/ y = Head(q)
  BY DEF Contains

LEMMA InjectiveAppend ==
  ASSUME NEW S, NEW q \in Seq(S), NEW x \in S, IsInjective(q), ~Contains(q, x)
  PROVE  IsInjective(Append(q, x))
  BY DEF IsInjective, Contains

LEMMA InjectiveTail ==
  ASSUME NEW S, NEW q \in Seq(S), q # <<>>, IsInjective(q)
  PROVE  IsInjective(Tail(q)) /\ ~Contains(Tail(q), Head(q))
  BY DEF IsInjective, Contains

-----------------------------------------------------------------------------
(***************************************************************************)
(* Appending to one queue of a family, whether or not the index is known   *)
(* to be one of the family's.                                              *)
(***************************************************************************)
LEMMA AppendTyped ==
  ASSUME NEW S, NEW E, NEW f \in [S -> Seq(E)], NEW x, NEW e \in E
  PROVE  [f EXCEPT ![x] = Append(@, e)] \in [S -> Seq(E)]
<1>1. CASE x \in S  BY <1>1
<1>2. CASE x \notin S  BY <1>2
<1> QED  BY <1>1, <1>2

LEMMA TailTyped ==
  ASSUME NEW E, NEW q \in Seq(E), q # <<>>
  PROVE  Head(q) \in E /\ Tail(q) \in Seq(E)
  OBVIOUS

-----------------------------------------------------------------------------
(***************************************************************************)
(* Every variable keeps its type.                                          *)
(***************************************************************************)
HandShape == worker = "requeue" <=> held # Nothing
TypeInv == TypeOK /\ HandShape

LEMMA TypeInit == Init => TypeInv
<1> SUFFICES ASSUME Init PROVE TypeInv
  OBVIOUS
<1>1. <<>> \in Seq(Items) /\ <<>> \in Seq(Requests) /\ <<>> \in Seq(Event)
  OBVIOUS
<1>2. events \in [Requests -> Seq(Event)]
  BY <1>1 DEF Init
<1>3. emitted \in [Requests -> 0..MaxEvents]
  BY ConstantsAssumption DEF Init
<1> QED  BY <1>1, <1>2, <1>3 DEF Init, TypeInv, HandShape, TypeOK, HandlerStates, WorkerStates

LEMMA HandlerTyped ==
  ASSUME TypeOK, NEW r \in Requests, Handler(r)
  PROVE  TypeOK'
<1> USE DEF TypeOK, HandlerStates, answer
<1>1. CASE Admit(r)  BY <1>1 DEF Admit
<1>2. CASE Enqueue(r)
  <2>1. r \in Items /\ Append(queue, r) \in Seq(Items)
    BY DEF Items
  <2> QED  BY <1>2, <2>1 DEF Enqueue
<1>3. CASE TakeResult(r)  BY <1>3 DEF TakeResult
<1>4. CASE TakeEvent(r)
  <2>1. events' \in [Requests -> Seq(Event)]
    BY <1>4, TailTyped DEF TakeEvent
  <2>2. /\ handler' \in [Requests -> HandlerStates]
        /\ sawDone' \in [Requests -> BOOLEAN]
    BY <1>4 DEF TakeEvent
  <2>3. gone' \in [Requests -> BOOLEAN]
    BY <1>4, Zenon DEF TakeEvent
  <2> QED  BY <1>4, <2>1, <2>2, <2>3 DEF TakeEvent
<1>5. CASE HandlerRaises(r)
  <2>1. events' \in [Requests -> Seq(Event)]
    BY <1>5, TailTyped DEF HandlerRaises
  <2> QED  BY <1>5, <2>1 DEF HandlerRaises
<1> QED  BY <1>1, <1>2, <1>3, <1>4, <1>5 DEF Handler, Consume

LEMMA WorkerTyped ==
  ASSUME TypeOK, HandShape, Worker
  PROVE  TypeOK'
<1> USE DEF TypeOK, WorkerStates, client, answer
<1>1. CASE GetShutdown
  BY <1>1, TailTyped DEF GetShutdown
<1>2. CASE GetRequest
  <2>1. Head(queue) \in Requests /\ Tail(queue) \in Seq(Items)
    BY <1>2, TailTyped DEF GetRequest, Items
  <2>2. <<Head(queue)>> \in Seq(Requests)
    BY <2>1
  <2> QED  BY <1>2, <2>1, <2>2 DEF GetRequest
<1>3. CASE CollectJoin
  <2>1. Head(queue) \in Requests /\ Tail(queue) \in Seq(Items)
    BY <1>3, TailTyped DEF CollectJoin, Joins, Items
  <2>2. Append(batch, Head(queue)) \in Seq(Requests)
    BY <2>1
  <2> QED  BY <1>3, <2>1, <2>2 DEF CollectJoin
<1>4. CASE CollectReject
  BY <1>4, TailTyped DEF CollectReject
<1>5. CASE Requeue
  <2>1. held \in Items
    BY <1>5 DEF Requeue, HandShape
  <2>2. Append(queue, held) \in Seq(Items)
    BY <2>1
  <2> QED  BY <1>5, <2>2 DEF Requeue
<1>6. CASE CollectEnd
  BY <1>6 DEF CollectEnd
<1>7. CASE RunSucceeds
  <2>1. \A r \in Requests : Serving(r) =>
          batch[CHOOSE i \in 1..Len(batch) : batch[i] = r] = r
    BY DEF Serving, Contains
  <2>2. outcome' \in [Requests -> Requests \cup {"none", "EXC"}]
    BY <1>7, <2>1 DEF RunSucceeds, RunResults
  <2>3. done' \in [Requests -> BOOLEAN]
    BY <1>7, Zenon DEF RunSucceeds
  <2>4. <<>> \in Seq(Requests)
    OBVIOUS
  <2> QED  BY <1>7, <2>2, <2>3, <2>4 DEF RunSucceeds
<1>8. CASE RunFails
  <2>1. events' \in [Requests -> Seq(Event)]
    BY <1>8 DEF RunFails, Event
  <2>2. done' \in [Requests -> BOOLEAN]
    BY <1>8, Zenon DEF RunFails
  <2> QED  BY <1>8, <2>1, <2>2 DEF RunFails
<1>9. CASE StreamToken
  <2>1. events' = [events EXCEPT ![batch[1]] = Append(@, "token")]
    BY <1>9 DEF StreamToken
  <2>2. "token" \in Event
    BY DEF Event
  <2>3. events' \in [Requests -> Seq(Event)]
    BY <2>1, <2>2, AppendTyped
  <2>4. emitted' \in [Requests -> 0..MaxEvents]
    <3> DEFINE r == batch[1]
    <3>1. emitted[r] < MaxEvents /\ emitted' = [emitted EXCEPT ![r] = @ + 1]
      BY <1>9 DEF StreamToken
    <3> HIDE DEF r
    <3>2. CASE r \in Requests
      <4>1. emitted[r] + 1 \in 0..MaxEvents
        BY <3>1, <3>2, ConstantsAssumption
      <4> QED  BY <3>1, <4>1
    <3>3. CASE r \notin Requests
      BY <3>1, <3>3
    <3> QED  BY <3>2, <3>3
  <2> QED  BY <1>9, <2>3, <2>4 DEF StreamToken
<1>10. CASE StreamDone
  <2>1. events' = [events EXCEPT ![batch[1]] = Append(@, "done")]
    BY <1>10 DEF StreamDone
  <2>2. "done" \in Event
    BY DEF Event
  <2>3. events' \in [Requests -> Seq(Event)]
    BY <2>1, <2>2, AppendTyped
  <2> QED  BY <1>10, <2>3 DEF StreamDone
<1>11. CASE StreamClose
  <2>1. events' = [events EXCEPT ![batch[1]] = Append(@, "END")]
    BY <1>11 DEF StreamClose
  <2>2. "END" \in Event
    BY DEF Event
  <2>3. events' \in [Requests -> Seq(Event)]
    BY <2>1, <2>2, AppendTyped
  <2>4. outcome' \in [Requests -> Requests \cup {"none", "EXC"}]
    BY <1>11 DEF StreamClose
  <2> QED  BY <1>11, <2>3, <2>4 DEF StreamClose
<1>12. CASE StreamFails
  BY <1>12 DEF StreamFails
<1>13. CASE StreamRaise
  <2>1. events' = [events EXCEPT ![batch[1]] = Append(@, "EXC")]
    BY <1>13 DEF StreamRaise
  <2>2. "EXC" \in Event
    BY DEF Event
  <2>3. events' \in [Requests -> Seq(Event)]
    BY <2>1, <2>2, AppendTyped
  <2> QED  BY <1>13, <2>3 DEF StreamRaise
<1> QED  BY <1>1, <1>2, <1>3, <1>4, <1>5, <1>6, <1>7, <1>8, <1>9, <1>10,
            <1>11, <1>12, <1>13 DEF Worker

LEMMA CloserTyped ==
  ASSUME TypeOK, Closer
  PROVE  TypeOK'
<1> USE DEF TypeOK, client, answer
<1>1. CASE CloseFlag  BY <1>1 DEF CloseFlag
<1>2. CASE ClosePut
  <2>1. Append(queue, Shutdown) \in Seq(Items)
    BY DEF Items
  <2> QED  BY <1>2, <2>1 DEF ClosePut
<1>3. CASE CloseJoin  BY <1>3 DEF CloseJoin
<1> QED  BY <1>1, <1>2, <1>3 DEF Closer

LEMMA HandStep == TypeInv /\ [Next]_vars => HandShape'
<1> SUFFICES ASSUME TypeInv, [Next]_vars PROVE HandShape'
  OBVIOUS
<1> USE DEF TypeInv, HandShape
<1>1. CASE CollectReject
  <2>1. Head(queue) \in Items
    BY <1>1, TailTyped DEF CollectReject, TypeOK
  <2> QED  BY <1>1, <2>1, ConstantsAssumption DEF CollectReject
<1>2. CASE Worker /\ ~CollectReject
  BY <1>2 DEF Worker, GetShutdown, GetRequest, CollectJoin, Requeue,
    CollectEnd, RunSucceeds, RunFails, StreamToken, StreamDone, StreamClose,
    StreamFails, StreamRaise
<1>3. ASSUME NEW r \in Requests, Handler(r) PROVE worker' = worker /\ held' = held
  BY <1>3 DEF Handler, Admit, Enqueue, Consume, TakeResult, TakeEvent, HandlerRaises
<1>4. CASE Closer
  BY <1>4 DEF Closer, CloseFlag, ClosePut, CloseJoin
<1>5. CASE UNCHANGED vars
  BY <1>5 DEF vars
<1> QED  BY <1>1, <1>2, <1>3, <1>4, <1>5 DEF Next

LEMMA TypeStep == TypeInv /\ [Next]_vars => TypeInv'
<1> SUFFICES ASSUME TypeInv, [Next]_vars PROVE TypeOK'
  BY HandStep DEF TypeInv
<1>1. CASE UNCHANGED vars
  BY <1>1 DEF vars, TypeInv, TypeOK
<1> QED  BY <1>1, HandlerTyped, WorkerTyped, CloserTyped DEF Next, TypeInv

(***************************************************************************)
(* Every variable of the engine keeps its type, whatever the threads do.   *)
(* The strengthening is that the worker's hand is empty except between     *)
(* taking a candidate off the queue and putting it back.                   *)
(***************************************************************************)
THEOREM TypeCorrect == Spec => []TypeOK
<1>1. TypeInv => TypeOK
  BY DEF TypeInv
<1> QED  BY <1>1, TypeInit, TypeStep, PTL DEF Spec

-----------------------------------------------------------------------------
(***************************************************************************)
(* Custody: where the accepted requests without an answer are.             *)
(*                                                                         *)
(* Conservation is not inductive by itself.  It needs to know that the     *)
(* worker starts a batch with nothing in it and that a stream is a batch   *)
(* of one; that the sentinel is put once; and that only accepted requests  *)
(* have answers.                                                           *)
(***************************************************************************)
BatchShape ==
  /\ worker \in {"get", "stopped"} => batch = <<>>
  /\ worker \in {"stream", "finish", "raise"} => Len(batch) = 1
SentinelShape ==
  Queued(Shutdown) \/ held = Shutdown => closer \in {"joining", "joined"}
DoneShape == \A r \in Requests : done[r] => Accepted(r)
Custody == TypeInv /\ BatchShape /\ SentinelShape /\ DoneShape /\ Conservation

LEMMA ItemsFacts ==
  /\ Shutdown \in Items /\ Shutdown \notin Requests /\ Nothing \notin Items
  /\ \A r \in Requests : r \in Items /\ r # Shutdown /\ r # Nothing
  BY ConstantsAssumption DEF Items

\* What Contains and IsInjective say of the empty sequence and of singletons.
LEMMA ContainsShort ==
  /\ IsInjective(<<>>)
  /\ \A y : ~Contains(<<>>, y)
  /\ \A x, y : Contains(<<x>>, y) <=> y = x
  /\ \A x : IsInjective(<<x>>)
  BY DEF Contains, IsInjective

\* A batch of one request holds that request and no other.
LEMMA ServingOne ==
  ASSUME TypeOK, Len(batch) = 1
  PROVE  batch[1] \in Requests /\ \A r : Serving(r) <=> r = batch[1]
<1>1. batch \in Seq(Requests)
  BY DEF TypeOK
<1>2. batch[1] \in Requests
  BY <1>1
<1>3. ASSUME NEW r PROVE Serving(r) <=> \E i \in 1..1 : batch[i] = r
  BY DEF Serving, Contains
<1>4. ASSUME NEW r PROVE Serving(r) <=> r = batch[1]
  BY <1>3
<1> QED  BY <1>2, <1>4

LEMMA CustodyInit == Init => Custody
<1> SUFFICES ASSUME Init PROVE Custody
  OBVIOUS
<1>1. TypeInv
  BY TypeInit
<1>2. BatchShape /\ DoneShape
  BY DEF Init, BatchShape, DoneShape
<1>3. \A r : ~Queued(r) /\ ~Serving(r)
  BY ContainsShort DEF Init, Queued, Serving
<1>4. held = Nothing
  BY DEF Init
<1>5. SentinelShape
  BY <1>3, <1>4, ItemsFacts DEF SentinelShape
<1>6. NoneLost /\ NoneStale
  BY <1>3, <1>4, ItemsFacts DEF Init, NoneLost, NoneStale, Pending, Accepted
<1>7. OnePlace
  BY <1>3, <1>4, ItemsFacts, ContainsShort DEF Init, OnePlace
<1> QED  BY <1>1, <1>2, <1>5, <1>6, <1>7 DEF Custody, Conservation

(***************************************************************************)
(* A step that leaves the queue, the batch, the hand and the answers alone *)
(* and that only moves handlers between accepted, or between unaccepted,   *)
(* states keeps Conservation.                                              *)
(***************************************************************************)
LEMMA CustodyKept ==
  ASSUME Custody, TypeInv', UNCHANGED <<closer, queue, worker, batch, held, done>>,
         \A r \in Requests : Accepted(r)' <=> Accepted(r)
  PROVE  Custody'
<1>1. \A r : (Queued(r)' <=> Queued(r)) /\ (Serving(r)' <=> Serving(r))
  BY DEF Queued, Serving
<1>2. BatchShape' /\ SentinelShape' /\ DoneShape'
  BY <1>1 DEF Custody, BatchShape, SentinelShape, DoneShape
<1>3. NoneLost' /\ NoneStale'
  BY <1>1 DEF Custody, Conservation, NoneLost, NoneStale, Pending
<1>4. OnePlace'
  BY <1>1 DEF Custody, Conservation, OnePlace
<1> QED  BY <1>2, <1>3, <1>4 DEF Custody, Conservation

LEMMA CustodyEnqueue ==
  ASSUME Custody, TypeInv', NEW r \in Requests, Enqueue(r)
  PROVE  Custody'
<1>1. CASE ~HasRoom(queue, MaxQueue)
  <2>1. \A s \in Requests : Accepted(s)' <=> Accepted(s)
    BY <1>1 DEF Enqueue, Custody, TypeInv, TypeOK, Accepted
  <2>2. UNCHANGED <<closer, queue, worker, batch, held, done>>
    BY <1>1 DEF Enqueue, answer
  <2> QED  BY <2>1, <2>2, CustodyKept
<1>2. CASE HasRoom(queue, MaxQueue)
  <2>1. /\ queue' = Append(queue, r)
        /\ UNCHANGED <<closer, worker, batch, held, done>>
        /\ ~Accepted(r)
    BY <1>2 DEF Enqueue, answer, Accepted
  <2>2. \A s \in Requests : Accepted(s)' <=> Accepted(s) \/ s = r
    BY <1>2 DEF Enqueue, Custody, TypeInv, TypeOK, Accepted
  <2>3. queue \in Seq(Items) /\ r \in Items /\ r # Shutdown
    BY ItemsFacts DEF Custody, TypeInv, TypeOK
  <2>4. /\ \A y : Queued(y)' <=> Queued(y) \/ y = r
        /\ \A y : Serving(y)' <=> Serving(y)
    BY <2>1, <2>3, ContainsAppend DEF Queued, Serving
  <2>5. ~Queued(r) /\ held # r /\ ~Serving(r) /\ ~done[r]
    BY <2>1 DEF Custody, Conservation, NoneStale, Pending, DoneShape
  <2>6. BatchShape' /\ SentinelShape' /\ DoneShape'
    BY <2>1, <2>2, <2>3, <2>4 DEF Custody, BatchShape, SentinelShape, DoneShape
  <2>7. NoneLost' /\ NoneStale'
    BY <2>1, <2>2, <2>4, <2>5 DEF Custody, Conservation, NoneLost, NoneStale, Pending
  <2>8. IsInjective(queue')
    BY <2>1, <2>3, <2>5, InjectiveAppend DEF Custody, Conservation, OnePlace, Queued
  <2>9. OnePlace'
    BY <2>1, <2>3, <2>4, <2>5, <2>8 DEF Custody, Conservation, OnePlace
  <2> QED  BY <2>6, <2>7, <2>9 DEF Custody, Conservation
<1> QED  BY <1>1, <1>2

LEMMA CustodyHandler ==
  ASSUME Custody, TypeInv', NEW r \in Requests, Handler(r)
  PROVE  Custody'
<1>1. CASE Enqueue(r)
  BY <1>1, CustodyEnqueue
<1>2. CASE Admit(r) \/ Consume(r) \/ HandlerRaises(r)
  <2>1. UNCHANGED <<closer, queue, worker, batch, held, done>>
    BY <1>2 DEF Admit, Consume, TakeResult, TakeEvent, HandlerRaises, answer
  <2>2. CASE Admit(r)
    <3>1. \A s \in Requests : Accepted(s)' <=> Accepted(s)
      BY <2>2 DEF Admit, Custody, TypeInv, TypeOK, Accepted
    <3> QED  BY <2>1, <3>1, CustodyKept
  <2>3. CASE Consume(r) \/ HandlerRaises(r)
    <3>1. /\ handler \in [Requests -> HandlerStates]
          /\ Accepted(r)
          /\ \/ handler' = handler
             \/ \E place \in {"answered", "failed", "abandoned"} :
                  handler' = [handler EXCEPT ![r] = place]
      BY <2>3 DEF Consume, TakeResult, TakeEvent, HandlerRaises,
                  Custody, TypeInv, TypeOK, Accepted
    <3>2. \A s \in Requests : Accepted(s)' <=> Accepted(s)
      BY <3>1 DEF Accepted
    <3> QED  BY <2>1, <3>2, CustodyKept
  <2> QED  BY <1>2, <2>2, <2>3
<1> QED  BY <1>1, <1>2 DEF Handler

\* Taking the head off the queue.
LEMMA QueueTail ==
  ASSUME Custody, queue # <<>>, queue' = Tail(queue)
  PROVE  /\ Head(queue) \in Items
         /\ \A y : Queued(y) <=> Queued(y)' \/ y = Head(queue)
         /\ \A y : y = Head(queue) => ~Queued(y)'
         /\ IsInjective(queue')
<1>1. queue \in Seq(Items) /\ IsInjective(queue)
  BY DEF Custody, TypeInv, TypeOK, Conservation, OnePlace
<1>2. Head(queue) \in Items
  BY <1>1, TailTyped
<1>3. \A y : Queued(y) <=> Queued(y)' \/ y = Head(queue)
  BY <1>1, ContainsTail DEF Queued
<1>4. IsInjective(queue') /\ ~Contains(queue', Head(queue))
  BY <1>1, InjectiveTail
<1> QED  BY <1>2, <1>3, <1>4 DEF Queued

LEMMA CustodyGetShutdown ==
  ASSUME Custody, TypeInv', GetShutdown
  PROVE  Custody'
<1>1. /\ queue # <<>> /\ Head(queue) = Shutdown /\ queue' = Tail(queue)
      /\ worker = "get" /\ worker' = "stopped"
      /\ UNCHANGED <<closer, handler, batch, held, done>>
  BY DEF GetShutdown, client, answer
<1>2. /\ \A y : Queued(y) <=> Queued(y)' \/ y = Shutdown
      /\ ~Queued(Shutdown)' /\ IsInjective(queue')
  BY <1>1, QueueTail
<1>3. \A y : Serving(y)' <=> Serving(y)
  BY <1>1 DEF Serving
<1>4. BatchShape' /\ SentinelShape' /\ DoneShape'
  BY <1>1, <1>2 DEF Custody, BatchShape, SentinelShape, DoneShape, Accepted
<1>5. NoneLost' /\ NoneStale'
  BY <1>1, <1>2, <1>3, ItemsFacts
     DEF Custody, Conservation, NoneLost, NoneStale, Pending, Accepted
<1>6. OnePlace'
  BY <1>1, <1>2, <1>3 DEF Custody, Conservation, OnePlace
<1> QED  BY <1>4, <1>5, <1>6 DEF Custody, Conservation

LEMMA CustodyGetRequest ==
  ASSUME Custody, TypeInv', GetRequest
  PROVE  Custody'
<1>0. PICK h : h = Head(queue)
  OBVIOUS
<1>1. /\ queue # <<>> /\ h # Shutdown /\ queue' = Tail(queue)
      /\ worker = "get" /\ worker' \in {"stream", "collect", "run"}
      /\ batch' = <<h>>
      /\ UNCHANGED <<closer, handler, held, done>>
  BY <1>0 DEF GetRequest, client, answer
<1>2. /\ h \in Items
      /\ \A y : Queued(y) <=> Queued(y)' \/ y = h
      /\ ~Queued(h)' /\ IsInjective(queue')
  BY <1>0, <1>1, QueueTail
<1>3. h \in Requests
  BY <1>1, <1>2 DEF Items
<1>4. (\A y : Serving(y)' <=> y = h) /\ IsInjective(batch')
  BY <1>1, ContainsShort DEF Serving
<1>5. batch = <<>> /\ \A y : ~Serving(y)
  BY <1>1, ContainsShort DEF Custody, BatchShape, Serving
<1>6. Len(batch') = 1
  BY <1>1
<1>7. BatchShape' /\ SentinelShape' /\ DoneShape'
  BY <1>1, <1>2, <1>6 DEF Custody, BatchShape, SentinelShape, DoneShape, Accepted
<1>8. NoneLost' /\ NoneStale'
  BY <1>1, <1>2, <1>4, <1>5
     DEF Custody, Conservation, NoneLost, NoneStale, Pending, Accepted
<1>9. held # h
  BY <1>2, <1>3 DEF Custody, Conservation, OnePlace
<1>10. OnePlace'
  BY <1>1, <1>2, <1>4, <1>9 DEF Custody, Conservation, OnePlace
<1> QED  BY <1>7, <1>8, <1>10 DEF Custody, Conservation

LEMMA CustodyCollectJoin ==
  ASSUME Custody, TypeInv', CollectJoin
  PROVE  Custody'
<1>0. PICK h : h = Head(queue)
  OBVIOUS
<1>1. /\ queue # <<>> /\ h # Shutdown /\ queue' = Tail(queue)
      /\ worker = "collect" /\ worker' = worker
      /\ batch' = Append(batch, h)
      /\ UNCHANGED <<closer, handler, held, done>>
  BY <1>0 DEF CollectJoin, Joins, client, answer
<1>2. /\ h \in Items
      /\ \A y : Queued(y) <=> Queued(y)' \/ y = h
      /\ ~Queued(h)' /\ IsInjective(queue')
  BY <1>0, <1>1, QueueTail
<1>3. h \in Requests /\ batch \in Seq(Requests)
  BY <1>1, <1>2 DEF Items, Custody, TypeInv, TypeOK
<1>4. \A y : Serving(y)' <=> Serving(y) \/ y = h
  BY <1>1, <1>3, ContainsAppend DEF Serving
<1>5. held # h /\ ~Serving(h)
  BY <1>2, <1>3 DEF Custody, Conservation, OnePlace
<1>6. IsInjective(batch')
  BY <1>1, <1>3, <1>5, InjectiveAppend DEF Custody, Conservation, OnePlace, Serving
<1>7. BatchShape' /\ SentinelShape' /\ DoneShape'
  BY <1>1, <1>2 DEF Custody, BatchShape, SentinelShape, DoneShape, Accepted
<1>8. NoneLost' /\ NoneStale'
  BY <1>1, <1>2, <1>4
     DEF Custody, Conservation, NoneLost, NoneStale, Pending, Accepted
<1>9. OnePlace'
  BY <1>1, <1>2, <1>4, <1>5, <1>6 DEF Custody, Conservation, OnePlace
<1> QED  BY <1>7, <1>8, <1>9 DEF Custody, Conservation

LEMMA CustodyCollectReject ==
  ASSUME Custody, TypeInv', CollectReject
  PROVE  Custody'
<1>0. PICK h : h = Head(queue)
  OBVIOUS
<1>1. /\ queue # <<>> /\ queue' = Tail(queue) /\ held' = h
      /\ worker = "collect" /\ worker' = "requeue"
      /\ UNCHANGED <<closer, handler, batch, done>>
  BY <1>0 DEF CollectReject, client, answer
<1>2. /\ h \in Items
      /\ \A y : Queued(y) <=> Queued(y)' \/ y = h
      /\ ~Queued(h)' /\ IsInjective(queue')
  BY <1>0, <1>1, QueueTail
<1>3. held = Nothing
  BY <1>1 DEF Custody, TypeInv, HandShape
<1>4. \A y : Serving(y)' <=> Serving(y)
  BY <1>1 DEF Serving
<1>5. BatchShape' /\ SentinelShape' /\ DoneShape'
  BY <1>1, <1>2 DEF Custody, BatchShape, SentinelShape, DoneShape, Accepted
<1>6. NoneLost' /\ NoneStale'
  BY <1>1, <1>2, <1>3, <1>4, ItemsFacts
     DEF Custody, Conservation, NoneLost, NoneStale, Pending, Accepted
<1>7. OnePlace'
  BY <1>1, <1>2, <1>4 DEF Custody, Conservation, OnePlace
<1> QED  BY <1>5, <1>6, <1>7 DEF Custody, Conservation

LEMMA CustodyRequeue ==
  ASSUME Custody, TypeInv', Requeue
  PROVE  Custody'
<1>1. /\ queue' = Append(queue, held) /\ held' = Nothing
      /\ worker = "requeue" /\ worker' = "run"
      /\ UNCHANGED <<closer, handler, batch, done>>
  BY DEF Requeue, client, answer
<1>2. queue \in Seq(Items) /\ held \in Items
  BY <1>1 DEF Custody, TypeInv, HandShape, TypeOK
<1>3. /\ \A y : Queued(y)' <=> Queued(y) \/ y = held
      /\ \A y : Serving(y)' <=> Serving(y)
  BY <1>1, <1>2, ContainsAppend DEF Queued, Serving
<1>4. ~Queued(held)
  BY <1>2 DEF Custody, Conservation, OnePlace, Items
<1>5. IsInjective(queue')
  BY <1>1, <1>2, <1>4, InjectiveAppend DEF Custody, Conservation, OnePlace, Queued
<1>6. BatchShape' /\ SentinelShape' /\ DoneShape'
  BY <1>1, <1>3, ItemsFacts
     DEF Custody, BatchShape, SentinelShape, DoneShape, Accepted
<1>7. NoneLost' /\ NoneStale'
  BY <1>1, <1>3, ItemsFacts
     DEF Custody, Conservation, NoneLost, NoneStale, Pending, Accepted
<1>8. OnePlace'
  BY <1>1, <1>3, <1>5, ItemsFacts DEF Custody, Conservation, OnePlace
<1> QED  BY <1>6, <1>7, <1>8 DEF Custody, Conservation

\* The worker settles its batch, whatever it records as the outcome.
LEMMA CustodySettle ==
  ASSUME Custody, TypeInv', worker \in {"run", "finish", "raise"},
         batch' = <<>>, worker' = "get",
         \A r \in Requests : done'[r] <=> done[r] \/ Serving(r),
         UNCHANGED <<closer, queue, handler, held>>
  PROVE  Custody'
<1>1. held = Nothing
  BY DEF Custody, TypeInv, HandShape
<1>2. /\ \A y : Queued(y)' <=> Queued(y)
      /\ \A y : ~Serving(y)'
      /\ IsInjective(batch')
  BY ContainsShort DEF Queued, Serving
<1>3. BatchShape' /\ SentinelShape'
  BY <1>2 DEF Custody, BatchShape, SentinelShape
<1>4. DoneShape'
  BY DEF Custody, Conservation, NoneStale, Pending, DoneShape, Accepted
<1>5. NoneLost'
  BY <1>2 DEF Custody, Conservation, NoneLost, Pending, Accepted
<1>6. NoneStale'
  BY <1>1, <1>2, ItemsFacts
     DEF Custody, Conservation, NoneStale, OnePlace, Pending, Accepted
<1>7. OnePlace'
  BY <1>1, <1>2 DEF Custody, Conservation, OnePlace
<1> QED  BY <1>3, <1>4, <1>5, <1>6, <1>7 DEF Custody, Conservation

LEMMA CustodyWorker ==
  ASSUME Custody, TypeInv', Worker
  PROVE  Custody'
<1> USE DEF client, answer
<1>1. CASE RunSucceeds
  <2>1. \A r \in Requests : done'[r] <=> done[r] \/ Serving(r)
    BY <1>1, Zenon DEF RunSucceeds
  <2> QED  BY <1>1, <2>1, CustodySettle DEF RunSucceeds
<1>2. CASE RunFails
  <2>1. \A r \in Requests : done'[r] <=> done[r] \/ Serving(r)
    BY <1>2, Zenon DEF RunFails
  <2> QED  BY <1>2, <2>1, CustodySettle DEF RunFails
<1>3. CASE StreamClose \/ StreamRaise
  <2>1. /\ worker \in {"finish", "raise"} /\ batch' = <<>> /\ worker' = "get"
        /\ done' = [done EXCEPT ![batch[1]] = TRUE]
        /\ UNCHANGED <<closer, queue, handler, held>>
    BY <1>3 DEF StreamClose, StreamRaise
  <2>2. batch[1] \in Requests /\ \A r : Serving(r) <=> r = batch[1]
    BY <2>1, ServingOne DEF Custody, TypeInv, BatchShape
  <2>3. \A r \in Requests : done'[r] <=> done[r] \/ Serving(r)
    BY <2>1, <2>2 DEF Custody, TypeInv, TypeOK
  <2> QED  BY <2>1, <2>3, CustodySettle
<1>4. CASE StreamToken
  BY <1>4, CustodyKept DEF StreamToken, Accepted
<1>5. CASE CollectEnd \/ StreamDone \/ StreamFails
  <2>1. /\ UNCHANGED <<closer, queue, batch, held, done, handler>>
        /\ \/ worker = "collect" /\ worker' = "run"
           \/ worker \in {"stream", "finish"} /\ worker' \in {"finish", "raise"}
    BY <1>5 DEF CollectEnd, StreamDone, StreamFails
  <2>2. \A r : (Queued(r)' <=> Queued(r)) /\ (Serving(r)' <=> Serving(r))
    BY <2>1 DEF Queued, Serving
  <2>3. BatchShape' /\ SentinelShape' /\ DoneShape'
    BY <2>1, <2>2 DEF Custody, BatchShape, SentinelShape, DoneShape, Accepted
  <2>4. NoneLost' /\ NoneStale'
    BY <2>1, <2>2 DEF Custody, Conservation, NoneLost, NoneStale, Pending, Accepted
  <2>5. OnePlace'
    BY <2>1, <2>2 DEF Custody, Conservation, OnePlace
  <2> QED  BY <2>3, <2>4, <2>5 DEF Custody, Conservation
<1> QED  BY <1>1, <1>2, <1>3, <1>4, <1>5, CustodyGetShutdown, CustodyGetRequest,
            CustodyCollectJoin, CustodyCollectReject, CustodyRequeue DEF Worker

LEMMA CustodyCloser ==
  ASSUME Custody, TypeInv', Closer
  PROVE  Custody'
<1>1. CASE (CloseFlag \/ CloseJoin) \/ (ClosePut /\ queue' = queue)
  <2>1. /\ UNCHANGED <<queue, worker, batch, held, done, handler>>
        /\ closer' \in {"joining", "joined"} \/ closer = "serving"
    BY <1>1 DEF CloseFlag, ClosePut, CloseJoin, client, answer
  <2>2. \A r : (Queued(r)' <=> Queued(r)) /\ (Serving(r)' <=> Serving(r))
    BY <2>1 DEF Queued, Serving
  <2>3. BatchShape' /\ SentinelShape' /\ DoneShape'
    BY <2>1, <2>2 DEF Custody, BatchShape, SentinelShape, DoneShape, Accepted
  <2>4. NoneLost' /\ NoneStale'
    BY <2>1, <2>2 DEF Custody, Conservation, NoneLost, NoneStale, Pending, Accepted
  <2>5. OnePlace'
    BY <2>1, <2>2 DEF Custody, Conservation, OnePlace
  <2> QED  BY <2>3, <2>4, <2>5 DEF Custody, Conservation
<1>2. CASE ClosePut /\ queue' = Append(queue, Shutdown)
  <2>1. /\ UNCHANGED <<worker, batch, held, done, handler>>
        /\ closer = "flagged" /\ closer' = "joining"
    BY <1>2 DEF ClosePut, client, answer
  <2>2. queue \in Seq(Items) /\ Shutdown \in Items /\ Shutdown \notin Requests
    BY ItemsFacts DEF Custody, TypeInv, TypeOK
  <2>3. /\ \A y : Queued(y)' <=> Queued(y) \/ y = Shutdown
        /\ \A y : Serving(y)' <=> Serving(y)
    BY <1>2, <2>1, <2>2, ContainsAppend DEF Queued, Serving
  <2>4. ~Queued(Shutdown) /\ held # Shutdown
    BY <2>1 DEF Custody, SentinelShape
  <2>5. IsInjective(queue')
    BY <1>2, <2>2, <2>4, InjectiveAppend DEF Custody, Conservation, OnePlace, Queued
  <2>6. BatchShape' /\ SentinelShape' /\ DoneShape'
    BY <2>1, <2>3 DEF Custody, BatchShape, SentinelShape, DoneShape, Accepted
  <2>7. NoneLost' /\ NoneStale'
    BY <2>1, <2>2, <2>3
       DEF Custody, Conservation, NoneLost, NoneStale, Pending, Accepted
  <2>8. OnePlace'
    BY <2>1, <2>2, <2>3, <2>4, <2>5 DEF Custody, Conservation, OnePlace
  <2> QED  BY <2>6, <2>7, <2>8 DEF Custody, Conservation
<1> QED  BY <1>1, <1>2 DEF Closer, ClosePut

LEMMA CustodyStep == Custody /\ [Next]_vars => Custody'
<1> SUFFICES ASSUME Custody, [Next]_vars PROVE Custody'
  OBVIOUS
<1>1. TypeInv'
  BY TypeStep DEF Custody
<1>2. CASE UNCHANGED vars
  BY <1>1, <1>2, CustodyKept DEF vars, Accepted
<1> QED  BY <1>1, <1>2, CustodyHandler, CustodyWorker, CustodyCloser DEF Next

(***************************************************************************)
(* No request is lost, answered out of nowhere or held twice, for any      *)
(* number of handler threads, any bounds of the queues and any batch size: *)
(* an accepted request without an answer is in the queue, in the worker's  *)
(* hand or in its batch, once, and nothing else is.                        *)
(***************************************************************************)
THEOREM ConservationHolds == Spec => []Conservation
<1>1. Custody => Conservation
  BY DEF Custody
<1> QED  BY <1>1, CustodyInit, CustodyStep, PTL DEF Spec

-----------------------------------------------------------------------------
(***************************************************************************)
(* What is run together.  The bound by the model's batch size comes from   *)
(* _admit, through every request of the batch having been accepted; the    *)
(* common key from every request having been compared with the first.      *)
(***************************************************************************)
BatchKind ==
  worker \in {"collect", "requeue", "run"} =>
    batch # <<>> /\ \A i \in 1..Len(batch) : ~ask[batch[i]].stream
AdmitShape ==
  \A r \in Requests : handler[r] \notin {"new", "refused"} => Admits(r)
Batches == Custody /\ BatchKind /\ AdmitShape /\ BatchSound

LEMMA BatchesInit == Init => Batches
<1> SUFFICES ASSUME Init PROVE Batches
  OBVIOUS
<1>1. BatchKind /\ AdmitShape
  BY DEF Init, BatchKind, AdmitShape
<1>2. Len(batch) = 0
  BY DEF Init
<1>3. BatchSound
  BY <1>2, ConstantsAssumption DEF BatchSound
<1> QED  BY <1>1, <1>3, CustodyInit DEF Batches

\* ask never changes, and a handler past _admit was admitted.
LEMMA AdmitStep ==
  ASSUME Batches, [Next]_vars
  PROVE  ask' = ask /\ AdmitShape'
<1>1. CASE UNCHANGED vars
  BY <1>1 DEF vars, Batches, AdmitShape, Admits
<1>2. CASE Worker \/ Closer
  <2>1. ask' = ask /\ handler' = handler
    BY <1>2 DEF Worker, GetShutdown, GetRequest, CollectJoin, CollectReject,
      Requeue, CollectEnd, RunSucceeds, RunFails, StreamToken, StreamDone,
      StreamClose, StreamFails, StreamRaise, Closer, CloseFlag, ClosePut,
      CloseJoin, client
  <2> QED  BY <2>1 DEF Batches, AdmitShape, Admits
<1>3. ASSUME NEW r \in Requests, Handler(r) PROVE ask' = ask /\ AdmitShape'
  <2>1. ask' = ask
    BY <1>3 DEF Handler, Admit, Enqueue, Consume, TakeResult, TakeEvent, HandlerRaises
  <2>2. handler \in [Requests -> HandlerStates]
    BY DEF Batches, Custody, TypeInv, TypeOK
  <2>3. CASE Admit(r)
    BY <2>1, <2>2, <2>3 DEF Admit, Batches, AdmitShape, Admits
  <2>4. CASE Enqueue(r)
    BY <2>1, <2>2, <2>4 DEF Enqueue, Batches, AdmitShape, Admits
  <2>5. CASE Consume(r) \/ HandlerRaises(r)
    <3>1. /\ handler[r] = "waiting"
          /\ \/ handler' = handler
             \/ \E place \in HandlerStates : handler' = [handler EXCEPT ![r] = place]
      BY <2>5 DEF Consume, TakeResult, TakeEvent, HandlerRaises, HandlerStates
    <3> QED  BY <2>1, <2>2, <3>1 DEF Batches, AdmitShape, Admits
  <2> QED  BY <1>3, <2>1, <2>3, <2>4, <2>5 DEF Handler
<1> QED  BY <1>1, <1>2, <1>3 DEF Next

\* A step that leaves the batch alone, or clears it.
LEMMA BatchesKept ==
  ASSUME Batches, Custody', AdmitShape', ask' = ask,
         \/ batch' = batch /\ (worker' \in {"collect", "requeue", "run"}
                                 => worker \in {"collect", "requeue", "run"})
         \/ batch' = <<>> /\ worker' = "get"
  PROVE  Batches'
<1>1. CASE batch' = batch /\ (worker' \in {"collect", "requeue", "run"}
                                => worker \in {"collect", "requeue", "run"})
  BY <1>1 DEF Batches, BatchKind, BatchSound
<1>2. CASE batch' = <<>> /\ worker' = "get"
  <2>1. Len(batch') = 0
    BY <1>2
  <2> QED  BY <1>2, <2>1, ConstantsAssumption DEF Batches, BatchKind, BatchSound
<1> QED  BY <1>1, <1>2

LEMMA BatchesGet ==
  ASSUME Batches, Custody', AdmitShape', ask' = ask, GetRequest
  PROVE  Batches'
<1>1. PICK h : h = Head(queue)
  OBVIOUS
<1>2. /\ batch' = <<h>>
      /\ worker' = IF ask[h].stream THEN "stream"
                   ELSE IF MaxRunning > 1 THEN "collect" ELSE "run"
  BY <1>1 DEF GetRequest
<1>3. Len(batch') = 1 /\ batch'[1] = h /\ batch' # <<>>
  BY <1>2
<1>4. BatchKind'
  BY <1>2, <1>3 DEF BatchKind
<1>5. BatchSound'
  BY <1>3, ConstantsAssumption DEF BatchSound
<1> QED  BY <1>4, <1>5 DEF Batches

LEMMA BatchesJoin ==
  ASSUME Batches, Custody', AdmitShape', ask' = ask, CollectJoin
  PROVE  Batches'
<1>1. PICK h : h = Head(queue)
  OBVIOUS
<1>2. /\ worker = "collect" /\ worker' = "collect"
      /\ Len(batch) < MaxRunning
      /\ batch' = Append(batch, h)
      /\ ~ask[h].stream /\ ask[batch[1]].key = ask[h].key
  BY <1>1 DEF CollectJoin, Joins, Compatible
<1>3. batch \in Seq(Requests) /\ batch # <<>>
  BY <1>2 DEF Batches, Custody, TypeInv, TypeOK, BatchKind
<1>4. /\ Len(batch') = Len(batch) + 1
      /\ \A i \in 1..Len(batch) : batch'[i] = batch[i]
      /\ batch'[Len(batch) + 1] = h
      /\ Len(batch) \in Nat /\ Len(batch) >= 1
      /\ batch' # <<>>
  BY <1>2, <1>3
<1>5. \A i \in 1..Len(batch') : ~ask[batch'[i]].stream
  <2> SUFFICES ASSUME NEW i \in 1..Len(batch') PROVE ~ask[batch'[i]].stream
    OBVIOUS
  <2>1. CASE i \in 1..Len(batch)
    BY <1>2, <1>4, <2>1 DEF Batches, BatchKind
  <2>2. CASE i = Len(batch) + 1
    BY <1>2, <1>4, <2>2
  <2> QED  BY <1>4, <2>1, <2>2
<1>6. \A i \in 1..Len(batch') : ask[batch'[i]].key = ask[batch[1]].key
  <2> SUFFICES ASSUME NEW i \in 1..Len(batch')
               PROVE  ask[batch'[i]].key = ask[batch[1]].key
    OBVIOUS
  <2>1. CASE i \in 1..Len(batch)
    <3>1. 1 \in 1..Len(batch)
      BY <1>4
    <3> QED  BY <1>4, <2>1, <3>1 DEF Batches, BatchSound
  <2>2. CASE i = Len(batch) + 1
    BY <1>2, <1>4, <2>2
  <2> QED  BY <1>4, <2>1, <2>2
<1>7. Len(batch') <= MaxRunning /\ Len(batch') <= MaxBatchSize
  <2>1. batch[1] \in Requests /\ Serving(batch[1])
    BY <1>3, <1>4 DEF Serving, Contains
  <2>2. handler[batch[1]] \notin {"new", "refused"}
    BY <2>1 DEF Batches, Custody, Conservation, NoneStale, Pending, Accepted
  <2>3. MaxRunning > 1 => MaxRunning <= MaxBatchSize
    BY <2>1, <2>2 DEF Batches, AdmitShape, Admits
  <2> QED  BY <1>2, <1>4, <2>3, ConstantsAssumption
<1>8. BatchKind'
  BY <1>4, <1>5 DEF BatchKind
<1>9. BatchSound'
  BY <1>5, <1>6, <1>7 DEF BatchSound
<1> QED  BY <1>8, <1>9 DEF Batches

LEMMA BatchesStep == Batches /\ [Next]_vars => Batches'
<1> SUFFICES ASSUME Batches, [Next]_vars PROVE Batches'
  OBVIOUS
<1>1. Custody' /\ AdmitShape' /\ ask' = ask
  BY CustodyStep, AdmitStep DEF Batches
<1>2. CASE UNCHANGED vars
  BY <1>1, <1>2, BatchesKept DEF vars
<1>3. CASE (\E r \in Requests : Handler(r)) \/ Closer
  <2>1. batch' = batch /\ worker' = worker
    BY <1>3 DEF Handler, Admit, Enqueue, Consume, TakeResult, TakeEvent,
      HandlerRaises, Closer, CloseFlag, ClosePut, CloseJoin
  <2> QED  BY <1>1, <2>1, BatchesKept
<1>4. CASE Worker /\ ~GetRequest /\ ~CollectJoin
  <2>1. \/ batch' = batch /\ (worker' \in {"collect", "requeue", "run"}
                                => worker \in {"collect", "requeue", "run"})
        \/ batch' = <<>> /\ worker' = "get"
    BY <1>4 DEF Worker, GetShutdown, CollectReject, Requeue, CollectEnd,
      RunSucceeds, RunFails, StreamToken, StreamDone, StreamClose,
      StreamFails, StreamRaise
  <2> QED  BY <1>1, <2>1, BatchesKept
<1> QED  BY <1>1, <1>2, <1>3, <1>4, BatchesGet, BatchesJoin DEF Next

(***************************************************************************)
(* Whatever arrives while _collect_batch waits, the requests that are run  *)
(* with the payload of the first one asked for what it asked for, and the  *)
(* model can hold them, for every batch size and every set of keys.        *)
(***************************************************************************)
THEOREM BatchSoundHolds == Spec => []BatchSound
<1>1. Batches => BatchSound
  BY DEF Batches
<1> QED  BY <1>1, BatchesInit, BatchesStep, PTL DEF Spec

-----------------------------------------------------------------------------
(***************************************************************************)
(* The order of service with one running request at a time: the worker     *)
(* never collects, so nothing goes from its hand back to the tail, and the *)
(* line is the request in the batch and the queue behind it.               *)
(***************************************************************************)
Single == worker \notin {"collect", "requeue"}

LEMMA SingleStep ==
  ASSUME MaxRunning = 1, Custody, Single, [Next]_vars
  PROVE  Single'
<1>1. CASE Worker
  BY <1>1 DEF Single, Worker, GetShutdown, GetRequest, CollectJoin, CollectReject, Requeue,
    CollectEnd, RunSucceeds, RunFails, StreamToken, StreamDone, StreamClose,
    StreamFails, StreamRaise
<1>2. CASE (\E r \in Requests : Handler(r)) \/ Closer \/ UNCHANGED vars
  <2>1. worker' = worker
    BY <1>2 DEF Handler, Admit, Enqueue, Consume, TakeResult, TakeEvent,
      HandlerRaises, Closer, CloseFlag, ClosePut, CloseJoin, vars
  <2> QED  BY <2>1 DEF Single
<1> QED  BY <1>1, <1>2 DEF Next

LEMMA JoinedLine ==
  ASSUME NEW b \in Seq(Requests), NEW q \in Seq(Items), NEW l, l = b \o <<>> \o q
  PROVE  /\ Len(l) = Len(b) + Len(q) /\ Len(b) \in Nat /\ Len(q) \in Nat
         /\ \A i \in 1..Len(b) : l[i] = b[i]
         /\ \A i \in 1..Len(q) : l[Len(b) + i] = q[i]
<1>1. b \in Seq(Items)
  BY DEF Items
<1> QED  BY <1>1

LEMMA SingleLine ==
  ASSUME TypeInv, Single
  PROVE  /\ Len(Line) = Len(batch) + Len(queue) /\ Len(batch) \in Nat /\ Len(queue) \in Nat
         /\ \A i \in 1..Len(batch) : Line[i] = batch[i]
         /\ \A i \in 1..Len(queue) : Line[Len(batch) + i] = queue[i]
<1>1. batch \in Seq(Requests) /\ queue \in Seq(Items) /\ held = Nothing
  BY DEF TypeInv, TypeOK, HandShape, Single
<1>2. Line = batch \o <<>> \o queue
  BY <1>1 DEF Line
<1> QED  BY <1>1, <1>2, JoinedLine

LEMMA SingleLineNext ==
  ASSUME TypeInv', Single'
  PROVE  /\ Len(Line') = Len(batch') + Len(queue') /\ Len(batch') \in Nat /\ Len(queue') \in Nat
         /\ \A i \in 1..Len(batch') : Line'[i] = batch'[i]
         /\ \A i \in 1..Len(queue') : Line'[Len(batch') + i] = queue'[i]
<1>1. batch' \in Seq(Requests) /\ queue' \in Seq(Items) /\ held' = Nothing
  BY DEF TypeInv, TypeOK, HandShape, Single
<1>2. Line' = batch' \o <<>> \o queue'
  BY <1>1 DEF Line
<1> QED  BY <1>1, <1>2, JoinedLine

\* The first d of the line leave it, and r is not among them.
LEMMA StaysBefore ==
  ASSUME NEW d \in Nat, Len(Line) \in Nat, Len(Line') \in Nat, Len(Line) <= Len(Line') + d,
         \A i \in 1..Len(Line) : i > d => Line'[i - d] = Line[i],
         NEW r, NEW s, Before(r, s), \A i \in 1..Len(Line) : i <= d => Line[i] # r
  PROVE  Before(r, s)'
<1>1. PICK i, j \in 1..Len(Line) : i < j /\ Line[i] = r /\ Line[j] = s
  BY DEF Before
<1>2. i > d /\ j > d
  BY <1>1
<1>3. /\ i - d \in 1..Len(Line') /\ j - d \in 1..Len(Line') /\ i - d < j - d
  BY <1>1, <1>2
<1>4. Line'[i - d] = r /\ Line'[j - d] = s
  BY <1>1, <1>2
<1> QED  BY <1>3, <1>4 DEF Before

LEMMA StaysInPlace ==
  ASSUME Len(Line) \in Nat, Len(Line') \in Nat, Len(Line) <= Len(Line'),
         \A i \in 1..Len(Line) : Line'[i] = Line[i],
         NEW r, NEW s, Before(r, s)
  PROVE  Before(r, s)'
<1>1. PICK i, j \in 1..Len(Line) : i < j /\ Line[i] = r /\ Line[j] = s
  BY DEF Before
<1>2. i \in 1..Len(Line') /\ j \in 1..Len(Line') /\ Line'[i] = r /\ Line'[j] = s
  BY <1>1
<1> QED  BY <1>1, <1>2 DEF Before

LEMMA NotEmpty ==
  ASSUME NEW S, NEW q \in Seq(S), q # <<>>
  PROVE  Len(q) \in Nat /\ Len(q) >= 1 /\ q[1] \in S
  OBVIOUS

LEMMA OrderStep ==
  ASSUME MaxRunning = 1, Batches, Single, Batches', Single', [Next]_vars,
         NEW r \in Requests, NEW s \in Requests, Before(r, s)
  PROVE  Before(r, s)' \/ done'[r]
<1>1. /\ Len(Line) = Len(batch) + Len(queue) /\ Len(batch) \in Nat /\ Len(queue) \in Nat
      /\ \A i \in 1..Len(batch) : Line[i] = batch[i]
      /\ \A i \in 1..Len(queue) : Line[Len(batch) + i] = queue[i]
  BY SingleLine DEF Batches, Custody
<1>2. /\ Len(Line') = Len(batch') + Len(queue') /\ Len(batch') \in Nat /\ Len(queue') \in Nat
      /\ \A i \in 1..Len(batch') : Line'[i] = batch'[i]
      /\ \A i \in 1..Len(queue') : Line'[Len(batch') + i] = queue'[i]
  BY SingleLineNext DEF Batches, Custody
<1>3. batch \in Seq(Requests) /\ queue \in Seq(Items) /\ Len(batch) <= 1
  BY DEF Batches, BatchSound, Custody, TypeInv, TypeOK
<1>4. ASSUME batch' = batch, queue' = queue \/ \E x \in Items : queue' = Append(queue, x)
      PROVE  Before(r, s)'
  <2>1. Len(queue') >= Len(queue) /\ \A i \in 1..Len(queue) : queue'[i] = queue[i]
    BY <1>3, <1>4
  <2>2. ASSUME NEW i \in 1..Len(Line)  PROVE Line'[i] = Line[i]
    <3>1. CASE i \in 1..Len(batch)
      BY <1>1, <1>2, <1>4, <3>1
    <3>2. CASE i \notin 1..Len(batch)
      <4>1. PICK n \in 1..Len(queue) : i = Len(batch) + n
        <5>1. i - Len(batch) \in 1..Len(queue) /\ i = Len(batch) + (i - Len(batch))
          BY <1>1, <3>2
        <5> QED  BY <5>1
      <4>2. n \in 1..Len(queue') /\ queue'[n] = queue[n] /\ Len(batch') = Len(batch)
        BY <1>1, <1>2, <1>4, <2>1
      <4>3. Line'[Len(batch) + n] = queue'[n] /\ Line[Len(batch) + n] = queue[n]
        BY <1>1, <1>2, <4>2
      <4> QED  BY <4>1, <4>2, <4>3
    <3> QED  BY <3>1, <3>2
  <2>3. Len(Line) \in Nat /\ Len(Line') \in Nat /\ Len(Line) <= Len(Line')
    BY <1>1, <1>2, <1>4, <2>1
  <2> QED  BY <2>2, <2>3, StaysInPlace
<1>5. CASE GetRequest
  <2>1. /\ batch = <<>> /\ queue # <<>> /\ queue' = Tail(queue) /\ batch' = <<Head(queue)>>
    BY <1>5 DEF GetRequest, Batches, Custody, BatchShape
  <2>2. /\ Len(batch) = 0 /\ Len(batch') = 1 /\ batch'[1] = queue[1]
        /\ Len(queue) >= 1 /\ Len(queue') = Len(queue) - 1
        /\ \A i \in 1..Len(queue') : queue'[i] = queue[i + 1]
    BY <1>3, <2>1
  <2>3. ASSUME NEW i \in 1..Len(Line)  PROVE Line'[i] = Line[i]
    <3>1. Line[i] = queue[i] /\ i \in 1..Len(queue)
      BY <1>1, <2>2
    <3>2. CASE i = 1
      BY <1>2, <2>2, <3>1, <3>2
    <3>3. CASE i # 1
      <4>1. i - 1 \in 1..Len(queue') /\ i = 1 + (i - 1)
        BY <2>2, <3>1, <3>3
      <4>2. Line'[1 + (i - 1)] = queue'[i - 1] /\ queue'[i - 1] = queue[(i - 1) + 1]
        BY <1>2, <2>2, <4>1
      <4> QED  BY <3>1, <4>1, <4>2
    <3> QED  BY <3>2, <3>3
  <2>4. Len(Line) \in Nat /\ Len(Line') \in Nat /\ Len(Line) <= Len(Line')
    BY <1>1, <1>2, <2>2
  <2> QED  BY <2>3, <2>4, StaysInPlace
<1>6. CASE GetShutdown
  <2>1. /\ batch = <<>> /\ batch' = batch /\ queue # <<>> /\ queue' = Tail(queue)
        /\ Head(queue) = Shutdown
    BY <1>6 DEF GetShutdown, Batches, Custody, BatchShape
  <2>2. /\ Len(batch) = 0 /\ Len(batch') = 0 /\ queue[1] = Shutdown
        /\ Len(queue) >= 1 /\ Len(queue') = Len(queue) - 1
        /\ \A i \in 1..Len(queue') : queue'[i] = queue[i + 1]
    BY <1>3, <2>1
  <2>3. \A i \in 1..Len(Line) : i > 1 => Line'[i - 1] = Line[i]
    BY <1>1, <1>2, <2>2
  <2>4. \A i \in 1..Len(Line) : i <= 1 => Line[i] # r
    BY <1>1, <2>2, ConstantsAssumption
  <2>5. Len(Line) \in Nat /\ Len(Line') \in Nat /\ Len(Line) <= Len(Line') + 1
    BY <1>1, <1>2, <2>2
  <2> QED  BY <2>3, <2>4, <2>5, StaysBefore
<1>7. ASSUME batch # <<>>, batch' = <<>>, queue' = queue, done'[batch[1]]
      PROVE  Before(r, s)' \/ done'[r]
  <2>1. Len(batch) = 1 /\ Len(batch') = 0
    <3>1. batch \in Seq(Requests) /\ batch # <<>>
      BY <1>3, <1>7
    <3>2. Len(batch) = 1
      <4>1. Len(batch) \in Nat /\ Len(batch) >= 1
        BY <3>1, NotEmpty
      <4>2. \A n \in Nat : n >= 1 /\ n <= 1 => n = 1
        OBVIOUS
      <4> QED  BY <1>3, <4>1, <4>2, Zenon
    <3>3. Len(batch') = 0
      BY <1>7
    <3> QED  BY <3>2, <3>3
  <2>2. \A i \in 1..Len(Line) : i > 1 => Line'[i - 1] = Line[i]
    BY <1>1, <1>2, <1>7, <2>1
  <2>3. CASE r = batch[1]
    BY <1>7, <2>3
  <2>4. CASE r # batch[1]
    <3>1. \A i \in 1..Len(Line) : i <= 1 => Line[i] # r
      BY <1>1, <2>1, <2>4
    <3>2. Len(Line) \in Nat /\ Len(Line') \in Nat /\ Len(Line) <= Len(Line') + 1
      BY <1>1, <1>2, <1>7, <2>1
    <3> QED  BY <2>2, <3>1, <3>2, StaysBefore
  <2> QED  BY <2>3, <2>4
<1>8. CASE RunSucceeds \/ RunFails \/ StreamClose \/ StreamRaise
  <2>1. batch' = <<>> /\ queue' = queue /\ worker \in {"run", "finish", "raise"}
    BY <1>8 DEF RunSucceeds, RunFails, StreamClose, StreamRaise
  <2>2. batch # <<>>
    <3>1. CASE worker = "run"
      BY <3>1 DEF Batches, BatchKind
    <3>2. CASE worker \in {"finish", "raise"}
      <4>1. Len(batch) = 1
        BY <3>2 DEF Batches, Custody, BatchShape
      <4> QED  BY <4>1
    <3> QED  BY <2>1, <3>1, <3>2
  <2>3. batch[1] \in Requests /\ Serving(batch[1])
    BY <1>3, <2>2, NotEmpty DEF Serving, Contains
  <2>4. done'[batch[1]]
    BY <1>8, <2>3 DEF RunSucceeds, RunFails, StreamClose, StreamRaise, Batches, Custody,
      TypeInv, TypeOK
  <2> QED  BY <1>7, <2>1, <2>2, <2>4
<1>9. CASE \E t \in Requests : Handler(t)
  <2>1. PICK t \in Requests : Handler(t)
    BY <1>9
  <2>2. batch' = batch /\ (queue' = queue \/ queue' = Append(queue, t)) /\ t \in Items
    BY <2>1 DEF Handler, Admit, Enqueue, Consume, TakeResult, TakeEvent, HandlerRaises, Items
  <2> QED  BY <1>4, <2>2
<1>10. CASE Closer
  <2>1. batch' = batch /\ (queue' = queue \/ queue' = Append(queue, Shutdown))
        /\ Shutdown \in Items
    BY <1>10 DEF Closer, CloseFlag, ClosePut, CloseJoin, Items
  <2> QED  BY <1>4, <2>1
<1>11. CASE StreamToken \/ StreamDone \/ StreamFails \/ UNCHANGED vars
  <2>1. batch' = batch /\ queue' = queue
    BY <1>11 DEF StreamToken, StreamDone, StreamFails, vars
  <2> QED  BY <1>4, <2>1
<1>12. ~CollectJoin /\ ~CollectReject /\ ~Requeue /\ ~CollectEnd
  BY DEF Single, CollectJoin, CollectReject, Requeue, CollectEnd
<1> QED
  BY <1>5, <1>6, <1>8, <1>9, <1>10, <1>11, <1>12 DEF Next, Worker

(***************************************************************************)
(* With max_running_requests = 1, whoever stands behind another in the     *)
(* worker's line stays behind it until the other is settled, streams,      *)
(* exceptions and the sentinel of close() included.                        *)
(***************************************************************************)
THEOREM FirstComeFirstServedHolds ==
  ASSUME MaxRunning = 1
  PROVE  Spec => FirstComeFirstServed
<1> DEFINE Order == \A r, s \in Requests : Before(r, s) => Before(r, s)' \/ done'[r]
<1>1. Init => Single
  BY DEF Init, Single
<1>2. Batches /\ Single /\ [Next]_vars => Single'
  BY SingleStep DEF Batches
<1>3. Batches /\ Batches' /\ Single /\ Single' /\ [Next]_vars => [Order]_vars
  BY OrderStep
<1> QED  BY <1>1, <1>2, <1>3, BatchesInit, BatchesStep, PTL DEF Spec, FirstComeFirstServed

-----------------------------------------------------------------------------
(***************************************************************************)
(* An answer is final: only requests in the batch are settled, and those   *)
(* have no answer yet.  set_exception for a whole batch overwrites no      *)
(* result, and a stream's exception replaces none.                         *)
(***************************************************************************)
FinalStep == \A r \in Requests : done[r] => done'[r] /\ outcome'[r] = outcome[r]

LEMMA SettledStays ==
  ASSUME Custody, [Next]_vars
  PROVE  FinalStep
<1>0. \A r \in Requests : done[r] => ~Serving(r)
  BY DEF Custody, Conservation, NoneStale, Pending
<1>1. CASE UNCHANGED <<done, outcome>>
  BY <1>1 DEF FinalStep
<1>2. CASE RunSucceeds
  BY <1>0, <1>2, Zenon DEF RunSucceeds, FinalStep
<1>3. CASE RunFails
  BY <1>0, <1>3, Zenon DEF RunFails, FinalStep
<1>4. CASE StreamClose \/ StreamFails \/ StreamRaise
  <2>1. batch[1] \in Requests /\ Serving(batch[1])
    BY <1>4, ServingOne DEF StreamClose, StreamFails, StreamRaise,
                            Custody, TypeInv, BatchShape
  <2>2. /\ done' \in {done, [done EXCEPT ![batch[1]] = TRUE]}
        /\ \E o : outcome' \in {outcome, [outcome EXCEPT ![batch[1]] = o]}
    BY <1>4 DEF StreamClose, StreamFails, StreamRaise
  <2> QED  BY <1>0, <2>1, <2>2 DEF FinalStep, Custody, TypeInv, TypeOK
<1>5. CASE \E r \in Requests : Handler(r)
  <2>1. UNCHANGED <<done, outcome>>
    BY <1>5 DEF Handler, Admit, Enqueue, Consume, TakeResult, TakeEvent,
      HandlerRaises, answer
  <2> QED  BY <1>1, <2>1
<1>6. CASE Closer \/ UNCHANGED vars
  BY <1>1, <1>6 DEF Closer, CloseFlag, ClosePut, CloseJoin, answer, vars
<1>7. CASE Worker /\ ~RunSucceeds /\ ~RunFails /\ ~StreamClose /\ ~StreamFails
             /\ ~StreamRaise
  <2>1. UNCHANGED <<done, outcome>>
    BY <1>7 DEF Worker, GetShutdown, GetRequest, CollectJoin, CollectReject,
      Requeue, CollectEnd, StreamToken, StreamDone, answer
  <2> QED  BY <1>1, <2>1
<1> QED  BY <1>2, <1>3, <1>4, <1>5, <1>6, <1>7 DEF Next

(***************************************************************************)
(* No answer, once recorded in a _RequestResult, is taken back or changed. *)
(***************************************************************************)
THEOREM AnswersAreFinal == Spec => Final
<1>1. Custody /\ [Next]_vars => [FinalStep]_vars
  BY SettledStays
<1> QED  BY <1>1, CustodyInit, CustodyStep, PTL DEF Spec, Final, FinalStep

-----------------------------------------------------------------------------
(***************************************************************************)
(* The events of a stream.  StreamShape is made of what one event queue    *)
(* looks like (Orderly) and of what it says of the request it belongs to.  *)
(***************************************************************************)
Ends == {"END", "EXC"}
OnlyEnds(e) == \A i \in 1..Len(e) : e[i] \in Ends
Orderly(e) ==
  /\ \A i \in 1..Len(e) : e[i] \in Ends => i = Len(e)
  /\ \A i, j \in 1..Len(e) : i < j /\ e[i] = "done" => e[j] \in Ends
Ended(e) == Contains(e, "END") \/ Contains(e, "EXC")

\* The tail of a sequence, element by element.
LEMMA TailIndices ==
  ASSUME NEW S, NEW e \in Seq(S), e # <<>>
  PROVE  /\ Len(e) \in Nat /\ Len(e) > 0 /\ Head(e) = e[1]
         /\ Tail(e) \in Seq(S) /\ Len(Tail(e)) = Len(e) - 1
         /\ \A i \in 1..Len(Tail(e)) : i + 1 \in 1..Len(e) /\ Tail(e)[i] = e[i + 1]
<1>1. /\ Len(e) \in Nat /\ Len(e) > 0 /\ Head(e) = e[1]
      /\ Tail(e) \in Seq(S) /\ Len(Tail(e)) = Len(e) - 1
  OBVIOUS
<1>2. \A i \in 1..Len(e) - 1 : i + 1 \in 1..Len(e) /\ Tail(e)[i] = e[i + 1]
  OBVIOUS
<1> QED  BY <1>1, <1>2

LEMMA OrderlyTail ==
  ASSUME NEW e \in Seq(Event), e # <<>>, Orderly(e)
  PROVE  /\ Orderly(Tail(e))
         /\ OnlyEnds(e) => OnlyEnds(Tail(e))
         /\ Head(e) = "done" => OnlyEnds(Tail(e))
         /\ Head(e) \in Ends => Tail(e) = <<>>
<1> DEFINE t == Tail(e)
<1>1. /\ Len(e) \in Nat /\ Len(e) > 0 /\ Head(e) = e[1] /\ Len(t) = Len(e) - 1
      /\ \A i \in 1..Len(t) : i + 1 \in 1..Len(e) /\ t[i] = e[i + 1]
      /\ t \in Seq(Event)
  BY TailIndices
<1> HIDE DEF t
<1>2. ASSUME NEW i \in 1..Len(t), t[i] \in Ends PROVE i = Len(t)
  <2>1. i + 1 \in 1..Len(e) /\ e[i + 1] \in Ends
    BY <1>1, <1>2
  <2>2. i + 1 = Len(e)
    BY <2>1 DEF Orderly
  <2> QED  BY <1>1, <2>2
<1>3. ASSUME NEW i \in 1..Len(t), NEW j \in 1..Len(t), i < j, t[i] = "done"
      PROVE  t[j] \in Ends
  <2>1. /\ i + 1 \in 1..Len(e) /\ j + 1 \in 1..Len(e) /\ i + 1 < j + 1
        /\ e[i + 1] = "done"
    BY <1>1, <1>3
  <2>2. e[j + 1] \in Ends
    BY <2>1 DEF Orderly
  <2> QED  BY <1>1, <2>2
<1>4. Orderly(t)
  BY <1>2, <1>3 DEF Orderly
<1>5. OnlyEnds(e) => OnlyEnds(t)
  BY <1>1 DEF OnlyEnds
<1>6. ASSUME e[1] = "done", NEW i \in 1..Len(t) PROVE t[i] \in Ends
  <2>1. 1 \in 1..Len(e) /\ i + 1 \in 1..Len(e) /\ 1 < i + 1
    BY <1>1
  <2>2. e[i + 1] \in Ends
    BY <1>6, <2>1 DEF Orderly
  <2> QED  BY <1>1, <2>2
<1>7. ASSUME e[1] \in Ends PROVE Len(t) = 0
  <2>1. 1 \in 1..Len(e)
    BY <1>1
  <2>2. 1 = Len(e)
    BY <1>7, <2>1 DEF Orderly
  <2> QED  BY <1>1, <2>2
<1>8. e[1] = "done" => OnlyEnds(t)
  BY <1>6 DEF OnlyEnds
<1>9. Orderly(t) /\ (OnlyEnds(e) => OnlyEnds(t)) /\ (Head(e) = "done" => OnlyEnds(t))
      /\ (Head(e) \in Ends => t = <<>>)
  BY <1>1, <1>4, <1>5, <1>7, <1>8
<1> QED  BY <1>9 DEF t

LEMMA OrderlyAppend ==
  ASSUME NEW e \in Seq(Event), NEW x \in Event, Orderly(e), ~Ended(e),
         Contains(e, "done") => x \in Ends
  PROVE  Orderly(Append(e, x))
<1>1. /\ Len(Append(e, x)) = Len(e) + 1 /\ Len(e) \in Nat
      /\ \A i \in 1..Len(e) : Append(e, x)[i] = e[i]
      /\ Append(e, x)[Len(e) + 1] = x
  OBVIOUS
<1>2. \A i \in 1..Len(e) : e[i] \notin Ends
  BY DEF Ended, Contains, Ends
<1>3. \A i \in 1..Len(e) : e[i] = "done" => x \in Ends
  BY DEF Contains
<1> QED  BY <1>1, <1>2, <1>3 DEF Orderly

\* Of an empty queue, and of a queue without events of some kind.
LEMMA OrderlyShort ==
  /\ Orderly(<<>>) /\ OnlyEnds(<<>>) /\ ~Ended(<<>>)
  BY ContainsShort DEF Orderly, OnlyEnds, Ended

(***************************************************************************)
(* What the worker and the event queues know of a request.                 *)
(*                                                                         *)
(* Streams are run as streams; a stream's "done" event is the last thing   *)
(* before its end mark; an end mark is there only with the answer it       *)
(* stands for; and END is never read before "done".                        *)
(***************************************************************************)
StreamKind ==
  worker \in {"stream", "finish", "raise"} =>
    /\ ask[batch[1]].stream
    /\ worker = "raise" => outcome[batch[1]] = "EXC"
DoneSeen(r) == sawDone[r] \/ Contains(events[r], "done")
DoneLast == \A r \in Requests : ask[r].stream =>
  /\ DoneSeen(r) => done[r] \/ (worker \in {"finish", "raise"} /\ batch[1] = r)
  /\ worker = "finish" /\ batch[1] = r => DoneSeen(r)
EndsTellTruth == \A r \in Requests : ask[r].stream =>
  /\ Contains(events[r], "END") => outcome[r] = r /\ DoneSeen(r)
  /\ Contains(events[r], "EXC") => outcome[r] = "EXC"
PlainEvents == \A r \in Requests : ~ask[r].stream /\ ~done[r] => events[r] = <<>>
EventShape(r) ==
  /\ Orderly(events[r])
  /\ Ended(events[r]) => done[r]
  /\ done[r] /\ handler[r] = "waiting" => Ended(events[r])
  /\ sawDone[r] => OnlyEnds(events[r])
Story == /\ StreamKind /\ DoneLast /\ EndsTellTruth /\ PlainEvents
         /\ \A r \in Requests : ask[r].stream => EventShape(r)
Truth == Batches /\ Story /\ ToldTheTruth

LEMMA ShapeMeans ==
  StreamShape <=> \A r \in Requests : ask[r].stream => EventShape(r)
  BY DEF StreamShape, EventShape, Orderly, OnlyEnds, Ended, Ends

LEMMA TruthInit == Init => Truth
<1> SUFFICES ASSUME Init PROVE Truth
  OBVIOUS
<1>1. \A r \in Requests : events[r] = <<>> /\ ~done[r] /\ ~sawDone[r]
  BY DEF Init
<1>2. \A r \in Requests : EventShape(r)
  BY <1>1, OrderlyShort DEF EventShape
<1>3. Story
  BY <1>1, <1>2, ContainsShort
     DEF Init, Story, StreamKind, DoneLast, DoneSeen, EndsTellTruth, PlainEvents
<1>4. ToldTheTruth
  BY <1>1 DEF Init, ToldTheTruth
<1> QED  BY <1>3, <1>4, BatchesInit DEF Truth

-----------------------------------------------------------------------------
(***************************************************************************)
(* A step that touches no event, no answer and no batch, and tells only    *)
(* what is so.                                                             *)
(***************************************************************************)
LEMMA TruthKept ==
  ASSUME Truth, Batches', ask' = ask,
         UNCHANGED <<worker, batch, done, outcome, events, sawDone>>,
         \A r \in Requests :
           \/ handler'[r] = handler[r]
           \/ handler'[r] \in {"admitted", "refused", "abandoned"}
           \/ handler'[r] = "waiting" /\ ~done[r]
           \/ handler'[r] = "answered" /\ done[r] /\ outcome[r] = r
           \/ handler'[r] = "failed" /\ done[r] /\ outcome[r] = "EXC"
  PROVE  Truth'
<1>1. StreamKind' /\ DoneLast' /\ EndsTellTruth' /\ PlainEvents'
  BY DEF Truth, Story, StreamKind, DoneLast, DoneSeen, EndsTellTruth, PlainEvents
<1>2. \A r \in Requests : ask[r].stream => EventShape(r)'
  BY DEF Truth, Story, EventShape
<1>3. ToldTheTruth'
  BY DEF Truth, ToldTheTruth
<1> QED  BY <1>1, <1>2, <1>3 DEF Truth, Story

LEMMA TruthAdmission ==
  ASSUME Truth, Batches', ask' = ask, NEW r \in Requests,
         Admit(r) \/ Enqueue(r) \/ TakeResult(r)
  PROVE  Truth'
<1>1. UNCHANGED <<worker, batch, done, outcome, events, sawDone>>
  BY DEF Admit, Enqueue, TakeResult, answer
<1>2. handler \in [Requests -> HandlerStates]
  BY DEF Truth, Batches, Custody, TypeInv, TypeOK
<1>3. \A s \in Requests \ {r} : handler'[s] = handler[s]
  BY <1>2 DEF Admit, Enqueue, TakeResult
<1>4. CASE Admit(r)
  BY <1>1, <1>2, <1>3, <1>4, TruthKept DEF Admit
<1>5. CASE Enqueue(r)
  <2>1. ~done[r]
    BY <1>5 DEF Enqueue, Truth, Batches, Custody, DoneShape, Accepted
  <2>2. handler'[r] \in {"waiting", "refused"}
    BY <1>2, <1>5 DEF Enqueue
  <2> QED  BY <1>1, <1>3, <2>1, <2>2, TruthKept
<1>6. CASE TakeResult(r)
  <2>1. done[r] /\ outcome[r] \in {r, "EXC"}
    BY <1>6 DEF TakeResult, Truth, ToldTheTruth
  <2>2. handler'[r] = IF outcome[r] = "EXC" THEN "failed" ELSE "answered"
    BY <1>2, <1>6 DEF TakeResult
  <2> QED  BY <1>1, <1>3, <2>1, <2>2, TruthKept
<1> QED  BY <1>4, <1>5, <1>6

(***************************************************************************)
(* The handler of a stream takes an event off its queue.                   *)
(***************************************************************************)
LEMMA TruthEvent ==
  ASSUME Truth, Batches', ask' = ask, NEW r \in Requests,
         TakeEvent(r) \/ HandlerRaises(r)
  PROVE  Truth'
<1> DEFINE e == events[r]
<1>1. /\ UNCHANGED <<worker, batch, done, outcome>>
      /\ events' = [events EXCEPT ![r] = Tail(@)]
      /\ e # <<>> /\ ask[r].stream /\ handler[r] = "waiting"
  BY DEF TakeEvent, HandlerRaises
<1>2. /\ handler \in [Requests -> HandlerStates]
      /\ sawDone \in [Requests -> BOOLEAN]
      /\ events \in [Requests -> Seq(Event)]
  BY DEF Truth, Batches, Custody, TypeInv, TypeOK
<1>3. e \in Seq(Event) /\ events'[r] = Tail(e)
  BY <1>1, <1>2
<1>4. \A s \in Requests \ {r} :
        events'[s] = events[s] /\ handler'[s] = handler[s] /\ sawDone'[s] = sawDone[s]
  BY <1>1, <1>2 DEF TakeEvent, HandlerRaises
<1>5. EventShape(r) /\ EndsTellTruth /\ DoneLast /\ PlainEvents /\ StreamKind
  BY <1>1 DEF Truth, Story
<1>6. /\ Orderly(Tail(e)) /\ (OnlyEnds(e) => OnlyEnds(Tail(e)))
      /\ Head(e) = "done" => OnlyEnds(Tail(e))
      /\ Head(e) \in Ends => Tail(e) = <<>>
  BY <1>1, <1>3, <1>5, OrderlyTail DEF EventShape
<1>7. \A y : Contains(e, y) <=> Contains(Tail(e), y) \/ y = Head(e)
  BY <1>1, <1>3, ContainsTail
<1>8. \/ /\ Head(e) = "token"
         /\ sawDone'[r] = sawDone[r] /\ handler'[r] \in {"waiting", "abandoned"}
      \/ /\ Head(e) = "done"
         /\ sawDone'[r] = TRUE /\ handler'[r] = "waiting"
      \/ /\ Head(e) = "END" /\ sawDone'[r] = sawDone[r]
         /\ handler'[r] = IF sawDone[r] THEN "answered" ELSE "failed"
      \/ /\ Head(e) = "EXC" /\ sawDone'[r] = sawDone[r] /\ handler'[r] = "failed"
  BY <1>1, <1>2 DEF TakeEvent, HandlerRaises
<1> HIDE DEF e
<1>9. DoneSeen(r)' <=> DoneSeen(r)
  BY <1>3, <1>7, <1>8 DEF DoneSeen, e
<1>10. \A s \in Requests : DoneSeen(s)' <=> DoneSeen(s)
  BY <1>4, <1>9 DEF DoneSeen
<1>11. Head(e) = "END" => done[r] /\ outcome[r] = r /\ sawDone[r]
  <2> SUFFICES ASSUME Head(e) = "END" PROVE done[r] /\ outcome[r] = r /\ sawDone[r]
    OBVIOUS
  <2>1. Contains(e, "END")
    BY <1>7
  <2>2. done[r] /\ outcome[r] = r /\ DoneSeen(r)
    BY <1>1, <1>5, <2>1 DEF EventShape, Ended, EndsTellTruth, e
  <2>3. ~Contains(Tail(e), "done")
    BY <1>6, ContainsShort DEF Ends
  <2> QED  BY <1>7, <2>2, <2>3 DEF DoneSeen, e
<1>12. Head(e) = "EXC" => done[r] /\ outcome[r] = "EXC"
  BY <1>1, <1>5, <1>7 DEF EventShape, Ended, EndsTellTruth, e
<1>13. DoneLast' /\ StreamKind' /\ PlainEvents'
  BY <1>1, <1>4, <1>5, <1>10 DEF DoneLast, StreamKind, PlainEvents
<1>14. EndsTellTruth'
  BY <1>1, <1>3, <1>4, <1>5, <1>7, <1>10 DEF EndsTellTruth, e
<1>15. EventShape(r)'
  <2>1. Orderly(events'[r])
    BY <1>3, <1>6
  <2>2. Ended(events[r])' => done'[r]
    BY <1>1, <1>3, <1>5, <1>7 DEF EventShape, Ended, e
  <2>3. done'[r] /\ handler'[r] = "waiting" => Ended(events[r])'
    BY <1>1, <1>3, <1>5, <1>7, <1>8 DEF EventShape, Ended, e
  <2>4. sawDone'[r] => OnlyEnds(events'[r])
    BY <1>3, <1>5, <1>6, <1>8 DEF EventShape, e
  <2> QED  BY <2>1, <2>2, <2>3, <2>4 DEF EventShape
<1>16. \A s \in Requests : ask[s].stream => EventShape(s)'
  BY <1>1, <1>4, <1>15 DEF Truth, Story, EventShape
<1>17. ToldTheTruth'
  BY <1>1, <1>4, <1>8, <1>11, <1>12 DEF Truth, ToldTheTruth
<1> QED  BY <1>13, <1>14, <1>16, <1>17 DEF Truth, Story

-----------------------------------------------------------------------------
(***************************************************************************)
(* The worker fetches, collects and puts back: no event, no answer.        *)
(***************************************************************************)
LEMMA TruthFetch ==
  ASSUME Truth, Batches', ask' = ask,
         GetShutdown \/ GetRequest \/ CollectJoin \/ CollectReject
           \/ Requeue \/ CollectEnd
  PROVE  Truth'
<1>1. UNCHANGED <<handler, sawDone, done, outcome, events>>
  BY DEF GetShutdown, GetRequest, CollectJoin, CollectReject, Requeue, CollectEnd,
         client, answer
<1>2. /\ worker \in {"get", "collect", "requeue"}
      /\ worker' \notin {"finish", "raise"}
  BY DEF GetShutdown, GetRequest, CollectJoin, CollectReject, Requeue, CollectEnd
<1>3. StreamKind'
  <2>1. CASE GetRequest
    <3>1. PICK h : batch' = <<h>> /\ (worker' = "stream" => ask[h].stream)
      BY <2>1 DEF GetRequest
    <3> QED  BY <1>2, <3>1 DEF StreamKind
  <2>2. CASE ~GetRequest
    <3>1. worker' # "stream"
      BY <1>2, <2>2 DEF GetShutdown, CollectJoin, CollectReject, Requeue, CollectEnd
    <3> QED  BY <1>2, <3>1 DEF StreamKind
  <2> QED  BY <2>1, <2>2
<1>4. DoneLast'
  BY <1>1, <1>2 DEF Truth, Story, DoneLast, DoneSeen
<1>5. EndsTellTruth' /\ PlainEvents' /\ ToldTheTruth'
  BY <1>1 DEF Truth, Story, DoneSeen, EndsTellTruth, PlainEvents, ToldTheTruth
<1>6. \A r \in Requests : ask[r].stream => EventShape(r)'
  BY <1>1 DEF Truth, Story, EventShape
<1> QED  BY <1>3, <1>4, <1>5, <1>6 DEF Truth, Story

(***************************************************************************)
(* A batch of plain requests is settled: every one with its own result, or *)
(* all with the exception.                                                 *)
(***************************************************************************)
LEMMA TruthRun ==
  ASSUME Truth, Batches', ask' = ask, FinalStep, RunSucceeds \/ RunFails
  PROVE  Truth'
<1>1. /\ worker = "run" /\ worker' = "get"
      /\ UNCHANGED <<handler, sawDone>>
  BY DEF RunSucceeds, RunFails, client
<1>2. \A r \in Requests : done'[r] <=> done[r] \/ Serving(r)
  <2>1. CASE RunSucceeds  BY <2>1, Zenon DEF RunSucceeds
  <2>2. CASE RunFails  BY <2>2, Zenon DEF RunFails
  <2> QED  BY <2>1, <2>2
<1>3. \A r \in Requests : Serving(r) => ~done[r] /\ ~ask[r].stream
  <2> SUFFICES ASSUME NEW r \in Requests, Serving(r)
               PROVE  ~done[r] /\ ~ask[r].stream
    OBVIOUS
  <2>1. ~done[r]
    BY DEF Truth, Batches, Custody, Conservation, NoneStale, Pending
  <2>2. PICK i \in 1..Len(batch) : batch[i] = r
    BY DEF Serving, Contains
  <2> QED  BY <1>1, <2>1, <2>2 DEF Truth, Batches, BatchKind
<1>4. \A r \in Requests : IF Serving(r) THEN outcome'[r] \in {r, "EXC"}
                          ELSE outcome'[r] = outcome[r]
  <2>1. \A r \in Requests : Serving(r) =>
          batch[CHOOSE i \in 1..Len(batch) : batch[i] = r] = r
    BY DEF Serving, Contains
  <2>2. CASE RunSucceeds  BY <2>1, <2>2 DEF RunSucceeds, RunResults
  <2>3. CASE RunFails  BY <2>3, Zenon DEF RunFails
  <2> QED  BY <2>2, <2>3
<1>5. \A r \in Requests : ~Serving(r) => events'[r] = events[r]
  <2>1. CASE RunSucceeds  BY <2>1 DEF RunSucceeds
  <2>2. CASE RunFails  BY <2>2, Zenon DEF RunFails
  <2> QED  BY <2>1, <2>2
<1>6. \A r \in Requests : ask[r].stream =>
        done'[r] = done[r] /\ outcome'[r] = outcome[r] /\ events'[r] = events[r]
  <2>1. done \in [Requests -> BOOLEAN] /\ done' \in [Requests -> BOOLEAN]
    BY DEF Truth, Batches, Custody, TypeInv, TypeOK
  <2> QED  BY <1>2, <1>3, <1>4, <1>5, <2>1
<1>7. \A r \in Requests : ask[r].stream => (DoneSeen(r)' <=> DoneSeen(r))
  BY <1>1, <1>6 DEF DoneSeen
<1>8. StreamKind' /\ DoneLast' /\ EndsTellTruth'
  BY <1>1, <1>6, <1>7 DEF Truth, Story, StreamKind, DoneLast, EndsTellTruth
<1>9. PlainEvents'
  BY <1>2, <1>5 DEF Truth, Story, PlainEvents
<1>10. \A r \in Requests : ask[r].stream => EventShape(r)'
  BY <1>1, <1>6 DEF Truth, Story, EventShape
<1>11. ToldTheTruth'
  <2> SUFFICES ASSUME NEW r \in Requests
               PROVE  /\ done'[r] => outcome'[r] \in {r, "EXC"}
                      /\ handler[r] = "answered" => done'[r] /\ outcome'[r] = r
                      /\ handler[r] = "failed" => done'[r] /\ outcome'[r] = "EXC"
    BY <1>1 DEF ToldTheTruth
  <2>1. /\ done[r] => outcome[r] \in {r, "EXC"}
        /\ handler[r] = "answered" => done[r] /\ outcome[r] = r
        /\ handler[r] = "failed" => done[r] /\ outcome[r] = "EXC"
    BY DEF Truth, ToldTheTruth
  <2>2. done[r] => done'[r] /\ outcome'[r] = outcome[r]
    BY DEF FinalStep
  <2>3. done'[r] => done[r] \/ Serving(r)
    BY <1>2
  <2>4. Serving(r) => ~done[r]
    BY <1>3
  <2> QED  BY <1>4, <2>1, <2>2, <2>3, <2>4
<1> QED  BY <1>8, <1>9, <1>10, <1>11 DEF Truth, Story

(***************************************************************************)
(* The worker puts an event on the queue of the stream it serves, or notes *)
(* that the stream raised.                                                 *)
(***************************************************************************)
LEMMA TruthStream ==
  ASSUME Truth, Batches', ask' = ask, FinalStep,
         StreamToken \/ StreamDone \/ StreamClose \/ StreamFails \/ StreamRaise
  PROVE  Truth'
<1>1. PICK r \in Requests : r = batch[1] /\ Serving(r) /\ ask[r].stream
  BY ServingOne DEF StreamToken, StreamDone, StreamClose, StreamFails, StreamRaise,
                    Truth, Batches, Custody, TypeInv, BatchShape, Story, StreamKind
<1>2. ~done[r] /\ Accepted(r)
  BY <1>1 DEF Truth, Batches, Custody, Conservation, NoneStale, Pending
<1>3. /\ done \in [Requests -> BOOLEAN]
      /\ outcome \in [Requests -> Requests \cup {"none", "EXC"}]
      /\ events \in [Requests -> Seq(Event)]
  BY DEF Truth, Batches, Custody, TypeInv, TypeOK
<1>4. /\ UNCHANGED <<handler, sawDone>>
      /\ \A s \in Requests \ {r} :
           done'[s] = done[s] /\ outcome'[s] = outcome[s] /\ events'[s] = events[s]
  BY <1>1, <1>3 DEF StreamToken, StreamDone, StreamClose, StreamFails, StreamRaise, client
<1>5. EventShape(r) /\ EndsTellTruth /\ DoneLast /\ PlainEvents /\ StreamKind
  BY <1>1 DEF Truth, Story
<1>6. \/ /\ worker = "stream" /\ worker' = "stream"
         /\ events'[r] = Append(events[r], "token")
         /\ UNCHANGED <<batch, done, outcome>>
      \/ /\ worker = "stream" /\ worker' = "finish"
         /\ events'[r] = Append(events[r], "done")
         /\ UNCHANGED <<batch, done, outcome>>
      \/ /\ worker = "finish" /\ worker' = "get"
         /\ events'[r] = Append(events[r], "END")
         /\ done'[r] = TRUE /\ outcome'[r] = r
      \/ /\ worker \in {"stream", "finish"} /\ worker' = "raise"
         /\ events'[r] = events[r]
         /\ done'[r] = FALSE /\ outcome'[r] = "EXC" /\ batch' = batch
      \/ /\ worker = "raise" /\ worker' = "get"
         /\ events'[r] = Append(events[r], "EXC")
         /\ done'[r] = TRUE /\ outcome'[r] = "EXC"
  <2>1. CASE StreamToken  BY <1>1, <1>3, <2>1 DEF StreamToken
  <2>2. CASE StreamDone  BY <1>1, <1>3, <2>2 DEF StreamDone
  <2>3. CASE StreamClose  BY <1>1, <1>3, <2>3 DEF StreamClose
  <2>4. CASE StreamFails  BY <1>1, <1>2, <1>3, <2>4 DEF StreamFails
  <2>5. CASE StreamRaise  BY <1>1, <1>3, <1>5, <2>5 DEF StreamRaise, StreamKind
  <2> QED  BY <2>1, <2>2, <2>3, <2>4, <2>5
<1>7. ~Ended(events[r]) /\ Orderly(events[r])
  BY <1>2, <1>5 DEF EventShape
<1>8. worker = "stream" => ~DoneSeen(r)
  BY <1>1, <1>2, <1>5 DEF DoneLast
<1>9. \A x \in Event : /\ Append(events[r], x) \in Seq(Event)
                       /\ \A y : Contains(Append(events[r], x), y)
                                   <=> Contains(events[r], y) \/ y = x
  BY <1>3, ContainsAppend
<1>10. {"token", "done", "END", "EXC"} = Event
  BY DEF Event
<1>11. Orderly(events'[r])
  <2>1. Contains(events[r], "done") /\ events'[r] # events[r] =>
          worker \in {"finish", "raise"}
    BY <1>6, <1>8 DEF DoneSeen
  <2>2. events'[r] = events[r] \/ \E x \in Event :
          /\ events'[r] = Append(events[r], x)
          /\ Contains(events[r], "done") => x \in Ends
    BY <1>6, <1>8, <1>10 DEF DoneSeen, Ends
  <2> QED  BY <1>3, <1>7, <2>2, OrderlyAppend
<1>12. Ended(events[r])' <=> done'[r]
  BY <1>2, <1>6, <1>7, <1>9, <1>10 DEF Ended
<1>13. sawDone'[r] => OnlyEnds(events'[r])
  <2>1. sawDone[r] => worker # "stream" /\ OnlyEnds(events[r])
    BY <1>5, <1>8 DEF DoneSeen, EventShape
  <2>2. events'[r] = events[r] \/ worker = "stream" \/
        \E x \in Ends : events'[r] = Append(events[r], x)
    BY <1>6 DEF Ends
  <2>3. ASSUME NEW x \in Ends, OnlyEnds(events[r]) PROVE OnlyEnds(Append(events[r], x))
    <3>1. events[r] \in Seq(Event)
      BY <1>3
    <3> QED  BY <2>3, <3>1 DEF OnlyEnds
  <2> QED  BY <1>4, <2>1, <2>2, <2>3
<1>14. EventShape(r)'
  BY <1>11, <1>12, <1>13 DEF EventShape
<1>15. \A s \in Requests : ask[s].stream => EventShape(s)'
  BY <1>4, <1>14 DEF Truth, Story, EventShape
<1>16. \A s \in Requests \ {r} : DoneSeen(s)' <=> DoneSeen(s)
  BY <1>4 DEF DoneSeen
<1>17. DoneSeen(r)' <=> DoneSeen(r) \/ (worker' = "finish" /\ worker = "stream")
  <2>1. Contains(events'[r], "done")
          <=> Contains(events[r], "done") \/ (worker' = "finish" /\ worker = "stream")
    <3>1. CASE worker' = "finish" /\ worker = "stream"
      BY <1>6, <1>9, <1>10, <3>1
    <3>2. CASE ~(worker' = "finish" /\ worker = "stream")
      <4>1. events'[r] = events[r] \/ \E x \in Event :
              x # "done" /\ events'[r] = Append(events[r], x)
        BY <1>6, <1>10, <3>2
      <4> QED  BY <1>9, <3>2, <4>1
    <3> QED  BY <3>1, <3>2
  <2> QED  BY <1>4, <2>1 DEF DoneSeen
<1>18. StreamKind'
  BY <1>1, <1>5, <1>6 DEF StreamKind
<1>19. DoneLast'
  BY <1>1, <1>2, <1>4, <1>5, <1>6, <1>16, <1>17 DEF DoneLast
<1>20. EndsTellTruth'
  <2>1. \A x \in {"END", "EXC"} : Contains(events'[r], x) => worker' = "get"
          /\ outcome'[r] = (IF x = "END" THEN r ELSE "EXC")
          /\ (x = "END" => worker = "finish")
    BY <1>6, <1>7, <1>9, <1>10 DEF Ended
  <2>2. Contains(events'[r], "END") => outcome'[r] = r /\ DoneSeen(r)'
    BY <1>1, <1>5, <1>17, <2>1 DEF DoneLast
  <2>3. Contains(events'[r], "EXC") => outcome'[r] = "EXC"
    BY <2>1
  <2> QED  BY <1>1, <1>4, <1>5, <1>16, <2>2, <2>3 DEF EndsTellTruth
<1>21. PlainEvents'
  BY <1>1, <1>4, <1>5 DEF PlainEvents
<1>22. ToldTheTruth'
  BY <1>2, <1>3, <1>4, <1>6 DEF Truth, ToldTheTruth, FinalStep
<1> QED  BY <1>15, <1>18, <1>19, <1>20, <1>21, <1>22 DEF Truth, Story

LEMMA TruthStep == Truth /\ [Next]_vars => Truth'
<1> SUFFICES ASSUME Truth, [Next]_vars PROVE Truth'
  OBVIOUS
<1>1. Batches' /\ ask' = ask /\ FinalStep
  BY BatchesStep, AdmitStep, SettledStays DEF Truth, Batches
<1>2. CASE Closer \/ UNCHANGED vars
  <2>1. UNCHANGED <<handler, worker, batch, done, outcome, events, sawDone>>
    BY <1>2 DEF Closer, CloseFlag, ClosePut, CloseJoin, client, answer, vars
  <2> QED  BY <1>1, <2>1, TruthKept
<1>3. CASE \E r \in Requests : Handler(r)
  BY <1>1, <1>3, TruthAdmission, TruthEvent DEF Handler, Consume
<1>4. CASE Worker
  BY <1>1, <1>4, TruthFetch, TruthRun, TruthStream DEF Worker
<1> QED  BY <1>2, <1>3, <1>4 DEF Next

(***************************************************************************)
(* A handler is told what the worker recorded for its own request, and     *)
(* nothing before it is recorded: through the Event for a plain request,   *)
(* through the event queue for a stream, whatever the other threads do.    *)
(***************************************************************************)
THEOREM ToldTheTruthHolds == Spec => []ToldTheTruth
<1>1. Truth => ToldTheTruth
  BY DEF Truth
<1> QED  BY <1>1, TruthInit, TruthStep, PTL DEF Spec

(***************************************************************************)
(* What a stream's handler has still to read: tokens, at most one "done",  *)
(* and an end mark exactly when the request is settled, for streams of any *)
(* length and event queues of any bound.                                   *)
(***************************************************************************)
THEOREM StreamShapeHolds == Spec => []StreamShape
<1>1. Truth => StreamShape
  BY ShapeMeans DEF Truth, Story
<1> QED  BY <1>1, TruthInit, TruthStep, PTL DEF Spec

-----------------------------------------------------------------------------
(***************************************************************************)
(* The bounds of the queues.  The put of RunFails does not look for room:  *)
(* it finds some because nothing was put for a plain request before it is  *)
(* settled, which Story says.                                              *)
(***************************************************************************)
QueueBound == MaxQueue > 0 => Len(queue) <= MaxQueue
EventBound == \A r \in Requests : EventCap > 0 => Len(events[r]) <= EventCap

\* A bounded queue.Queue stays bounded by get, and by put when there is room.
LEMMA BoundKept ==
  ASSUME NEW S, NEW q \in Seq(S), NEW x \in S, NEW cap \in Nat
  PROVE  /\ HasRoom(q, cap) => (cap > 0 => Len(Append(q, x)) <= cap)
         /\ q = <<>> => (cap > 0 => Len(Append(q, x)) <= cap)
         /\ q # <<>> /\ Len(q) <= cap => Len(Tail(q)) <= cap
<1>1. Len(Append(q, x)) = Len(q) + 1 /\ Len(q) \in Nat
  OBVIOUS
<1>2. q # <<>> => Len(Tail(q)) = Len(q) - 1
  OBVIOUS
<1>3. q = <<>> => Len(q) = 0
  OBVIOUS
<1> QED  BY <1>1, <1>2, <1>3 DEF HasRoom

LEMMA QueueBoundStep ==
  ASSUME TypeInv, QueueBound, [Next]_vars
  PROVE  QueueBound'
<1>1. queue \in Seq(Items) /\ MaxQueue \in Nat
  BY ConstantsAssumption DEF TypeInv, TypeOK
<1>2. CASE UNCHANGED queue
  BY <1>2 DEF QueueBound
<1>3. CASE queue # <<>> /\ queue' = Tail(queue)
  BY <1>1, <1>3, BoundKept, ItemsFacts DEF QueueBound
<1>4. ASSUME NEW x \in Items, HasRoom(queue, MaxQueue), queue' = Append(queue, x)
      PROVE  QueueBound'
  BY <1>1, <1>4, BoundKept DEF QueueBound
<1>5. CASE \E r \in Requests : Enqueue(r)
  BY <1>2, <1>4, <1>5, ItemsFacts DEF Enqueue
<1>6. CASE Requeue
  BY <1>4, <1>6 DEF Requeue, TypeInv, TypeOK, HandShape
<1>7. CASE ClosePut
  BY <1>2, <1>4, <1>7, ItemsFacts DEF ClosePut
<1>8. CASE GetShutdown \/ GetRequest \/ CollectJoin \/ CollectReject
  BY <1>3, <1>8 DEF GetShutdown, GetRequest, CollectJoin, CollectReject
<1>9. CASE CollectEnd \/ RunSucceeds \/ RunFails \/ StreamToken \/ StreamDone
             \/ StreamClose \/ StreamFails \/ StreamRaise \/ CloseFlag \/ CloseJoin
             \/ UNCHANGED vars
  BY <1>2, <1>9 DEF CollectEnd, RunSucceeds, RunFails, StreamToken, StreamDone,
    StreamClose, StreamFails, StreamRaise, CloseFlag, CloseJoin, vars
<1>10. CASE \E r \in Requests : Admit(r) \/ Consume(r) \/ HandlerRaises(r)
  BY <1>2, <1>10 DEF Admit, Consume, TakeResult, TakeEvent, HandlerRaises
<1> QED  BY <1>5, <1>6, <1>7, <1>8, <1>9, <1>10 DEF Next, Handler, Worker, Closer

LEMMA EventBoundStep ==
  ASSUME Truth, EventBound, [Next]_vars
  PROVE  EventBound'
<1>1. events \in [Requests -> Seq(Event)] /\ EventCap \in Nat
      /\ {"token", "done", "END", "EXC"} = Event
  BY ConstantsAssumption DEF Truth, Batches, Custody, TypeInv, TypeOK, Event
<1>2. SUFFICES ASSUME NEW r \in Requests
               PROVE  \/ events'[r] = events[r]
                      \/ events[r] # <<>> /\ events'[r] = Tail(events[r])
                      \/ \E x \in Event : /\ events'[r] = Append(events[r], x)
                                          /\ HasRoom(events[r], EventCap) \/ events[r] = <<>>
  <2> SUFFICES ASSUME NEW r \in Requests, EventCap > 0 PROVE Len(events'[r]) <= EventCap
    BY DEF EventBound
  <2>1. events[r] \in Seq(Event) /\ Len(events[r]) <= EventCap
    BY <1>1 DEF EventBound
  <2> QED  BY <1>1, <1>2, <2>1, BoundKept
<1>3. CASE RunFails
  <2>1. events'[r] = IF Serving(r) THEN Append(events[r], "EXC") ELSE events[r]
    BY <1>3 DEF RunFails
  <2>2. ASSUME Serving(r) PROVE events[r] = <<>>
    <3>1. ~done[r]
      BY <2>2 DEF Truth, Batches, Custody, Conservation, NoneStale, Pending
    <3>2. PICK i \in 1..Len(batch) : batch[i] = r
      BY <2>2 DEF Serving, Contains
    <3>3. ~ask[r].stream
      BY <1>3, <3>2 DEF RunFails, Truth, Batches, BatchKind
    <3> QED  BY <3>1, <3>3 DEF Truth, Story, PlainEvents
  <2> QED  BY <1>1, <2>1, <2>2
<1>4. CASE StreamToken \/ StreamDone \/ StreamClose \/ StreamRaise
  <2>1. PICK s \in Requests : s = batch[1]
    BY <1>4, ServingOne DEF StreamToken, StreamDone, StreamClose, StreamRaise,
      Truth, Batches, Custody, TypeInv, BatchShape
  <2>2. PICK x \in Event : /\ HasRoom(events[s], EventCap)
                           /\ events' = [events EXCEPT ![s] = Append(@, x)]
    BY <1>1, <1>4, <2>1 DEF StreamToken, StreamDone, StreamClose, StreamRaise
  <2> QED  BY <1>1, <2>2
<1>5. CASE \E s \in Requests : TakeEvent(s) \/ HandlerRaises(s)
  BY <1>1, <1>5 DEF TakeEvent, HandlerRaises
<1>6. CASE \E s \in Requests : Admit(s) \/ Enqueue(s) \/ TakeResult(s)
  BY <1>6 DEF Admit, Enqueue, TakeResult, answer
<1>7. CASE GetShutdown \/ GetRequest \/ CollectJoin \/ CollectReject \/ Requeue
             \/ CollectEnd \/ RunSucceeds \/ StreamFails \/ Closer \/ UNCHANGED vars
  BY <1>7 DEF GetShutdown, GetRequest, CollectJoin, CollectReject, Requeue,
    CollectEnd, RunSucceeds, StreamFails, Closer, CloseFlag, ClosePut, CloseJoin,
    answer, vars
<1> QED  BY <1>3, <1>4, <1>5, <1>6, <1>7 DEF Next, Handler, Consume, Worker

(***************************************************************************)
(* set_exception finds an empty event queue for every plain request of the *)
(* batch, and no queue ever exceeds its bound, whatever the bounds are.    *)
(***************************************************************************)
THEOREM BoundedHolds == Spec => []Bounded
<1> DEFINE Bounds == Truth /\ QueueBound /\ EventBound
<1>1. Init => Bounds
  <2> SUFFICES ASSUME Init PROVE QueueBound /\ EventBound
    BY TruthInit
  <2>1. Len(queue) = 0 /\ \A r \in Requests : Len(events[r]) = 0
    BY DEF Init
  <2> QED  BY <2>1, ConstantsAssumption DEF QueueBound, EventBound
<1>2. Bounds /\ [Next]_vars => Bounds'
  BY TruthStep, QueueBoundStep, EventBoundStep DEF Truth, Batches, Custody
<1>3. Bounds => Bounded
  BY DEF Bounded, QueueBound, EventBound, Truth, Batches, Custody, Conservation,
    NoneStale, Pending, Story, PlainEvents
<1> QED  BY <1>1, <1>2, <1>3, PTL DEF Spec

-----------------------------------------------------------------------------
(***************************************************************************)
(* The refinement of RequestService, step by step.                         *)
(***************************************************************************)
Asks == [r \in Requests |-> [stream |-> ask[r].stream, key |-> ask[r].key]]
Statuses == [r \in Requests |-> StatusOf(r)]
Tolds == [r \in Requests |-> ToldOf(r)]

LEMMA ServiceInit == Init => Service!Init
<1> SUFFICES ASSUME Init PROVE Service!Init
  OBVIOUS
<1>1. Asks \in [Requests -> [stream : BOOLEAN, key : Keys]]
  BY DEF Init, Asks, Ask
<1>2. \A r \in Requests : StatusOf(r) = "new" /\ ToldOf(r) = "nothing"
  BY DEF Init, StatusOf, ToldOf, Accepted
<1> QED  BY <1>1, <1>2 DEF Service!Init, Asks

ServiceNext == [Service!Next]_(Service!serviceVars)

\* A step that changes neither what r has been told nor what became of it.
LEMMA ServiceStutter ==
  ASSUME ask' = ask,
         \A r \in Requests : StatusOf(r)' = StatusOf(r) /\ ToldOf(r)' = ToldOf(r)
  PROVE  ServiceNext
  BY DEF ServiceNext, Service!serviceVars

LEMMA ToldValues ==
  ASSUME NEW r \in Requests
  PROVE  /\ handler[r] = "answered" => ToldOf(r) = "served"
         /\ handler[r] = "failed" => ToldOf(r) = "broken"
         /\ handler[r] = "refused" => ToldOf(r) = "refused"
         /\ handler[r] = "abandoned" => ToldOf(r) = "gaveup"
         /\ handler[r] \in {"new", "admitted", "waiting"} => ToldOf(r) = "nothing"
  BY Zenon DEF ToldOf

LEMMA ToldValuesNext ==
  ASSUME NEW r \in Requests
  PROVE  /\ handler'[r] = "answered" => ToldOf(r)' = "served"
         /\ handler'[r] = "failed" => ToldOf(r)' = "broken"
         /\ handler'[r] = "refused" => ToldOf(r)' = "refused"
         /\ handler'[r] = "abandoned" => ToldOf(r)' = "gaveup"
         /\ handler'[r] \in {"new", "admitted", "waiting"} => ToldOf(r)' = "nothing"
         /\ handler'[r] = handler[r] => ToldOf(r)' = ToldOf(r)
  BY Zenon DEF ToldOf

\* One request changes what it has been told, or what became of it.
LEMMA ServiceTells ==
  ASSUME ask' = ask, NEW r \in Requests,
         \A s \in Requests : StatusOf(s)' = StatusOf(s),
         \A s \in Requests \ {r} : ToldOf(s)' = ToldOf(s),
         ToldOf(r) = "nothing",
         \/ StatusOf(r) = "new" /\ ToldOf(r)' = "refused"
         \/ StatusOf(r) \in {"served", "broken"} /\ ToldOf(r)' = StatusOf(r)
         \/ StatusOf(r) # "new" /\ ToldOf(r)' = "gaveup"
  PROVE  ServiceNext
<1>1. Asks' = Asks /\ Statuses' = Statuses
  BY DEF Asks, Statuses
<1>2. Tolds' = [Tolds EXCEPT ![r] = ToldOf(r)'] /\ Tolds[r] = "nothing"
  BY DEF Tolds
<1>3. Statuses[r] = StatusOf(r)
  BY DEF Statuses
<1>4. Service!Refuse(r) \/ Service!Tell(r) \/ Service!GiveUp(r)
  BY <1>1, <1>2, <1>3 DEF Asks, Statuses, Tolds, Service!Refuse, Service!Tell,
    Service!GiveUp, Service!Settled
<1> QED  BY <1>4 DEF ServiceNext, Service!Next

LEMMA ServiceAccepts ==
  ASSUME ask' = ask, NEW r \in Requests,
         \A s \in Requests : ToldOf(s)' = ToldOf(s),
         \A s \in Requests \ {r} : StatusOf(s)' = StatusOf(s),
         ToldOf(r) = "nothing", StatusOf(r) = "new", StatusOf(r)' = "pending"
  PROVE  ServiceNext
<1>1. Asks' = Asks /\ Tolds' = Tolds
  BY DEF Asks, Tolds
<1>2. Statuses' = [Statuses EXCEPT ![r] = "pending"] /\ Statuses[r] = "new"
  BY DEF Statuses
<1>3. Tolds[r] = "nothing"
  BY DEF Tolds
<1>4. Service!Accept(r)
  BY <1>1, <1>2, <1>3 DEF Asks, Statuses, Tolds, Service!Accept
<1> QED  BY <1>4 DEF ServiceNext, Service!Next

LEMMA ServiceSettles ==
  ASSUME ask' = ask, NEW S \in SUBSET Requests, NEW how \in {"served", "broken"},
         S # {}, Cardinality(S) <= MaxRunning,
         \A r, s \in S : ask[r].stream = ask[s].stream /\ ask[r].key = ask[s].key,
         \A r \in Requests : ToldOf(r)' = ToldOf(r),
         \A r \in S : StatusOf(r) = "pending" /\ StatusOf(r)' = how,
         \A r \in Requests \ S : StatusOf(r)' = StatusOf(r)
  PROVE  ServiceNext
<1>1. Asks' = Asks /\ Tolds' = Tolds
  BY DEF Asks, Tolds
<1>2. Statuses' = [r \in Requests |-> IF r \in S THEN how ELSE Statuses[r]]
  BY DEF Statuses
<1>3. \A r, s \in S : Statuses[r] = "pending" /\ Asks[r] = Asks[s]
  BY DEF Statuses, Asks
<1>4. Service!Together(S)
  <2>1. Service!Cardinality(S) = Cardinality(S)
    BY Zenon DEF Service!Cardinality, Cardinality
  <2> QED  BY <1>3, <2>1 DEF Asks, Statuses, Service!Together
<1>5. Service!Settle(S, how)
  BY <1>1, <1>2, <1>4 DEF Asks, Statuses, Tolds, Service!Settle
<1> QED  BY <1>5 DEF ServiceNext, Service!Next, Service!Settled

LEMMA ServiceHandler ==
  ASSUME Truth, Truth', ask' = ask, NEW r \in Requests, Handler(r)
  PROVE  ServiceNext
<1>1. handler \in [Requests -> HandlerStates]
  BY DEF Truth, Batches, Custody, TypeInv, TypeOK
<1>2. UNCHANGED <<done, outcome>>
  BY DEF Handler, Admit, Enqueue, Consume, TakeResult, TakeEvent, HandlerRaises, answer
<1>3. \A s \in Requests \ {r} : handler'[s] = handler[s]
  BY <1>1 DEF Handler, Admit, Enqueue, Consume, TakeResult, TakeEvent, HandlerRaises
<1>4. \A s \in Requests \ {r} : StatusOf(s)' = StatusOf(s) /\ ToldOf(s)' = ToldOf(s)
  BY <1>2, <1>3, ToldValuesNext DEF StatusOf, Accepted
<1>5. (handler'[r] = handler[r]) =>
         ToldOf(r)' = ToldOf(r) /\ StatusOf(r)' = StatusOf(r)
  BY <1>2, ToldValuesNext DEF StatusOf, Accepted
<1>6. CASE handler'[r] = handler[r]
  BY <1>4, <1>5, <1>6, ServiceStutter
<1>7. CASE Admit(r) \/ Enqueue(r)
  <2>1. /\ handler[r] \in {"new", "admitted"}
        /\ handler'[r] \in {"admitted", "refused", "waiting"}
    BY <1>1, <1>7 DEF Admit, Enqueue
  <2>2. StatusOf(r) = "new" /\ ToldOf(r) = "nothing" /\ ~done[r]
    BY <2>1, ToldValues DEF StatusOf, Accepted, Truth, Batches, Custody, DoneShape
  <2>3. CASE handler'[r] = "admitted"
    <3>1. StatusOf(r)' = "new" /\ ToldOf(r)' = "nothing"
      BY <2>3, ToldValuesNext DEF StatusOf, Accepted
    <3> QED  BY <1>4, <2>2, <3>1, ServiceStutter
  <2>4. CASE handler'[r] = "refused"
    <3>1. StatusOf(r)' = "new" /\ ToldOf(r)' = "refused"
      BY <2>4, ToldValuesNext DEF StatusOf, Accepted
    <3> QED  BY <1>4, <2>2, <3>1, ServiceTells
  <2>5. CASE handler'[r] = "waiting"
    <3>1. StatusOf(r)' = "pending" /\ ToldOf(r)' = "nothing"
      BY <1>2, <2>2, <2>5, ToldValuesNext DEF StatusOf, Accepted
    <3> QED  BY <1>4, <2>2, <3>1, ServiceAccepts
  <2> QED  BY <2>1, <2>3, <2>4, <2>5
<1>8. CASE Consume(r) \/ HandlerRaises(r)
  <2>1. /\ handler[r] = "waiting"
        /\ handler'[r] \in {"waiting", "answered", "failed", "abandoned"}
    BY <1>1, <1>8 DEF Consume, TakeResult, TakeEvent, HandlerRaises
  <2>2. /\ ToldOf(r) = "nothing" /\ StatusOf(r) # "new"
        /\ StatusOf(r)' = StatusOf(r)
    BY <1>2, <2>1, ToldValues DEF StatusOf, Accepted
  <2>3. \A s \in Requests : StatusOf(s)' = StatusOf(s)
    BY <1>4, <2>2
  <2>4. CASE handler'[r] = "answered"
    <3>1. done[r] /\ outcome[r] = r
        BY <1>2, <2>4 DEF Truth, ToldTheTruth
    <3>2. StatusOf(r) = "served" /\ ToldOf(r)' = "served"
      BY <2>1, <2>4, <3>1, ConstantsAssumption, ToldValuesNext DEF StatusOf, Accepted
    <3> QED  BY <1>4, <2>2, <2>3, <3>2, ServiceTells
  <2>5. CASE handler'[r] = "failed"
    <3>1. done[r] /\ outcome[r] = "EXC"
      BY <1>2, <2>5 DEF Truth, ToldTheTruth
    <3>2. StatusOf(r) = "broken" /\ ToldOf(r)' = "broken"
      BY <2>1, <2>5, <3>1, ToldValuesNext DEF StatusOf, Accepted
    <3> QED  BY <1>4, <2>2, <2>3, <3>2, ServiceTells
  <2>6. CASE handler'[r] = "abandoned"
    <3>1. ToldOf(r)' = "gaveup"
      BY <2>6, ToldValuesNext
    <3> QED  BY <1>4, <2>2, <2>3, <3>1, ServiceTells
  <2> QED  BY <1>6, <2>1, <2>4, <2>5, <2>6
<1> QED  BY <1>7, <1>8 DEF Handler

\* What the worker serves, as a set: not more than MaxRunning.
Served == {r \in Requests : Serving(r)}

LEMMA ServedFew ==
  ASSUME Batches
  PROVE  Cardinality(Served) <= MaxRunning
<1>1. batch \in Seq(Requests) /\ Len(batch) \in Nat /\ Len(batch) <= MaxRunning
  BY DEF Batches, BatchSound, Custody, TypeInv, TypeOK
<1> DEFINE D == 1..Len(batch)
<1>2. IsFiniteSet(D) /\ Cardinality(D) = Len(batch)
  BY <1>1, FS_Interval
<1>3. [i \in D |-> batch[i]] \in Surjection(D, Served)
  <2>1. \A i \in D : batch[i] \in Requests /\ Serving(batch[i])
    BY <1>1 DEF Serving, Contains
  <2>2. \A r \in Served : \E i \in D : batch[i] = r
    BY DEF Served, Serving, Contains
  <2> QED  BY <2>1, <2>2 DEF Served, Surjection
<1>4. Cardinality(Served) <= Cardinality(D)
  BY <1>2, <1>3, FS_Surjection
<1>5. Cardinality(Served) \in Nat
  BY <1>2, <1>3, FS_Surjection, FS_CardinalityType
<1> QED  BY <1>1, <1>2, <1>4, <1>5, ConstantsAssumption

\* The worker settles its batch.
LEMMA ServiceSettled ==
  ASSUME Truth, Truth', ask' = ask, FinalStep, handler' = handler,
         NEW how \in {"served", "broken"},
         batch # <<>>,
         \A r \in Requests : ~Serving(r) => done'[r] = done[r] /\ outcome'[r] = outcome[r],
         \A r \in Requests : Serving(r) =>
           done'[r] /\ outcome'[r] = IF how = "served" THEN r ELSE "EXC"
  PROVE  ServiceNext
<1>1. \A r \in Requests : ToldOf(r)' = ToldOf(r)
  BY ToldValuesNext
<1>2. \A r \in Served : StatusOf(r) = "pending"
  BY DEF Served, StatusOf, Truth, Batches, Custody, Conservation, NoneStale, Pending
<1>3. \A r \in Served : StatusOf(r)' = how
  <2> SUFFICES ASSUME NEW r \in Requests, Serving(r) PROVE StatusOf(r)' = how
    BY DEF Served
  <2>1. Accepted(r)'
    BY DEF Truth, Batches, Custody, Conservation, NoneStale, Pending, Accepted
  <2> QED  BY <2>1, ConstantsAssumption DEF StatusOf
<1>4. \A r \in Requests \ Served : StatusOf(r)' = StatusOf(r)
  BY DEF Served, StatusOf, Accepted
<1>5. batch \in Seq(Requests)
  BY DEF Truth, Batches, Custody, TypeInv, TypeOK
<1>6. Served # {}
  <2>1. 1 \in 1..Len(batch) /\ batch[1] \in Requests
    BY <1>5
  <2> QED  BY <2>1 DEF Served, Serving, Contains
<1>7. \A r, s \in Served : ask[r].stream = ask[s].stream /\ ask[r].key = ask[s].key
  <2> SUFFICES ASSUME NEW r \in Served, NEW s \in Served
               PROVE  ask[r].stream = ask[s].stream /\ ask[r].key = ask[s].key
    OBVIOUS
  <2>1. PICK i \in 1..Len(batch) : batch[i] = r
    BY DEF Served, Serving, Contains
  <2>2. PICK j \in 1..Len(batch) : batch[j] = s
    BY DEF Served, Serving, Contains
  <2>3. ask[r].stream \in BOOLEAN /\ ask[s].stream \in BOOLEAN
    BY DEF Served, Truth, Batches, Custody, TypeInv, TypeOK, Ask
  <2>4. ask[r].key = ask[s].key
    BY <2>1, <2>2 DEF Truth, Batches, BatchSound
  <2>5. Len(batch) > 1 => ~ask[r].stream /\ ~ask[s].stream
    BY <2>1, <2>2 DEF Truth, Batches, BatchSound
  <2>6. ~(Len(batch) > 1) => r = s
    BY <1>5, <2>1, <2>2
  <2> QED  BY <2>3, <2>4, <2>5, <2>6
<1>8. Cardinality(Served) <= MaxRunning
  BY ServedFew DEF Truth
<1>9. Served \in SUBSET Requests
  BY DEF Served
<1> QED  BY <1>1, <1>2, <1>3, <1>4, <1>6, <1>7, <1>8, <1>9, ServiceSettles

LEMMA ServiceWorker ==
  ASSUME Truth, Truth', ask' = ask, FinalStep, Worker
  PROVE  ServiceNext
<1>1. handler' = handler
  BY DEF Worker, GetShutdown, GetRequest, CollectJoin, CollectReject, Requeue,
    CollectEnd, RunSucceeds, RunFails, StreamToken, StreamDone, StreamClose,
    StreamFails, StreamRaise, client
<1>2. \A r \in Requests : ToldOf(r)' = ToldOf(r)
  BY <1>1, ToldValuesNext
<1>3. CASE UNCHANGED <<done, outcome>>
  BY <1>1, <1>2, <1>3, ServiceStutter DEF StatusOf, Accepted
<1>4. CASE RunSucceeds
  <2>1. \A r \in Requests : Serving(r) =>
          batch[CHOOSE i \in 1..Len(batch) : batch[i] = r] = r
    BY DEF Serving, Contains
  <2>2. \A r \in Requests : ~Serving(r) => done'[r] = done[r] /\ outcome'[r] = outcome[r]
    <3>1. done \in [Requests -> BOOLEAN]
      BY DEF Truth, Batches, Custody, TypeInv, TypeOK
    <3> QED  BY <1>4, <3>1, Zenon DEF RunSucceeds
  <2>3. \A r \in Requests : Serving(r) => done'[r] /\ outcome'[r] = r
    BY <1>4, <2>1, Zenon DEF RunSucceeds, RunResults
  <2>4. batch # <<>>
    BY <1>4 DEF RunSucceeds, Truth, Batches, BatchKind
  <2> QED  BY <1>1, <2>2, <2>3, <2>4, ServiceSettled
<1>5. CASE RunFails
  <2>1. \A r \in Requests : ~Serving(r) => done'[r] = done[r] /\ outcome'[r] = outcome[r]
    <3>1. done \in [Requests -> BOOLEAN]
      BY DEF Truth, Batches, Custody, TypeInv, TypeOK
    <3> QED  BY <1>5, <3>1, Zenon DEF RunFails
  <2>2. \A r \in Requests : Serving(r) => done'[r] /\ outcome'[r] = "EXC"
    BY <1>5, Zenon DEF RunFails
  <2>3. batch # <<>>
    BY <1>5 DEF RunFails, Truth, Batches, BatchKind
  <2> QED  BY <1>1, <2>1, <2>2, <2>3, ServiceSettled
<1>6. CASE StreamClose \/ StreamFails \/ StreamRaise
  <2>1. /\ worker \in {"stream", "finish", "raise"} /\ Len(batch) = 1
        /\ batch[1] \in Requests /\ \A r : Serving(r) <=> r = batch[1]
    BY <1>6, ServingOne DEF StreamClose, StreamFails, StreamRaise,
      Truth, Batches, Custody, TypeInv, BatchShape
  <2>2. /\ done \in [Requests -> BOOLEAN]
        /\ outcome \in [Requests -> Requests \cup {"none", "EXC"}]
    BY DEF Truth, Batches, Custody, TypeInv, TypeOK
  <2>3. batch # <<>>
    BY <2>1, SMTT(30)
  <2>4. \A r \in Requests : ~Serving(r) => done'[r] = done[r] /\ outcome'[r] = outcome[r]
    BY <1>6, <2>1, <2>2, SMTT(30) DEF StreamClose, StreamFails, StreamRaise
  <2>5. CASE StreamClose
    <3>1. \A r \in Requests : Serving(r) => done'[r] /\ outcome'[r] = r
      BY <2>1, <2>2, <2>5 DEF StreamClose
    <3> QED  BY <1>1, <2>3, <2>4, <3>1, ServiceSettled
  <2>6. CASE StreamRaise
    <3>1. \A r \in Requests : Serving(r) => done'[r] /\ outcome'[r] = "EXC"
      BY <2>1, <2>2, <2>6 DEF StreamRaise, Truth, Story, StreamKind
    <3> QED  BY <1>1, <2>3, <2>4, <3>1, ServiceSettled
  <2>7. CASE StreamFails
    <3>1. done' = done /\ ~done[batch[1]]
      BY <2>1, <2>7 DEF StreamFails, Truth, Batches, Custody, Conservation,
        NoneStale, Pending
    <3>2. \A r \in Requests : StatusOf(r)' = StatusOf(r)
      BY <1>1, <2>1, <2>4, <3>1 DEF StatusOf, Accepted
    <3> QED  BY <1>2, <3>2, ServiceStutter
  <2> QED  BY <1>6, <2>5, <2>6, <2>7
<1>7. CASE GetShutdown \/ GetRequest \/ CollectJoin \/ CollectReject \/ Requeue
             \/ CollectEnd \/ StreamToken \/ StreamDone
  BY <1>3, <1>7 DEF GetShutdown, GetRequest, CollectJoin, CollectReject, Requeue,
    CollectEnd, StreamToken, StreamDone, answer
<1> QED  BY <1>4, <1>5, <1>6, <1>7 DEF Worker

LEMMA ServiceStep == Truth /\ Truth' /\ [Next]_vars => ServiceNext
<1> SUFFICES ASSUME Truth, Truth', [Next]_vars PROVE ServiceNext
  OBVIOUS
<1>1. ask' = ask /\ FinalStep
  BY AdmitStep, SettledStays DEF Truth, Batches
<1>2. CASE Closer \/ UNCHANGED vars
  <2>1. UNCHANGED <<handler, done, outcome>>
    BY <1>2 DEF Closer, CloseFlag, ClosePut, CloseJoin, client, answer, vars
  <2> QED  BY <1>1, <2>1, ServiceStutter, ToldValuesNext DEF StatusOf, Accepted
<1> QED  BY <1>1, <1>2, ServiceHandler, ServiceWorker DEF Next

(***************************************************************************)
(* The serving engine implements the abstract service: every interleaving  *)
(* of handlers, worker and close() is a run of RequestService, in which a  *)
(* request is refused or accepted, settled once, alone or with at most     *)
(* MaxRunning others that asked for the same, and its caller told so.      *)
(***************************************************************************)
THEOREM EngineImplementsService == Spec => ImplementsService
<1>1. Truth /\ Truth' /\ [Next]_vars => [Service!Next]_(Service!serviceVars)
  BY ServiceStep DEF ServiceNext
<1> QED  BY <1>1, ServiceInit, TruthInit, TruthStep, PTL
         DEF Spec, ImplementsService, Service!Spec
=============================================================================
