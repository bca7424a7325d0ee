--------------------------- MODULE ServingEngine ---------------------------
(***************************************************************************)
(* The Python serving engine: src/server/engine.py and the two halves of   *)
(* OpenAIHandler.do_POST (src/server/openai.py) that call it.              *)
(*                                                                         *)
(* HTTP handler threads enqueue requests on a bounded queue.Queue; one     *)
(* daemon worker thread takes them off, runs them one by one or in batches *)
(* of compatible requests, and hands back either one result (non-stream)   *)
(* or a sequence of events through a second bounded queue (stream).  The   *)
(* main thread may close the engine once, by a flag and a sentinel put on  *)
(* the same queue.                                                         *)
(*                                                                         *)
(* A request is handled by one handler thread and is identified with it.   *)
(* What a request asks for is abstracted to three fields: whether it       *)
(* streams, the key that _is_batch_compatible compares, and its cost in    *)
(* tokens.                                                                 *)
(***************************************************************************)
EXTENDS Naturals, Sequences, SequencesExt

CONSTANTS
  Requests,        \* the handler threads, one request each
  Keys,            \* max_tokens and the sampling parameters, compared as one
  Costs,           \* prompt tokens + max_tokens
  MaxQueue,        \* DEEPSEEK_SERVING_MAX_QUEUE; 0 is unbounded (queue.Queue)
  MaxRunning,      \* DEEPSEEK_SERVING_MAX_RUNNING_REQUESTS, at least 1
  MaxBatchSize,    \* model.max_batch_size
  MaxTotalTokens,  \* DEEPSEEK_SERVING_MAX_TOTAL_TOKENS; 0 is no budget
  EventCap,        \* DEEPSEEK_SERVING_EVENT_QUEUE; 0 is unbounded
  MaxEvents,       \* bound: token events one stream emits (its max_tokens)
  HandlerFaults,   \* whether a stream's handler may raise inside its loop
  Shutdown,        \* the None that close() puts on the queue
  Nothing          \* no candidate in the worker's hand

Items == Requests \cup {Shutdown}

ASSUME ConstantsAssumption ==
  /\ Shutdown \notin Requests
  /\ Nothing \notin Items
  /\ {"none", "EXC"} \cap Requests = {}
  /\ Costs \subseteq Nat
  /\ MaxQueue \in Nat
  /\ MaxRunning \in Nat \ {0}
  /\ MaxBatchSize \in Nat \ {0}
  /\ MaxTotalTokens \in Nat
  /\ EventCap \in Nat
  /\ MaxEvents \in Nat
  /\ HandlerFaults \in BOOLEAN

VARIABLES
  ask,       \* ask[r]: what request r asks for
  closed,    \* the Event _closed
  closer,    \* where the thread that calls close() is
  queue,     \* _queue
  handler,   \* handler[r]: where the handler thread of r is
  worker,    \* where the worker thread is
  batch,     \* the request(s) the worker is serving, in collection order
  held,      \* the candidate _collect_batch took and has to put back
  done,      \* done[r]: the Event _done of r's _RequestResult
  outcome,   \* outcome[r]: what the worker stored for r
  events,    \* events[r]: the queue _events of r's _RequestResult
  emitted,   \* emitted[r]: token events put so far
  sawDone,   \* sawDone[r]: the handler got the stream's "done" event
  gone       \* gone[r]: the handler noticed that its client disconnected

client == <<handler, sawDone, gone>>
answer == <<done, outcome, events, emitted>>
vars == <<ask, closed, closer, queue, handler, worker, batch, held,
          done, outcome, events, emitted, sawDone, gone>>

Ask == [stream : BOOLEAN, key : Keys, cost : Costs]
HandlerStates ==
  {"new", "admitted", "waiting", "answered", "failed", "refused", "abandoned"}
WorkerStates ==
  {"get", "collect", "requeue", "run", "stream", "finish", "raise", "stopped"}
Event == {"token", "done", "END", "EXC"}

(***************************************************************************)
(* queue.Queue(maxsize): 0 means no bound.                                 *)
(***************************************************************************)
HasRoom(q, cap) == cap = 0 \/ Len(q) < cap

\* The worker's hold on a request: queued, being put back, or being served.
Queued(r)  == Contains(queue, r)
Serving(r) == Contains(batch, r)
Accepted(r) == handler[r] \in {"waiting", "answered", "failed", "abandoned"}
Pending(r) == Accepted(r) /\ ~done[r]

Init ==
  /\ ask \in [Requests -> Ask]
  /\ closed = FALSE
  /\ closer = "serving"
  /\ queue = <<>>
  /\ handler = [r \in Requests |-> "new"]
  /\ worker = "get"
  /\ batch = <<>>
  /\ held = Nothing
  /\ done = [r \in Requests |-> FALSE]
  /\ outcome = [r \in Requests |-> "none"]
  /\ events = [r \in Requests |-> <<>>]
  /\ emitted = [r \in Requests |-> 0]
  /\ sawDone = [r \in Requests |-> FALSE]
  /\ gone = [r \in Requests |-> FALSE]

-----------------------------------------------------------------------------
(***************************************************************************)
(* Handler threads: submit, submit_stream and _enqueue.                    *)
(***************************************************************************)

\* _admit: the token budget, and the batch the model can hold.
Admits(r) ==
  /\ MaxTotalTokens > 0 => ask[r].cost <= MaxTotalTokens
  /\ MaxRunning > 1 => MaxRunning <= MaxBatchSize

\* _enqueue up to the put: _closed is read here and not again.
Admit(r) ==
  /\ handler[r] = "new"
  /\ handler' = [handler EXCEPT ![r] =
                   IF ~closed /\ Admits(r) THEN "admitted" ELSE "refused"]
  /\ UNCHANGED <<ask, closed, closer, queue, worker, batch, held, answer,
                 sawDone, gone>>

\* A mutant of Enqueue: the bound of the queue is forgotten.
EnqueueUnbounded(r) ==
  /\ handler[r] = "admitted"
  /\ queue' = Append(queue, r)
  /\ handler' = [handler EXCEPT ![r] = "waiting"]
  /\ UNCHANGED <<ask, closed, closer, worker, batch, held, answer,
                 sawDone, gone>>

\* A mutant of Enqueue: the Full exception is swallowed.
EnqueueSwallowsFull(r) ==
  /\ handler[r] = "admitted"
  /\ queue' = IF HasRoom(queue, MaxQueue) THEN Append(queue, r) ELSE queue
  /\ handler' = [handler EXCEPT ![r] = "waiting"]
  /\ UNCHANGED <<ask, closed, closer, worker, batch, held, answer,
                 sawDone, gone>>

\* _enqueue's put_nowait: a full queue refuses the request.
Enqueue(r) ==
  /\ handler[r] = "admitted"
  /\ IF HasRoom(queue, MaxQueue)
       THEN /\ queue' = Append(queue, r)
            /\ handler' = [handler EXCEPT ![r] = "waiting"]
       ELSE /\ handler' = [handler EXCEPT ![r] = "refused"]
            /\ UNCHANGED queue
  /\ UNCHANGED <<ask, closed, closer, worker, batch, held, answer,
                 sawDone, gone>>

\* A mutant of TakeResult: the wait for _done times out unnoticed.
TakeResultEarly(r) ==
  /\ handler[r] = "waiting" /\ ~ask[r].stream
  /\ handler' = [handler EXCEPT ![r] =
                   IF outcome[r] = "EXC" THEN "failed" ELSE "answered"]
  /\ UNCHANGED <<ask, closed, closer, queue, worker, batch, held, answer,
                 sawDone, gone>>

\* submit's result(): wait for _done, then return the result or raise.
TakeResult(r) ==
  /\ handler[r] = "waiting" /\ ~ask[r].stream /\ done[r]
  /\ handler' = [handler EXCEPT ![r] =
                   IF outcome[r] = "EXC" THEN "failed" ELSE "answered"]
  /\ UNCHANGED <<ask, closed, closer, queue, worker, batch, held, answer,
                 sawDone, gone>>

\* A mutant of TakeEvent: the handler stops reading when its client has gone.
TakeEventUntilGone(r) ==
  /\ handler[r] = "waiting" /\ ask[r].stream /\ events[r] # <<>> /\ ~gone[r]
  /\ events' = [events EXCEPT ![r] = Tail(@)]
  /\ IF Head(events[r]) = "token"
       THEN /\ \E broken \in BOOLEAN : gone' = [gone EXCEPT ![r] = broken]
            /\ UNCHANGED <<handler, sawDone>>
       ELSE /\ sawDone' = [sawDone EXCEPT ![r] = @ \/ Head(events[r]) = "done"]
            /\ handler' = [handler EXCEPT ![r] =
                 IF Head(events[r]) = "done" THEN @
                 ELSE IF Head(events[r]) = "END" THEN "answered" ELSE "failed"]
            /\ UNCHANGED gone
  /\ UNCHANGED <<ask, closed, closer, queue, worker, batch, held,
                 done, outcome, emitted>>

(***************************************************************************)
(* One turn of the handler's loop over events().  A write that fails only  *)
(* sets disconnected: the loop goes on and drains the rest.                *)
(***************************************************************************)
TakeEvent(r) ==
  /\ handler[r] = "waiting" /\ ask[r].stream /\ events[r] # <<>>
  /\ events' = [events EXCEPT ![r] = Tail(@)]
  /\ \/ /\ Head(events[r]) = "token"
        /\ \E broken \in BOOLEAN :
             gone' = [gone EXCEPT ![r] = @ \/ broken]
        /\ UNCHANGED <<handler, sawDone>>
     \/ /\ Head(events[r]) = "done"
        /\ sawDone' = [sawDone EXCEPT ![r] = TRUE]
        /\ UNCHANGED <<handler, gone>>
     \/ /\ Head(events[r]) = "END"
        /\ handler' = [handler EXCEPT ![r] =
                         IF sawDone[r] THEN "answered" ELSE "failed"]
        /\ UNCHANGED <<sawDone, gone>>
     \/ /\ Head(events[r]) = "EXC"
        /\ handler' = [handler EXCEPT ![r] = "failed"]
        /\ UNCHANGED <<sawDone, gone>>
  /\ UNCHANGED <<ask, closed, closer, queue, worker, batch, held,
                 done, outcome, emitted>>

\* The loop's "except Exception": the decoder raised on a token event, and
\* the handler returns without draining the rest.
HandlerRaises(r) ==
  /\ HandlerFaults
  /\ handler[r] = "waiting" /\ ask[r].stream /\ ~gone[r]
  /\ events[r] # <<>> /\ Head(events[r]) = "token"
  /\ events' = [events EXCEPT ![r] = Tail(@)]
  /\ handler' = [handler EXCEPT ![r] = "abandoned"]
  /\ UNCHANGED <<ask, closed, closer, queue, worker, batch, held,
                 done, outcome, emitted, sawDone, gone>>

-----------------------------------------------------------------------------
(***************************************************************************)
(* The worker thread: _run.                                                *)
(***************************************************************************)

\* queue.get(): the sentinel ends the thread.
GetShutdown ==
  /\ worker = "get" /\ queue # <<>> /\ Head(queue) = Shutdown
  /\ queue' = Tail(queue)
  /\ worker' = "stopped"
  /\ UNCHANGED <<ask, closed, closer, batch, held, client, answer>>

\* A mutant of GetRequest: a LifoQueue for the Queue.
GetRequestLast ==
  /\ worker = "get" /\ queue # <<>> /\ Last(queue) # Shutdown
  /\ queue' = Front(queue)
  /\ batch' = <<Last(queue)>>
  /\ worker' = IF ask[Last(queue)].stream THEN "stream"
               ELSE IF MaxRunning > 1 THEN "collect" ELSE "run"
  /\ UNCHANGED <<ask, closed, closer, held, client, answer>>

GetRequest ==
  /\ worker = "get" /\ queue # <<>> /\ Head(queue) # Shutdown
  /\ queue' = Tail(queue)
  /\ batch' = <<Head(queue)>>
  /\ worker' = IF ask[Head(queue)].stream THEN "stream"
               ELSE IF MaxRunning > 1 THEN "collect" ELSE "run"
  /\ UNCHANGED <<ask, closed, closer, held, client, answer>>

\* A mutant of Compatible: the sampling parameters are not compared.
CompatibleAnyKey(first, candidate) == ~ask[candidate].stream

\* _is_batch_compatible, after the caller's own test of candidate.stream.
Compatible(first, candidate) ==
  /\ ~ask[candidate].stream
  /\ ask[first].key = ask[candidate].key

Joins(candidate) == candidate # Shutdown /\ Compatible(batch[1], candidate)

\* _collect_batch: a compatible candidate joins the batch.
CollectJoin ==
  /\ worker = "collect" /\ Len(batch) < MaxRunning
  /\ queue # <<>> /\ Joins(Head(queue))
  /\ queue' = Tail(queue)
  /\ batch' = Append(batch, Head(queue))
  /\ UNCHANGED <<ask, closed, closer, worker, held, client, answer>>

\* A mutant of CollectReject: the candidate is forgotten.
CollectDrops ==
  /\ worker = "collect" /\ Len(batch) < MaxRunning
  /\ queue # <<>> /\ ~Joins(Head(queue))
  /\ queue' = Tail(queue)
  /\ worker' = "run"
  /\ UNCHANGED <<ask, closed, closer, batch, held, client, answer>>

\* _collect_batch: any other candidate, the sentinel too, has to go back.
CollectReject ==
  /\ worker = "collect" /\ Len(batch) < MaxRunning
  /\ queue # <<>> /\ ~Joins(Head(queue))
  /\ queue' = Tail(queue)
  /\ held' = Head(queue)
  /\ worker' = "requeue"
  /\ UNCHANGED <<ask, closed, closer, batch, client, answer>>

\* A mutant of Requeue: the sentinel is taken for an empty queue.
RequeueDropsShutdown ==
  /\ worker = "requeue" /\ HasRoom(queue, MaxQueue)
  /\ queue' = IF held = Shutdown THEN queue ELSE Append(queue, held)
  /\ held' = Nothing
  /\ worker' = "run"
  /\ UNCHANGED <<ask, closed, closer, batch, client, answer>>

\* put_nowait, and a blocking put by this same thread when the queue is full:
\* either way the candidate goes to the tail, once there is room.
Requeue ==
  /\ worker = "requeue" /\ HasRoom(queue, MaxQueue)
  /\ queue' = Append(queue, held)
  /\ held' = Nothing
  /\ worker' = "run"
  /\ UNCHANGED <<ask, closed, closer, batch, client, answer>>

\* The batch is full, or the deadline has passed (at any moment).
CollectEnd ==
  /\ worker = "collect"
  /\ worker' = "run"
  /\ UNCHANGED <<ask, closed, closer, queue, batch, held, client, answer>>

\* A mutant of RunResults: the results come in the wrong order.
RunResultsReversed == Reverse(batch)

\* Broadcast, run, and set_result: result i of the run goes to request i of
\* the batch.  What r is answered with is named by the request it was
\* computed for.
RunResults == batch
RunSucceeds ==
  /\ worker = "run"
  /\ done' = [r \in Requests |-> done[r] \/ Serving(r)]
  /\ outcome' = [r \in Requests |->
                   IF Serving(r)
                     THEN RunResults[CHOOSE i \in 1..Len(batch) : batch[i] = r]
                     ELSE outcome[r]]
  /\ batch' = <<>>
  /\ worker' = "get"
  /\ UNCHANGED <<ask, closed, closer, queue, held, client, events, emitted>>

\* A mutant of RunFails: every accepted request is failed.
RunFailsAll ==
  /\ worker = "run"
  /\ done' = [r \in Requests |-> done[r] \/ Accepted(r)]
  /\ outcome' = [r \in Requests |-> IF Accepted(r) THEN "EXC" ELSE outcome[r]]
  /\ events' = [r \in Requests |->
                  IF Serving(r) THEN Append(events[r], "EXC") ELSE events[r]]
  /\ batch' = <<>>
  /\ worker' = "get"
  /\ UNCHANGED <<ask, closed, closer, queue, held, client, emitted>>

\* An exception from the broadcast, the run or the shape test: set_exception
\* for every request of the batch.
RunFails ==
  /\ worker = "run"
  /\ done' = [r \in Requests |-> done[r] \/ Serving(r)]
  /\ outcome' = [r \in Requests |-> IF Serving(r) THEN "EXC" ELSE outcome[r]]
  /\ events' = [r \in Requests |->
                  IF Serving(r) THEN Append(events[r], "EXC") ELSE events[r]]
  /\ batch' = <<>>
  /\ worker' = "get"
  /\ UNCHANGED <<ask, closed, closer, queue, held, client, emitted>>

\* A mutant of StreamToken: one token more than max_tokens.
StreamTokenTooMany ==
  /\ worker = "stream"
  /\ LET r == batch[1] IN
       /\ emitted[r] <= MaxEvents /\ HasRoom(events[r], EventCap)
       /\ events' = [events EXCEPT ![r] = Append(@, "token")]
       /\ emitted' = [emitted EXCEPT ![r] = @ + 1]
  /\ UNCHANGED <<ask, closed, closer, queue, worker, batch, held, client,
                 done, outcome>>

\* put_event of a token: blocks while the handler is behind.
StreamToken ==
  /\ worker = "stream"
  /\ LET r == batch[1] IN
       /\ emitted[r] < MaxEvents /\ HasRoom(events[r], EventCap)
       /\ events' = [events EXCEPT ![r] = Append(@, "token")]
       /\ emitted' = [emitted EXCEPT ![r] = @ + 1]
  /\ UNCHANGED <<ask, closed, closer, queue, worker, batch, held, client,
                 done, outcome>>

\* A mutant of StreamDone: the stream goes on after its "done" event.
StreamDoneGoesOn ==
  /\ worker = "stream"
  /\ LET r == batch[1] IN
       /\ HasRoom(events[r], EventCap)
       /\ events' = [events EXCEPT ![r] = Append(@, "done")]
  /\ UNCHANGED <<ask, closed, closer, queue, worker, batch, held, client,
                 done, outcome, emitted>>

\* put_event of the last event, of type "done".
StreamDone ==
  /\ worker = "stream"
  /\ LET r == batch[1] IN
       /\ HasRoom(events[r], EventCap)
       /\ events' = [events EXCEPT ![r] = Append(@, "done")]
  /\ worker' = "finish"
  /\ UNCHANGED <<ask, closed, closer, queue, batch, held, client,
                 done, outcome, emitted>>

\* close_events.
StreamClose ==
  /\ worker = "finish"
  /\ LET r == batch[1] IN
       /\ HasRoom(events[r], EventCap)
       /\ events' = [events EXCEPT ![r] = Append(@, "END")]
       /\ done' = [done EXCEPT ![r] = TRUE]
       /\ outcome' = [outcome EXCEPT ![r] = r]
  /\ batch' = <<>>
  /\ worker' = "get"
  /\ UNCHANGED <<ask, closed, closer, queue, held, client, emitted>>

\* The broadcast or the stream raises.
StreamFails ==
  /\ worker \in {"stream", "finish"}
  /\ outcome' = [outcome EXCEPT ![batch[1]] = "EXC"]
  /\ worker' = "raise"
  /\ UNCHANGED <<ask, closed, closer, queue, batch, held, client,
                 done, events, emitted>>

\* A mutant of StreamRaise: _done is not set.
StreamRaiseUndone ==
  /\ worker = "raise"
  /\ LET r == batch[1] IN
       /\ HasRoom(events[r], EventCap)
       /\ events' = [events EXCEPT ![r] = Append(@, "EXC")]
  /\ batch' = <<>>
  /\ worker' = "get"
  /\ UNCHANGED <<ask, closed, closer, queue, held, client, done, outcome, emitted>>

\* set_exception's put (blocking) and _done.set().
StreamRaise ==
  /\ worker = "raise"
  /\ LET r == batch[1] IN
       /\ HasRoom(events[r], EventCap)
       /\ events' = [events EXCEPT ![r] = Append(@, "EXC")]
       /\ done' = [done EXCEPT ![r] = TRUE]
  /\ batch' = <<>>
  /\ worker' = "get"
  /\ UNCHANGED <<ask, closed, closer, queue, held, client, outcome, emitted>>

-----------------------------------------------------------------------------
(***************************************************************************)
(* The main thread: close, called once by _serve.                          *)
(***************************************************************************)
CloseFlag ==
  /\ closer = "serving"
  /\ closed' = TRUE
  /\ closer' = "flagged"
  /\ UNCHANGED <<ask, queue, worker, batch, held, client, answer>>

\* put_nowait(None): a full queue swallows the sentinel.
ClosePut ==
  /\ closer = "flagged"
  /\ queue' = IF HasRoom(queue, MaxQueue) THEN Append(queue, Shutdown) ELSE queue
  /\ closer' = "joining"
  /\ UNCHANGED <<ask, closed, worker, batch, held, client, answer>>

\* join(timeout=5): the worker has ended, or the time has passed.
CloseJoin ==
  /\ closer = "joining"
  /\ closer' = "joined"
  /\ UNCHANGED <<ask, closed, queue, worker, batch, held, client, answer>>

-----------------------------------------------------------------------------
Consume(r) == TakeResult(r) \/ TakeEvent(r)
Handler(r) == Admit(r) \/ Enqueue(r) \/ Consume(r) \/ HandlerRaises(r)
Worker ==
  \/ GetShutdown \/ GetRequest
  \/ CollectJoin \/ CollectReject \/ Requeue \/ CollectEnd
  \/ RunSucceeds \/ RunFails
  \/ StreamToken \/ StreamDone \/ StreamClose \/ StreamFails \/ StreamRaise
Closer == CloseFlag \/ ClosePut \/ CloseJoin

Next == (\E r \in Requests : Handler(r)) \/ Worker \/ Closer

Spec == Init /\ [][Next]_vars

(***************************************************************************)
(* The threads are scheduled: the worker never stops by itself, a handler  *)
(* that has entered _enqueue finishes the call, and a handler that waits   *)
(* keeps reading; close(), once called, goes on to its put.  Nothing       *)
(* obliges a client to come, the decoder to raise, or close() to be called. *)
(***************************************************************************)
FairSpec ==
  /\ Spec
  /\ WF_vars(Worker)
  /\ \A r \in Requests : WF_vars(Enqueue(r)) /\ WF_vars(Consume(r))
  /\ WF_vars(ClosePut)

-----------------------------------------------------------------------------
TypeOK ==
  /\ ask \in [Requests -> Ask]
  /\ closed \in BOOLEAN
  /\ closer \in {"serving", "flagged", "joining", "joined"}
  /\ queue \in Seq(Items)
  /\ handler \in [Requests -> HandlerStates]
  /\ worker \in WorkerStates
  /\ batch \in Seq(Requests)
  /\ held \in Items \cup {Nothing}
  /\ done \in [Requests -> BOOLEAN]
  /\ outcome \in [Requests -> Requests \cup {"none", "EXC"}]
  /\ events \in [Requests -> Seq(Event)]
  /\ emitted \in [Requests -> 0..MaxEvents]
  /\ sawDone \in [Requests -> BOOLEAN]
  /\ gone \in [Requests -> BOOLEAN]

(***************************************************************************)
(* No request is lost or served twice: _collect_batch takes requests off   *)
(* the queue and puts some of them back, while handlers keep putting and   *)
(* close() puts the sentinel.  Through all of that an accepted request     *)
(* without an answer is in exactly one place (the queue, the worker's      *)
(* hand, the batch), once, and nothing else is in any of them.             *)
(***************************************************************************)
NoneLost == \A r \in Requests : Pending(r) => Queued(r) \/ held = r \/ Serving(r)
NoneStale == \A r \in Requests : Queued(r) \/ held = r \/ Serving(r) => Pending(r)
OnePlace ==
  /\ IsInjective(queue) /\ IsInjective(batch)
  /\ \A r \in Requests :
       /\ ~(Queued(r) /\ held = r)
       /\ ~(Queued(r) /\ Serving(r))
       /\ ~(held = r /\ Serving(r))
  /\ ~(Queued(Shutdown) /\ held = Shutdown)
Conservation == NoneLost /\ NoneStale /\ OnePlace

(***************************************************************************)
(* The run of a batch uses the payload of its first request for all        *)
(* (_batch_payload), and model buffers for MaxBatchSize rows: so requests  *)
(* run together asked for the same thing, none of them streams, and they   *)
(* fit the model.                                                          *)
(***************************************************************************)
BatchSound ==
  /\ Len(batch) <= MaxRunning /\ Len(batch) <= MaxBatchSize
  /\ \A i, j \in 1..Len(batch) : ask[batch[i]].key = ask[batch[j]].key
  /\ Len(batch) > 1 => \A i \in 1..Len(batch) : ~ask[batch[i]].stream

(***************************************************************************)
(* The handler is told what the worker recorded for its own request: an    *)
(* answer computed for r or r's exception, through the Event for a plain   *)
(* request and through the event queue for a stream.                       *)
(***************************************************************************)
ToldTheTruth == \A r \in Requests :
  /\ done[r] => outcome[r] \in {r, "EXC"}
  /\ handler[r] = "answered" => done[r] /\ outcome[r] = r
  /\ handler[r] = "failed" => done[r] /\ outcome[r] = "EXC"

(***************************************************************************)
(* set_exception puts on an event queue even when nobody reads it (a plain *)
(* request, a handler that has left): the put must find room, or the       *)
(* worker would stop for ever.  It does for plain requests, whose queue is *)
(* empty until then; and no queue ever exceeds its bound.                  *)
(***************************************************************************)
Bounded ==
  /\ MaxQueue > 0 => Len(queue) <= MaxQueue
  /\ \A r \in Requests :
       /\ EventCap > 0 => Len(events[r]) <= EventCap
       /\ Serving(r) /\ ~ask[r].stream => events[r] = <<>>

(***************************************************************************)
(* What the handler of a stream has still to read is some tokens, then at  *)
(* most one "done" event, then at most one end mark, which is there (or    *)
(* has been read) exactly when the request is settled.                     *)
(***************************************************************************)
StreamShape == \A r \in Requests : ask[r].stream =>
  LET e == events[r]
      ended == Contains(e, "END") \/ Contains(e, "EXC")
  IN
    /\ \A i \in 1..Len(e) : e[i] \in {"END", "EXC"} => i = Len(e)
    /\ \A i, j \in 1..Len(e) : i < j /\ e[i] = "done" => e[j] \in {"END", "EXC"}
    /\ ended => done[r]
    /\ done[r] /\ handler[r] = "waiting" => ended
    /\ sawDone[r] => \A i \in 1..Len(e) : e[i] \in {"END", "EXC"}

-----------------------------------------------------------------------------
(***************************************************************************)
(* An answer is final: the batch's except clause calls set_exception for   *)
(* every request of the batch, which must not overwrite an earlier answer  *)
(* of any request.                                                         *)
(***************************************************************************)
Final == [][\A r \in Requests :
              done[r] => done'[r] /\ outcome'[r] = outcome[r]]_vars

\* Request r is before request s in the line that the worker serves.
Line == batch \o (IF held = Nothing THEN <<>> ELSE <<held>>) \o queue
Before(r, s) ==
  \E i, j \in 1..Len(Line) : i < j /\ Line[i] = r /\ Line[j] = s

(***************************************************************************)
(* With one running request at a time the service is first come first      *)
(* served: a request stays ahead of the ones behind it until it is         *)
(* settled.  (With batching it does not hold: a candidate that cannot join *)
(* the batch goes to the tail of the queue.)                               *)
(***************************************************************************)
FirstComeFirstServed ==
  [][\A r, s \in Requests : Before(r, s) => Before(r, s)' \/ done'[r]]_vars

(***************************************************************************)
(* The engine implements the abstract service: what r's _RequestResult     *)
(* holds is the status of r, and the handler's way out is what is told.    *)
(***************************************************************************)
StatusOf(r) ==
  IF ~Accepted(r) THEN "new"
  ELSE IF ~done[r] THEN "pending"
  ELSE IF outcome[r] = "EXC" THEN "broken" ELSE "served"

ToldOf(r) ==
  CASE handler[r] = "answered" -> "served"
    [] handler[r] = "failed" -> "broken"
    [] handler[r] = "refused" -> "refused"
    [] handler[r] = "abandoned" -> "gaveup"
    [] OTHER -> "nothing"

Service == INSTANCE RequestService WITH
  Ask <- [stream : BOOLEAN, key : Keys],
  Width <- MaxRunning,
  asks <- [r \in Requests |-> [stream |-> ask[r].stream, key |-> ask[r].key]],
  status <- [r \in Requests |-> StatusOf(r)],
  told <- [r \in Requests |-> ToldOf(r)]

ImplementsService == Service!Spec

-----------------------------------------------------------------------------
Replied(r) == handler[r] \in {"answered", "failed"}

(***************************************************************************)
(* With one running request at a time, every request accepted while the    *)
(* engine was open is answered, even if close() is called meanwhile and    *)
(* clients disconnect in the middle of their streams.                      *)
(***************************************************************************)
AcceptedIsAnswered ==
  \A r \in Requests : (Accepted(r) /\ ~closed) ~> Replied(r)

(***************************************************************************)
(* With batching, and room for every request, an accepted request is       *)
(* answered as long as the engine stays open.                              *)
(***************************************************************************)
AnsweredWhileOpen ==
  \A r \in Requests : (Accepted(r) /\ ~closed) ~> (Replied(r) \/ closed)

(***************************************************************************)
(* close() stops the worker when its sentinel found room, even if the      *)
(* sentinel is collected and put back many times.                          *)
(***************************************************************************)
CloseStopsWorker == closed ~> worker = "stopped"
=============================================================================
