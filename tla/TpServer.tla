------------------------------ MODULE TpServer ------------------------------
(***************************************************************************)
(* The C++ server under tensor parallelism: cpp_engine/src/                *)
(* openai_server.cpp (the HTTP threads of rank 0), dsv4_engine.cpp         *)
(* (PersistentEngine: commands, worker loop, prefill and decode) and       *)
(* cmd_channel.cpp (one unix socket from rank 0 to each worker rank).      *)
(*                                                                         *)
(* Rank 0 leads: it writes a command to every worker, does the same work   *)
(* itself, and meets the workers in the collectives of the forward pass    *)
(* and of select_token.  A collective knows nothing of requests: it joins  *)
(* whatever the ranks bring to it.                                         *)
(*                                                                         *)
(* A request is one HTTP thread of rank 0.  One forward pass and its       *)
(* collectives are one meeting of the ranks.  One write of a command, or   *)
(* of its payload, to one socket is atomic.                                *)
(***************************************************************************)
EXTENDS Naturals, Sequences, FiniteSets

CONSTANTS
  World,         \* number of ranks; rank 0 is the root
  Plain,         \* requests that do not stream
  Streams,       \* requests that stream
  MaxSteps,      \* bound: max_tokens, the tokens a request generates at most
  Faulty,        \* ranks whose forward pass may raise (OOM, CUDA error)
  MaxFaults,     \* bound: how many times that happens
  Patient,       \* requests of clients that never overlap with another request
  Nobody         \* the mutex is free

Requests == Plain \cup Streams
Ranks == 0..World - 1
Workers  == 1..World - 1

ASSUME TpAssumption ==
  /\ World \in Nat \ {0}
  /\ Plain \cap Streams = {}
  /\ Nobody \notin Requests
  /\ MaxSteps \in Nat \ {0}
  /\ Faulty \subseteq Ranks
  /\ MaxFaults \in Nat
  /\ Patient \subseteq Requests

VARIABLES
  rootUp,    \* the process of rank 0 is running
  main,      \* the main thread of rank 0: in run(), or past it
  pc,        \* pc[r]: where the thread of request r is
  inflight,  \* the thread that holds the mutex inflight, or Nobody
  to,        \* to[r]: the next worker that r's current send writes to
  steps,     \* steps[r]: tokens computed for r
  chan,      \* chan[w]: words in the socket from rank 0 to worker w
  wstate,    \* wstate[w]: where worker w is in run_worker_loop
  job,       \* job[w]: the request of the command w is executing
  session,   \* session[k]: requests fed to rank k since its last reset
  faults     \* number of forward passes that raised

threads == <<pc, inflight, to, steps>>
workers == <<wstate, job>>
vars == <<rootUp, main, pc, inflight, to, steps, chan, wstate, job, session, faults>>

Word == [cmd : {"reset", "prefill", "payload", "decode"}, by : Requests]
          \cup {[cmd |-> "shutdown", by |-> Nobody]}
Over == {"answered", "failed", "refused"}
Sending == {"reset", "prefill", "payload", "decode"}
ThreadStates ==
  {"new", "queued", "routing", "clear", "compute", "collective", "reply"}
    \cup Sending \cup Over
LoopStates ==
  {"idle", "payload", "compute", "collective", "stopped", "lost", "dead"}

\* The span of prefill, decode and reset calls on behalf of r.
Generating(r) ==
  pc[r] \in Sending \cup {"clear", "compute", "collective"}

Init ==
  /\ rootUp = TRUE
  /\ main \in {"listening", "past"}     \* listen() may fail at once
  /\ pc = [r \in Requests |-> "new"]
  /\ inflight = Nobody
  /\ to = [r \in Requests |-> 1]
  /\ steps = [r \in Requests |-> 0]
  /\ chan = [w \in Workers |-> <<>>]
  /\ wstate = [w \in Workers |-> "idle"]
  /\ job = [w \in Workers |-> Nobody]
  /\ session = [k \in Ranks |-> <<>>]
  /\ faults = 0

-----------------------------------------------------------------------------
(***************************************************************************)
(* The thread of a request: handle_chat_completions.                       *)
(***************************************************************************)
Goto(r, place) == pc' = [pc EXCEPT ![r] = place]

\* Parsing and encoding, before the lock: 400, or on to the mutex.  A patient
\* client waits for the server to be quiet, and the others leave it alone.
Arrive(r) ==
  /\ rootUp /\ main = "listening" /\ pc[r] = "new"
  /\ \A s \in Requests \ {r} :
       {r, s} \cap Patient # {} => pc[s] \in Over \cup {"new"}
  /\ \E place \in {"queued", "refused"} : Goto(r, place)
  /\ UNCHANGED <<rootUp, main, inflight, to, steps, chan, workers, session, faults>>

\* A mutant of Lock: the mutex is not taken.
LockNot(r) ==
  /\ rootUp /\ pc[r] = "queued"
  /\ inflight' = r
  /\ Goto(r, "routing")
  /\ UNCHANGED <<rootUp, main, to, steps, chan, workers, session, faults>>

Lock(r) ==
  /\ rootUp /\ pc[r] = "queued" /\ inflight = Nobody
  /\ inflight' = r
  /\ Goto(r, "routing")
  /\ UNCHANGED <<rootUp, main, to, steps, chan, workers, session, faults>>

\* A mutant of Route: the early return of a 400 keeps the mutex.
RouteKeepsLock(r) ==
  /\ rootUp /\ pc[r] = "routing"
  /\ \/ Goto(r, "refused") /\ UNCHANGED inflight
     \/ Goto(r, "reset") /\ inflight' = IF r \in Streams THEN Nobody ELSE inflight
  /\ UNCHANGED <<rootUp, main, to, steps, chan, workers, session, faults>>

(***************************************************************************)
(* Past max_context the reply is 400.  handle_nonstream generates under    *)
(* the lock_guard; handle_stream only registers the content provider, and  *)
(* the guard is gone when httplib calls it.                                *)
(***************************************************************************)
Route(r) ==
  /\ rootUp /\ pc[r] = "routing"
  /\ \/ Goto(r, "refused") /\ inflight' = Nobody
     \/ Goto(r, "reset") /\ inflight' = IF r \in Streams THEN Nobody ELSE inflight
  /\ UNCHANGED <<rootUp, main, to, steps, chan, workers, session, faults>>

\* A mutant of AfterSend: rank 0 does not reset its own session.
AfterSendNoClear(cmd) ==
  CASE cmd = "reset" -> "prefill"
    [] cmd = "prefill" -> "payload"
    [] OTHER -> "compute"

\* What r does after it has sent a command to every worker.
AfterSend(cmd) ==
  CASE cmd = "reset" -> "clear"
    [] cmd = "prefill" -> "payload"
    [] OTHER -> "compute"

\* send_to_workers: one write per worker, in the order of the ranks.
SendTo(r) ==
  /\ rootUp /\ pc[r] \in Sending /\ to[r] < World
  /\ chan' = [chan EXCEPT ![to[r]] = Append(@, [cmd |-> pc[r], by |-> r])]
  /\ to' = [to EXCEPT ![r] = @ + 1]
  /\ UNCHANGED <<rootUp, main, pc, inflight, steps, workers, session, faults>>

Sent(r) ==
  /\ rootUp /\ pc[r] \in Sending /\ to[r] = World
  /\ Goto(r, AfterSend(pc[r]))
  /\ to' = [to EXCEPT ![r] = 1]
  /\ UNCHANGED <<rootUp, main, inflight, steps, chan, workers, session, faults>>

\* reset_session on rank 0, and on to the prefill.
Clear(r) ==
  /\ rootUp /\ pc[r] = "clear"
  /\ session' = [session EXCEPT ![0] = <<>>]
  /\ Goto(r, "prefill")
  /\ UNCHANGED <<rootUp, main, inflight, to, steps, chan, workers, faults>>

\* The forward pass of prefill or decode_step on rank 0, up to its collectives.
Forward(r) ==
  /\ rootUp /\ pc[r] = "compute"
  /\ session' = [session EXCEPT ![0] = Append(@, r)]
  /\ Goto(r, "collective")
  /\ UNCHANGED <<rootUp, main, inflight, to, steps, chan, workers, faults>>

\* A mutant of Raise: the mutex is not released when an exception passes.
RaiseKeepsLock(r) ==
  /\ rootUp /\ pc[r] = "compute" /\ 0 \in Faulty /\ faults < MaxFaults
  /\ faults' = faults + 1
  /\ session' = [session EXCEPT ![0] = Append(@, r)]
  /\ Goto(r, "failed")
  /\ IF r \in Streams THEN rootUp' = FALSE ELSE UNCHANGED rootUp
  /\ UNCHANGED <<main, inflight, to, steps, chan, workers>>

(***************************************************************************)
(* The forward pass raises on rank 0: the POST handler turns it into a 500 *)
(* and releases the mutex; in a content provider nothing catches it, and   *)
(* the process ends.                                                       *)
(***************************************************************************)
Raise(r) ==
  /\ rootUp /\ pc[r] = "compute" /\ 0 \in Faulty /\ faults < MaxFaults
  /\ faults' = faults + 1
  /\ session' = [session EXCEPT ![0] = Append(@, r)]
  /\ Goto(r, "failed")
  /\ IF r \in Streams
       THEN rootUp' = FALSE /\ UNCHANGED inflight
       ELSE inflight' = Nobody /\ UNCHANGED rootUp
  /\ UNCHANGED <<main, to, steps, chan, workers>>

\* A mutant of Meet: one token more than max_tokens.
MeetTooOften(r) ==
  /\ rootUp /\ pc[r] = "collective"
  /\ \A w \in Workers : wstate[w] = "collective"
  /\ steps' = [steps EXCEPT ![r] = @ + 1]
  /\ wstate' = [w \in Workers |-> "idle"]
  /\ \E place \in {"decode", "reply"} :
       /\ steps'[r] > MaxSteps => place = "reply"
       /\ Goto(r, place)
  /\ UNCHANGED <<rootUp, main, inflight, to, chan, job, session, faults>>

\* A mutant of Meet: rank 0 decodes without a command to the workers.
MeetWithoutCommand(r) ==
  /\ rootUp /\ pc[r] = "collective"
  /\ \A w \in Workers : wstate[w] = "collective"
  /\ steps' = [steps EXCEPT ![r] = @ + 1]
  /\ wstate' = [w \in Workers |-> "idle"]
  /\ Goto(r, IF steps'[r] = MaxSteps THEN "reply" ELSE "compute")
  /\ UNCHANGED <<rootUp, main, inflight, to, chan, job, session, faults>>

(***************************************************************************)
(* All ranks are in a collective: it completes, select_token gives rank 0  *)
(* a token, and every rank leaves.  An end token or max_tokens ends the    *)
(* generation.                                                             *)
(***************************************************************************)
Meet(r) ==
  /\ rootUp /\ pc[r] = "collective"
  /\ \A w \in Workers : wstate[w] = "collective"
  /\ steps' = [steps EXCEPT ![r] = @ + 1]
  /\ wstate' = [w \in Workers |-> "idle"]
  /\ \E place \in {"decode", "reply"} :
       /\ steps'[r] = MaxSteps => place = "reply"
       /\ Goto(r, place)
  /\ UNCHANGED <<rootUp, main, inflight, to, chan, job, session, faults>>

\* The reply (a plain one goes through the sidecar, which may be gone: 500).
Reply(r) ==
  /\ rootUp /\ pc[r] = "reply"
  /\ \E how \in {"answered", "failed"} :
       /\ r \in Streams => how = "answered"
       /\ Goto(r, how)
  /\ inflight' = IF r \in Streams THEN inflight ELSE Nobody
  /\ UNCHANGED <<rootUp, main, to, steps, chan, workers, session, faults>>

\* The main thread after run() has returned: shut the workers down, exit.
Shutdown ==
  /\ rootUp /\ main = "past"
  /\ chan' = [w \in Workers |-> Append(chan[w], [cmd |-> "shutdown", by |-> Nobody])]
  /\ rootUp' = FALSE
  /\ UNCHANGED <<main, threads, workers, session, faults>>

-----------------------------------------------------------------------------
(***************************************************************************)
(* A worker rank: run_worker_loop.                                         *)
(***************************************************************************)
WGoto(w, place) == wstate' = [wstate EXCEPT ![w] = place]

\* recv_from_root of a header, and reset_session when it says so.
Recv(w) ==
  /\ wstate[w] = "idle" /\ chan[w] # <<>>
  /\ chan' = [chan EXCEPT ![w] = Tail(@)]
  /\ LET word == Head(chan[w]) IN
       /\ job' = [job EXCEPT ![w] = word.by]
       /\ WGoto(w, CASE word.cmd = "reset" -> "idle"
                     [] word.cmd = "prefill" -> "payload"
                     [] word.cmd = "decode" -> "compute"
                     [] word.cmd = "shutdown" -> "stopped"
                     [] word.cmd = "payload" -> "lost")
       /\ session' = IF word.cmd = "reset" THEN [session EXCEPT ![w] = <<>>]
                     ELSE session
  /\ UNCHANGED <<rootUp, main, threads, faults>>

\* recv_from_root of the payload: whatever bytes come next.  Bytes of another
\* command leave the worker out of frame, and what it does then is not modelled.
RecvPayload(w) ==
  /\ wstate[w] = "payload" /\ chan[w] # <<>>
  /\ chan' = [chan EXCEPT ![w] = Tail(@)]
  /\ WGoto(w, IF Head(chan[w]) = [cmd |-> "payload", by |-> job[w]]
                THEN "compute" ELSE "lost")
  /\ UNCHANGED <<rootUp, main, threads, job, session, faults>>

WForward(w) ==
  /\ wstate[w] = "compute"
  /\ session' = [session EXCEPT ![w] = Append(@, job[w])]
  /\ WGoto(w, "collective")
  /\ UNCHANGED <<rootUp, main, threads, chan, job, faults>>

\* A mutant of WRaise: nothing catches the exception.
WRaiseEnds(w) ==
  /\ wstate[w] = "compute" /\ w \in Faulty /\ faults < MaxFaults
  /\ faults' = faults + 1
  /\ session' = [session EXCEPT ![w] = Append(@, job[w])]
  /\ WGoto(w, "dead")
  /\ UNCHANGED <<rootUp, main, threads, chan, job>>

\* The forward pass raises on a worker: it is logged, and the loop goes on.
WRaise(w) ==
  /\ wstate[w] = "compute" /\ w \in Faulty /\ faults < MaxFaults
  /\ faults' = faults + 1
  /\ session' = [session EXCEPT ![w] = Append(@, job[w])]
  /\ WGoto(w, "idle")
  /\ UNCHANGED <<rootUp, main, threads, chan, job>>

\* A mutant of Eof: read() = 0 is taken for a reason to read again.
EofIgnored(w) ==
  /\ ~rootUp /\ chan[w] = <<>> /\ wstate[w] \in {"idle", "payload"}
  /\ UNCHANGED vars

\* read_all meets the end of the stream: the worker's process ends.
Eof(w) ==
  /\ ~rootUp /\ chan[w] = <<>> /\ wstate[w] \in {"idle", "payload"}
  /\ WGoto(w, "dead")
  /\ UNCHANGED <<rootUp, main, threads, chan, job, session, faults>>

-----------------------------------------------------------------------------
Thread(r) ==
  \/ Lock(r) \/ Route(r) \/ SendTo(r) \/ Sent(r) \/ Clear(r)
  \/ Forward(r) \/ Meet(r) \/ Reply(r)
Loop(w) == Recv(w) \/ RecvPayload(w) \/ WForward(w) \/ Eof(w)

Next ==
  \/ \E r \in Requests : Arrive(r) \/ Thread(r) \/ Raise(r)
  \/ \E w \in Workers : Loop(w) \/ WRaise(w)
  \/ Shutdown

Spec == Init /\ [][Next]_vars

(***************************************************************************)
(* Threads and worker processes are scheduled, and the main thread goes    *)
(* on after listen() has failed.  A client need not come, and a forward    *)
(* pass need not raise.                                                    *)
(***************************************************************************)
FairSpec ==
  /\ Spec
  /\ \A r \in Requests : WF_vars(Thread(r))
  /\ \A w \in Workers : WF_vars(Loop(w))
  /\ WF_vars(Shutdown)

-----------------------------------------------------------------------------
TypeOK ==
  /\ rootUp \in BOOLEAN
  /\ main \in {"listening", "past"}
  /\ pc \in [Requests -> ThreadStates]
  /\ inflight \in Requests \cup {Nobody}
  /\ to \in [Requests -> 1..World]
  /\ steps \in [Requests -> 0..MaxSteps]
  /\ chan \in [Workers -> Seq(Word)]
  /\ wstate \in [Workers -> LoopStates]
  /\ job \in [Workers -> Requests \cup {Nobody}]
  /\ session \in [Ranks -> Seq(Requests)]
  /\ faults \in 0..MaxFaults

(***************************************************************************)
(* "Requests are serialised: while one chat completion is generating,      *)
(* others queue on the inflight mutex" (include/openai_server.hpp:20-22).  *)
(***************************************************************************)
Serialised ==
  \A r, s \in Requests : Generating(r) /\ Generating(s) => r = s

(***************************************************************************)
(* When the ranks meet in a collective they have all been fed the same     *)
(* since their last reset, and by the request that gets the token: no      *)
(* request resumes the compressor state or the KV cache of another, on any *)
(* rank (reset_session's reason to exist).  Until a forward pass raises:   *)
(* after that the workers may wait in a collective that rank 0 has left.   *)
(***************************************************************************)
Met(r) == pc[r] = "collective" /\ \A w \in Workers : wstate[w] = "collective"
Lockstep == \A r \in Requests : Met(r) /\ faults = 0 =>
  /\ \A k \in Ranks : session[k] = session[0]
  /\ \A i \in 1..Len(session[0]) : session[0][i] = r

(***************************************************************************)
(* A prefill command and its payload are two writes: no other word comes   *)
(* between them on any socket, and none is left unread between requests.   *)
(***************************************************************************)
Framed ==
  /\ \A w \in Workers : wstate[w] # "lost"
  /\ \A w \in Workers : \A i \in 1..Len(chan[w]) :
       chan[w][i].cmd = "payload" =>
         IF i > 1 THEN chan[w][i - 1] = [cmd |-> "prefill", by |-> chan[w][i].by]
                  ELSE wstate[w] = "payload" /\ job[w] = chan[w][i].by

(***************************************************************************)
(* Rank 0 is not in a collective that some worker will not come to: a      *)
(* worker that sleeps in read() on an empty socket waits for a command,    *)
(* which rank 0 will not send before the collective ends.  The comment in  *)
(* run_worker_loop promises it: "so a single failed request doesn't kill   *)
(* the worker and deadlock the server" (dsv4_engine.cpp:9404-9405).        *)
(***************************************************************************)
NoOneWaitsForEver ==
  ~ \E r \in Requests, w \in Workers :
      /\ rootUp /\ \A s \in Requests : pc[s] \in Over \cup {"new", "queued", "collective"}
      /\ pc[r] = "collective" /\ wstate[w] = "idle" /\ chan[w] = <<>>

\* The same for as long as no forward pass raises, for plain requests in any
\* order and for streams one at a time: who sends also serves.
NoOneStalls == faults = 0 => NoOneWaitsForEver

(***************************************************************************)
(* A worker leaves its loop only after rank 0 has: an exception in a       *)
(* request, on any rank, does not end it.                                  *)
(***************************************************************************)
WorkersSurvive ==
  \A w \in Workers : wstate[w] \in {"stopped", "dead"} => ~rootUp

(***************************************************************************)
(* The mutex is held for the whole generation of a plain request and is    *)
(* free when no handler is running: every way out (400, 500, reply, the    *)
(* registration of a provider) releases it.                                *)
(***************************************************************************)
MutexBalanced ==
  /\ \A r \in Plain : Generating(r) \/ pc[r] = "reply" => inflight = r
  /\ inflight # Nobody => pc[inflight] \notin Over \cup {"new", "queued"}

-----------------------------------------------------------------------------
(***************************************************************************)
(* Every request that reached the mutex is replied to, unless a forward    *)
(* pass raises first.                                                      *)
(***************************************************************************)
EveryRequestReturns ==
  \A r \in Requests : pc[r] = "queued" ~> pc[r] \in Over \/ faults > 0

(***************************************************************************)
(* When rank 0 ends, by a shutdown or by an exception in a provider, every *)
(* worker that is not inside a collective ends too.                        *)
(***************************************************************************)
WorkersEnd ==
  \A w \in Workers :
    ~rootUp ~> wstate[w] \in {"stopped", "dead", "collective"}
=============================================================================
