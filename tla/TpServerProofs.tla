--------------------------- MODULE TpServerProofs ---------------------------
(***************************************************************************)
(* Proofs about TpServer, for any number of ranks, requests, tokens and    *)
(* faults.                                                                 *)
(***************************************************************************)
EXTENDS TpServer, TLAPS

(***************************************************************************)
(* Writing to one socket, and reading from one.                            *)
(***************************************************************************)
LEMMA WriteTyped ==
  ASSUME NEW S, NEW E, NEW f \in [S -> Seq(E)], NEW x \in S, NEW e \in E
  PROVE  [f EXCEPT ![x] = Append(@, e)] \in [S -> Seq(E)]
  OBVIOUS

LEMMA ReadTyped ==
  ASSUME NEW S, NEW E, NEW f \in [S -> Seq(E)], NEW x \in S, f[x] # <<>>
  PROVE  /\ Head(f[x]) \in E
         /\ [f EXCEPT ![x] = Tail(@)] \in [S -> Seq(E)]
<1>1. f[x] \in Seq(E)
  OBVIOUS
<1>2. Head(f[x]) \in E /\ Tail(f[x]) \in Seq(E)
  BY <1>1
<1> QED  BY <1>2

LEMMA ClearTyped ==
  ASSUME NEW S, NEW E, NEW f \in [S -> Seq(E)], NEW x
  PROVE  [f EXCEPT ![x] = <<>>] \in [S -> Seq(E)]
<1>1. <<>> \in Seq(E)
  OBVIOUS
<1> QED  BY <1>1

-----------------------------------------------------------------------------
(***************************************************************************)
(* Types.  That steps stays within MaxSteps rests on where a request is    *)
(* when it may get another token; that only requests are fed to sessions   *)
(* rests on what a worker's job is while it works.                         *)
(***************************************************************************)
Budget == \A r \in Requests :
  pc[r] \notin Over \cup {"reply"} => steps[r] < MaxSteps
JobShape == \A w \in Workers :
  wstate[w] \in {"payload", "compute", "collective"} => job[w] \in Requests
TypeInv == TypeOK /\ Budget /\ JobShape

LEMMA TypeInit == Init => TypeInv
<1> SUFFICES ASSUME Init PROVE TypeInv
  OBVIOUS
<1>1. <<>> \in Seq(Word) /\ <<>> \in Seq(Requests)
  OBVIOUS
<1>2. chan \in [Workers -> Seq(Word)] /\ session \in [Ranks -> Seq(Requests)]
  BY <1>1 DEF Init
<1>3. /\ to \in [Requests -> 1..World]
      /\ steps \in [Requests -> 0..MaxSteps]
      /\ faults \in 0..MaxFaults
  BY TpAssumption DEF Init
<1>4. Budget /\ JobShape
  BY TpAssumption DEF Init, Budget, JobShape
<1> QED  BY <1>2, <1>3, <1>4 DEF Init, TypeInv, TypeOK, ThreadStates, LoopStates

\* The steps of a thread of rank 0.
LEMMA ThreadTyped ==
  ASSUME TypeInv, NEW r \in Requests, Arrive(r) \/ Thread(r) \/ Raise(r)
  PROVE  TypeInv'
<1> USE DEF TypeInv, TypeOK, Budget, JobShape, Goto, workers
<1>0. 0 \in Ranks /\ MaxSteps \in Nat \ {0} /\ World \in Nat \ {0} /\ MaxFaults \in Nat
  BY TpAssumption DEF Ranks
<1> USE DEF ThreadStates, Over, Sending
<1>1. CASE Arrive(r)  BY <1>1 DEF Arrive
<1>2. CASE Lock(r)  BY <1>2 DEF Lock
<1>3. CASE Route(r)  BY <1>3 DEF Route
<1>4. CASE SendTo(r)
  <2>1. to[r] \in Workers /\ [cmd |-> pc[r], by |-> r] \in Word
    BY <1>0, <1>4 DEF SendTo, Workers, Word
  <2>2. chan' \in [Workers -> Seq(Word)]
    BY <1>4, <2>1, WriteTyped DEF SendTo
  <2>3. to' \in [Requests -> 1..World]
    BY <1>0, <1>4 DEF SendTo
  <2> QED  BY <1>4, <2>2, <2>3 DEF SendTo
<1>5. CASE Sent(r)
  <2>1. AfterSend(pc[r]) \in {"clear", "payload", "compute"}
    BY <1>5 DEF Sent, AfterSend
  <2>2. to' \in [Requests -> 1..World]
    BY <1>0, <1>5 DEF Sent
  <2> QED  BY <1>5, <2>1, <2>2 DEF Sent
<1>6. CASE Clear(r)
  BY <1>6, ClearTyped DEF Clear
<1>7. CASE Forward(r)
  BY <1>0, <1>7, WriteTyped DEF Forward
<1>8. CASE Meet(r)
  <2>1. PICK place \in {"decode", "reply"} :
          (steps'[r] = MaxSteps => place = "reply") /\ Goto(r, place)
    BY <1>8 DEF Meet
  <2>2. steps[r] < MaxSteps /\ steps[r] \in 0..MaxSteps
    BY <1>8 DEF Meet
  <2>3. steps' = [steps EXCEPT ![r] = @ + 1] /\ steps[r] + 1 \in 0..MaxSteps
    BY <1>0, <1>8, <2>2 DEF Meet
  <2>4. steps' \in [Requests -> 0..MaxSteps]
    BY <2>3
  <2>5. Budget'
    BY <1>0, <1>8, <2>1, <2>3 DEF Meet
  <2>6. wstate' \in [Workers -> LoopStates] /\ JobShape'
    BY <1>8 DEF Meet, LoopStates
  <2> QED  BY <1>8, <2>1, <2>4, <2>5, <2>6 DEF Meet
<1>9. CASE Reply(r)  BY <1>9 DEF Reply
<1>10. CASE Raise(r)
  <2>1. session' \in [Ranks -> Seq(Requests)]
    BY <1>0, <1>10, WriteTyped DEF Raise
  <2>2. faults' \in 0..MaxFaults
    BY <1>0, <1>10 DEF Raise
  <2> QED  BY <1>10, <2>1, <2>2 DEF Raise
<1> QED
  BY <1>1, <1>2, <1>3, <1>4, <1>5, <1>6, <1>7, <1>8, <1>9, <1>10 DEF Thread

\* The steps of a worker rank.
LEMMA LoopTyped ==
  ASSUME TypeInv, NEW w \in Workers, Loop(w) \/ WRaise(w)
  PROVE  TypeInv'
<1> USE DEF TypeInv, TypeOK, Budget, JobShape, WGoto, threads
<1>0. w \in Ranks /\ MaxFaults \in Nat
  BY TpAssumption DEF Ranks, Workers
<1>1. CASE Recv(w)
  <2> DEFINE word == Head(chan[w])
  <2>1. word \in Word /\ chan' \in [Workers -> Seq(Word)]
    BY <1>1, ReadTyped DEF Recv
  <2>2. /\ word.by \in Requests \cup {Nobody}
        /\ word.cmd \in {"reset", "prefill", "payload", "decode", "shutdown"}
        /\ word.cmd # "shutdown" => word.by \in Requests
    BY <2>1 DEF Word
  <2>3. job' = [job EXCEPT ![w] = word.by]
    BY <1>1 DEF Recv
  <2>4. session' \in [Ranks -> Seq(Requests)]
    BY <1>1, ClearTyped DEF Recv
  <2>5. PICK place \in LoopStates :
          /\ wstate' = [wstate EXCEPT ![w] = place]
          /\ place \in {"payload", "compute", "collective"} => word.cmd # "shutdown"
    BY <1>1, <2>2 DEF Recv, LoopStates
  <2>6. JobShape'
    BY <2>2, <2>3, <2>5
  <2> QED  BY <1>1, <2>1, <2>2, <2>3, <2>4, <2>5, <2>6 DEF Recv
<1>2. CASE RecvPayload(w)
  BY <1>2, ReadTyped DEF RecvPayload, LoopStates
<1>3. CASE WForward(w)
  <2>1. session' \in [Ranks -> Seq(Requests)]
    BY <1>0, <1>3, WriteTyped DEF WForward
  <2> QED  BY <1>3, <2>1 DEF WForward, LoopStates
<1>4. CASE WRaise(w)
  <2>1. session' \in [Ranks -> Seq(Requests)]
    BY <1>0, <1>4, WriteTyped DEF WRaise
  <2>2. faults' \in 0..MaxFaults
    BY <1>0, <1>4 DEF WRaise
  <2> QED  BY <1>4, <2>1, <2>2 DEF WRaise, LoopStates
<1>5. CASE Eof(w)
  BY <1>5 DEF Eof, LoopStates
<1> QED  BY <1>1, <1>2, <1>3, <1>4, <1>5 DEF Loop

LEMMA ShutdownTyped ==
  ASSUME TypeInv, Shutdown
  PROVE  TypeInv'
<1> DEFINE word == [cmd |-> "shutdown", by |-> Nobody]
<1>1. word \in Word
  BY DEF Word
<1>2. \A w \in Workers : Append(chan[w], word) \in Seq(Word)
  BY <1>1 DEF TypeInv, TypeOK
<1>3. chan' \in [Workers -> Seq(Word)]
  BY <1>2 DEF Shutdown
<1> QED
  BY <1>3 DEF Shutdown, TypeInv, TypeOK, Budget, JobShape, threads, workers

LEMMA TypeNext == TypeInv /\ [Next]_vars => TypeInv'
<1> SUFFICES ASSUME TypeInv, [Next]_vars PROVE TypeInv'
  OBVIOUS
<1>1. CASE UNCHANGED vars
  BY <1>1 DEF vars, threads, workers, TypeInv, TypeOK, Budget, JobShape
<1> QED  BY <1>1, ThreadTyped, LoopTyped, ShutdownTyped DEF Next

LEMMA TypeInvHolds == Spec => []TypeInv
  BY TypeInit, TypeNext, PTL DEF Spec

(***************************************************************************)
(* Every reachable state of the C++ server and its ranks has the declared  *)
(* types; in particular no request computes more than max_tokens           *)
(* (openai_server.cpp, the loops of handle_nonstream and handle_stream).   *)
(***************************************************************************)
THEOREM TypeCorrect == Spec => []TypeOK
  BY TypeInvHolds, PTL DEF TypeInv

-----------------------------------------------------------------------------
(***************************************************************************)
(* The mutex.  MutexBalanced is not inductive: it does not tell who holds  *)
(* the mutex between Lock and the end of Route, nor that a holder is there *)
(* for a reason.                                                           *)
(***************************************************************************)
Holds(r) ==
  \/ pc[r] = "routing"
  \/ r \in Plain /\ (Generating(r) \/ pc[r] = "reply")
Held ==
  /\ \A r \in Requests : Holds(r) => inflight = r
  /\ inflight # Nobody => Holds(inflight)

LEMMA HeldInit == Init => Held
  BY TpAssumption DEF Init, Held, Holds, Generating, Sending, Requests

LEMMA ThreadHeld ==
  ASSUME TypeOK, Held, NEW r \in Requests, Arrive(r) \/ Thread(r) \/ Raise(r)
  PROVE  Held'
<1> USE DEF Held, Holds, Generating, Sending, Goto, TypeOK
<1>0. \A q \in Requests : q # Nobody /\ (q \notin Streams <=> q \in Plain)
  BY TpAssumption DEF Requests
<1> USE <1>0
<1>1. CASE Arrive(r)  BY <1>1 DEF Arrive
<1>2. CASE Lock(r)  BY <1>2 DEF Lock
<1>3. CASE Route(r)  BY <1>3 DEF Route
<1>4. CASE SendTo(r)  BY <1>4 DEF SendTo
<1>5. CASE Sent(r)
  <2>1. AfterSend(pc[r]) \in {"clear", "payload", "compute"}
    BY <1>5 DEF Sent, AfterSend
  <2> QED  BY <1>5, <2>1 DEF Sent
<1>6. CASE Clear(r)  BY <1>6 DEF Clear
<1>7. CASE Forward(r)  BY <1>7 DEF Forward
<1>8. CASE Meet(r)  BY <1>8 DEF Meet
<1>9. CASE Reply(r)  BY <1>9 DEF Reply
<1>10. CASE Raise(r)  BY <1>10 DEF Raise
<1> QED
  BY <1>1, <1>2, <1>3, <1>4, <1>5, <1>6, <1>7, <1>8, <1>9, <1>10 DEF Thread

LEMMA OthersHeld ==
  ASSUME Held, \/ \E w \in Workers : Loop(w) \/ WRaise(w)
               \/ Shutdown
               \/ UNCHANGED vars
  PROVE  Held'
<1>1. UNCHANGED <<pc, inflight>>
  BY DEF Loop, Recv, RecvPayload, WForward, WRaise, Eof, Shutdown, vars, threads
<1> QED  BY <1>1 DEF Held, Holds, Generating

LEMMA HeldHolds == Spec => []Held
<1>1. TypeOK /\ Held /\ [Next]_vars => Held'
  BY ThreadHeld, OthersHeld DEF Next
<1> QED  BY <1>1, HeldInit, TypeCorrect, PTL DEF Spec

(***************************************************************************)
(* The mutex is held while a plain request generates, and every way out of *)
(* handle_chat_completions, an exception included, releases it.            *)
(***************************************************************************)
THEOREM MutexBalancedHolds == Spec => []MutexBalanced
<1>1. TypeOK /\ Held => MutexBalanced
  <2> SUFFICES ASSUME TypeOK, Held PROVE MutexBalanced
    OBVIOUS
  <2>1. ASSUME inflight # Nobody
        PROVE  pc[inflight] \notin Over \cup {"new", "queued"}
    BY <2>1 DEF Held, Holds, Generating, Sending, Over
  <2> QED  BY <2>1 DEF Held, Holds, MutexBalanced, Requests
<1> QED  BY <1>1, HeldHolds, TypeCorrect, PTL

(***************************************************************************)
(* A stream generates without the mutex.  When every client of a stream is *)
(* patient, its stream overlaps with no other request all the same, and at *)
(* most one request is anywhere between Lock and its reply.                *)
(***************************************************************************)
Serving(r) == pc[r] \in {"routing", "reply"} \/ Generating(r)
Away(r) == pc[r] \in Over \cup {"new"}
Alone == \A r \in Patient, s \in Requests : r # s => Away(r) \/ Away(s)

LEMMA AloneHolds == Spec => []Alone
<1>1. Init => Alone
  BY TpAssumption DEF Init, Alone, Away
<1>2. TypeOK /\ Alone /\ [Next]_vars => Alone'
  <2> SUFFICES ASSUME TypeOK, Alone, [Next]_vars,
                      NEW r \in Patient, NEW s \in Requests, r # s
               PROVE  Away(r)' \/ Away(s)'
    BY DEF Alone
  <2>0. r \in Requests
    BY TpAssumption
  <2>1. ASSUME NEW q \in Requests, Arrive(q)  PROVE Away(r)' \/ Away(s)'
    <3>1. q = r => Away(s)' /\ pc'[s] = pc[s]
      BY <2>0, <2>1 DEF Arrive, Goto, Away, TypeOK
    <3>2. q = s => Away(r)'
      BY <2>0, <2>1 DEF Arrive, Goto, Away, TypeOK
    <3>3. q # r /\ q # s => Away(r)' \/ Away(s)'
      BY <2>0, <2>1 DEF Arrive, Goto, Away, TypeOK, Alone
    <3> QED  BY <3>1, <3>2, <3>3
  <2>2. ASSUME NEW q \in Requests, Thread(q) \/ Raise(q)  PROVE Away(r)' \/ Away(s)'
    <3>1. ~Away(q)
      BY <2>2 DEF Thread, Lock, Route, SendTo, Sent, Clear, Forward, Meet, Reply,
                  Raise, Away, Over, Sending
    <3>2. \A x \in Requests : x # q => pc'[x] = pc[x]
      BY <2>2 DEF Thread, Lock, Route, SendTo, Sent, Clear, Forward, Meet, Reply,
                  Raise, Goto, TypeOK
    <3> QED  BY <2>0, <3>1, <3>2 DEF Alone, Away
  <2>3. ASSUME UNCHANGED pc  PROVE Away(r)' \/ Away(s)'
    BY <2>0, <2>3 DEF Alone, Away
  <2>4. (\E w \in Workers : Loop(w) \/ WRaise(w)) \/ Shutdown \/ UNCHANGED vars => UNCHANGED pc
    BY DEF Loop, Recv, RecvPayload, WForward, WRaise, Eof, Shutdown, threads, vars
  <2> QED  BY <2>1, <2>2, <2>3, <2>4 DEF Next
<1> QED  BY <1>1, <1>2, TypeCorrect, PTL DEF Spec

LEMMA OneServed ==
  ASSUME Held, Alone, Streams \subseteq Patient,
         NEW r \in Requests, NEW s \in Requests, Serving(r), Serving(s)
  PROVE  r = s
<1>1. ~Away(r) /\ ~Away(s)
  BY DEF Serving, Generating, Away, Over, Sending
<1>2. CASE r \in Patient \/ s \in Patient
  BY <1>1, <1>2 DEF Alone
<1>3. CASE r \in Plain /\ s \in Plain
  BY <1>3 DEF Held, Holds, Serving
<1> QED  BY <1>2, <1>3 DEF Requests

(***************************************************************************)
(* The header's promise is kept (include/openai_server.hpp:20-22), for any *)
(* number of ranks and plain clients, as long as a stream overlaps with no *)
(* other request: one request generates at a time.  A stream that does     *)
(* overlap is enough to break it.                                          *)
(***************************************************************************)
THEOREM SerialisedOneStream ==
  ASSUME Streams \subseteq Patient
  PROVE  Spec => []Serialised
<1>1. Held /\ Alone => Serialised
  BY OneServed DEF Serving, Serialised
<1> QED  BY <1>1, HeldHolds, AloneHolds, PTL

(***************************************************************************)
(* Nothing generates once rank 0 is gone: it ends by a shutdown that no    *)
(* request has seen, or by the exception of the only one generating.       *)
(***************************************************************************)
Quiet ==
  /\ main = "past" => \A r \in Requests : pc[r] = "new"
  /\ ~rootUp => \A r \in Requests : ~Generating(r)

LEMMA QuietHolds ==
  ASSUME Streams \subseteq Patient
  PROVE  Spec => []Quiet
<1>1. Init => Quiet
  BY DEF Init, Quiet
<1>2. TypeOK /\ Held /\ Alone /\ Quiet /\ [Next]_vars => Quiet'
  <2> SUFFICES ASSUME TypeOK, Held, Alone, Quiet, [Next]_vars PROVE Quiet'
    OBVIOUS
  <2>1. ASSUME NEW r \in Requests, Arrive(r) \/ Thread(r)  PROVE Quiet'
    <3>1. UNCHANGED <<rootUp, main>> /\ rootUp
      BY <2>1 DEF Arrive, Thread, Lock, Route, SendTo, Sent, Clear, Forward, Meet, Reply
    <3>2. main # "past"
      BY <2>1 DEF Arrive, Thread, Lock, Route, SendTo, Sent, Clear, Forward, Meet, Reply,
                  Quiet, Sending
    <3> QED  BY <3>1, <3>2 DEF Quiet
  <2>2. ASSUME NEW r \in Requests, Raise(r)  PROVE Quiet'
    <3>1. /\ pc[r] = "compute" /\ pc' = [pc EXCEPT ![r] = "failed"] /\ rootUp
          /\ main' = main /\ rootUp' \in BOOLEAN
      BY <2>2 DEF Raise, Goto, TypeOK
    <3>2. main # "past"
      BY <3>1 DEF Quiet
    <3>3. \A s \in Requests : s # r => ~Generating(s)
      BY <3>1, OneServed DEF Serving, Generating
    <3>4. \A s \in Requests : ~Generating(s)'
      BY <3>1, <3>3 DEF Generating, Sending, TypeOK
    <3> QED  BY <3>1, <3>2, <3>4 DEF Quiet
  <2>3. CASE Shutdown
    BY <2>3 DEF Shutdown, threads, Quiet, Generating, Sending
  <2>4. CASE (\E w \in Workers : Loop(w) \/ WRaise(w)) \/ UNCHANGED vars
    <3>1. UNCHANGED <<rootUp, main, pc>>
      BY <2>4 DEF Loop, Recv, RecvPayload, WForward, WRaise, Eof, threads, vars
    <3> QED  BY <3>1 DEF Quiet, Generating
  <2> QED  BY <2>1, <2>2, <2>3, <2>4 DEF Next
<1> QED  BY <1>1, <1>2, HeldHolds, AloneHolds, TypeCorrect, PTL DEF Spec

-----------------------------------------------------------------------------
(***************************************************************************)
(* The workers.  One leaves its loop on a shutdown word or at the end of   *)
(* the stream, and neither is there before rank 0 is gone.                 *)
(***************************************************************************)
NoEarlyShutdown == \A w \in Workers : \A i \in 1..Len(chan[w]) :
  chan[w][i].cmd = "shutdown" => ~rootUp
Loyal == WorkersSurvive /\ NoEarlyShutdown

LEMMA LoyalInit == Init => Loyal
  BY DEF Init, Loyal, WorkersSurvive, NoEarlyShutdown

LEMMA ThreadLoyal ==
  ASSUME TypeOK, Loyal, NEW r \in Requests, Arrive(r) \/ Thread(r) \/ Raise(r)
  PROVE  Loyal'
<1> USE DEF TypeOK, Loyal, WorkersSurvive, NoEarlyShutdown, workers
<1>1. CASE SendTo(r)
  <2> DEFINE word == [cmd |-> pc[r], by |-> r]
  <2>1. word.cmd # "shutdown"
    BY <1>1 DEF SendTo, Sending
  <2>2. NoEarlyShutdown'
    <3> SUFFICES ASSUME NEW w \in Workers, NEW i \in 1..Len(chan'[w]),
                        chan'[w][i].cmd = "shutdown"
                 PROVE  ~rootUp'
      OBVIOUS
    <3>1. chan'[w] = chan[w] \/ chan'[w] = Append(chan[w], word)
      BY <1>1 DEF SendTo
    <3>2. CASE chan'[w] = chan[w]
      BY <1>1, <3>2 DEF SendTo
    <3>3. CASE chan'[w] = Append(chan[w], word)
      <4>1. chan[w] \in Seq(Word)
        OBVIOUS
      <4>2. chan'[w][i] # word
        BY <2>1
      <4>3. i \in 1..Len(chan[w]) /\ chan'[w][i] = chan[w][i]
        BY <3>3, <4>1, <4>2
      <4> QED  BY <1>1, <4>3 DEF SendTo
    <3> QED  BY <3>1, <3>2, <3>3
  <2> QED  BY <1>1, <2>2 DEF SendTo
<1>2. CASE Meet(r)
  BY <1>2 DEF Meet
<1>3. CASE Raise(r)
  BY <1>3 DEF Raise
<1>4. CASE ~SendTo(r) /\ ~Meet(r) /\ ~Raise(r)
  <2>1. UNCHANGED <<rootUp, chan, wstate>>
    BY <1>4 DEF Thread, Arrive, Lock, Route, Sent, Clear, Forward, Reply
  <2> QED  BY <2>1
<1> QED  BY <1>1, <1>2, <1>3, <1>4

LEMMA OthersLoyal ==
  ASSUME TypeOK, Loyal, \/ \E w \in Workers : Loop(w) \/ WRaise(w)
                        \/ Shutdown
                        \/ UNCHANGED vars
  PROVE  Loyal'
<1> USE DEF TypeOK, Loyal, WorkersSurvive, NoEarlyShutdown, WGoto
<1>1. ASSUME NEW w \in Workers, Recv(w)  PROVE Loyal'
  <2>1. chan[w] \in Seq(Word) /\ chan[w] # <<>> /\ Head(chan[w]) = chan[w][1]
    BY <1>1 DEF Recv
  <2>2. \A v \in Workers : \A i \in 1..Len(chan'[v]) :
          \E j \in 1..Len(chan[v]) : chan'[v][i] = chan[v][j]
    <3> SUFFICES ASSUME NEW v \in Workers, NEW i \in 1..Len(chan'[v])
                 PROVE  \E j \in 1..Len(chan[v]) : chan'[v][i] = chan[v][j]
      OBVIOUS
    <3>1. CASE v = w
      <4>1. chan'[v] = Tail(chan[v])
        BY <1>1, <3>1 DEF Recv
      <4>2. i + 1 \in 1..Len(chan[v]) /\ chan'[v][i] = chan[v][i + 1]
        BY <2>1, <3>1, <4>1
      <4> QED  BY <4>2
    <3>2. CASE v # w
      BY <1>1, <3>2 DEF Recv
    <3> QED  BY <3>1, <3>2
  <2>3. Head(chan[w]).cmd = "shutdown" => ~rootUp
    BY <2>1
  <2>4. wstate'[w] \in {"stopped", "dead"} => Head(chan[w]).cmd = "shutdown"
    <3>1. Head(chan[w]).cmd \in {"reset", "prefill", "payload", "decode", "shutdown"}
      BY <2>1 DEF Word
    <3> QED  BY <1>1, <3>1 DEF Recv
  <2>5. rootUp' = rootUp /\ \A v \in Workers \ {w} : wstate'[v] = wstate[v]
    BY <1>1 DEF Recv
  <2>6. NoEarlyShutdown'
    <3> SUFFICES ASSUME NEW v \in Workers, NEW i \in 1..Len(chan'[v]),
                        chan'[v][i].cmd = "shutdown"
                 PROVE  ~rootUp'
      OBVIOUS
    <3>1. PICK j \in 1..Len(chan[v]) : chan'[v][i] = chan[v][j]
      BY <2>2
    <3> QED  BY <2>5, <3>1
  <2>7. WorkersSurvive'
    BY <2>3, <2>4, <2>5
  <2> QED  BY <2>6, <2>7
<1>2. ASSUME NEW w \in Workers, RecvPayload(w)  PROVE Loyal'
  <2>1. chan[w] \in Seq(Word) /\ chan[w] # <<>>
    BY <1>2 DEF RecvPayload
  <2>2. \A v \in Workers : \A i \in 1..Len(chan'[v]) :
          \E j \in 1..Len(chan[v]) : chan'[v][i] = chan[v][j]
    <3> SUFFICES ASSUME NEW v \in Workers, NEW i \in 1..Len(chan'[v])
                 PROVE  \E j \in 1..Len(chan[v]) : chan'[v][i] = chan[v][j]
      OBVIOUS
    <3>1. CASE v = w
      <4>1. chan'[v] = Tail(chan[v])
        BY <1>2, <3>1 DEF RecvPayload
      <4>2. i + 1 \in 1..Len(chan[v]) /\ chan'[v][i] = chan[v][i + 1]
        BY <2>1, <3>1, <4>1
      <4> QED  BY <4>2
    <3>2. CASE v # w
      BY <1>2, <3>2 DEF RecvPayload
    <3> QED  BY <3>1, <3>2
  <2>3. NoEarlyShutdown'
    <3> SUFFICES ASSUME NEW v \in Workers, NEW i \in 1..Len(chan'[v]),
                        chan'[v][i].cmd = "shutdown"
                 PROVE  ~rootUp'
      OBVIOUS
    <3>1. PICK j \in 1..Len(chan[v]) : chan'[v][i] = chan[v][j]
      BY <2>2
    <3> QED  BY <1>2, <3>1 DEF RecvPayload
  <2>4. WorkersSurvive'
    BY <1>2 DEF RecvPayload
  <2> QED  BY <2>3, <2>4
<1>3. ASSUME NEW w \in Workers, WForward(w) \/ WRaise(w) \/ Eof(w)  PROVE Loyal'
  <2>1. UNCHANGED <<rootUp, chan>>
    BY <1>3 DEF WForward, WRaise, Eof
  <2>2. WorkersSurvive'
    BY <1>3 DEF WForward, WRaise, Eof
  <2> QED  BY <2>1, <2>2
<1>4. CASE Shutdown
  BY <1>4 DEF Shutdown
<1>5. CASE UNCHANGED vars
  BY <1>5 DEF vars, workers
<1> QED  BY <1>1, <1>2, <1>3, <1>4, <1>5 DEF Loop

(***************************************************************************)
(* An exception in a request, on any rank, does not end a worker: it runs  *)
(* as long as rank 0 does (dsv4_engine.cpp:9404-9407, "workers staying     *)
(* alive"), for any number of faults.                                      *)
(***************************************************************************)
THEOREM WorkersSurviveHolds == Spec => []WorkersSurvive
<1>1. TypeOK /\ Loyal /\ [Next]_vars => Loyal'
  BY ThreadLoyal, OthersLoyal DEF Next
<1>2. Loyal => WorkersSurvive
  BY DEF Loyal
<1> QED  BY <1>1, <1>2, LoyalInit, TypeCorrect, PTL DEF Spec

-----------------------------------------------------------------------------
(***************************************************************************)
(* Framing.  On one socket a payload comes right after the prefill command *)
(* of the same request, and nothing else does; what a worker has read last *)
(* counts as the word before the first.                                    *)
(***************************************************************************)
Follows(e, d) ==
  /\ e.cmd = "payload" <=> d.cmd = "prefill"
  /\ d.cmd = "prefill" => e.by = d.by
Chained(q) == \A i \in 1..Len(q) - 1 : Follows(q[i + 1], q[i])

LEMMA AppendEnds ==
  ASSUME NEW S, NEW q \in Seq(S), NEW e \in S
  PROVE  LET p == Append(q, e) IN
           p # <<>> /\ p[Len(p)] = e /\ p[1] = IF q = <<>> THEN e ELSE q[1]
<1> DEFINE p == Append(q, e)
<1>1. Len(p) = Len(q) + 1 /\ p[Len(q) + 1] = e
  OBVIOUS
<1>2. q # <<>> => p[1] = q[1]
  OBVIOUS
<1>3. q = <<>> => p[1] = e
  <2>1. q = <<>> => Len(q) = 0
    OBVIOUS
  <2> QED  BY <1>1, <2>1
<1>4. p # <<>>
  <2>1. Len(p) # 0 /\ Len(<<>>) = 0
    BY <1>1
  <2> HIDE DEF p
  <2> QED  BY <2>1
<1> HIDE DEF p
<1>5. p[Len(p)] = e
  BY <1>1
<1> QED  BY <1>2, <1>3, <1>4, <1>5 DEF p

LEMMA ChainAppend ==
  ASSUME NEW q \in Seq(Word), NEW e, Chained(q), q # <<>> => Follows(e, q[Len(q)])
  PROVE  Chained(Append(q, e))
<1> DEFINE p == Append(q, e)
<1> SUFFICES ASSUME NEW i \in 1..Len(p) - 1 PROVE Follows(p[i + 1], p[i])
  BY DEF Chained
<1>1. Len(p) = Len(q) + 1 /\ i \in 1..Len(q) /\ p[i] = q[i] /\ q # <<>>
  OBVIOUS
<1>2. CASE i = Len(q)
  <2>1. p[i + 1] = e
    BY <1>1, <1>2
  <2> QED  BY <1>1, <1>2, <2>1
<1>3. CASE i < Len(q)
  <2>1. p[i + 1] = q[i + 1] /\ i \in 1..Len(q) - 1
    BY <1>1, <1>3
  <2> QED  BY <1>1, <2>1 DEF Chained
<1> QED  BY <1>1, <1>2, <1>3

LEMMA ChainTail ==
  ASSUME NEW q \in Seq(Word), q # <<>>, Chained(q)
  PROVE  /\ Chained(Tail(q))
         /\ Tail(q) # <<>> => /\ Follows(Tail(q)[1], q[1])
                              /\ Tail(q)[Len(Tail(q))] = q[Len(q)]
         /\ Tail(q) = <<>> => q[Len(q)] = q[1]
<1>1. Len(Tail(q)) = Len(q) - 1 /\ \A i \in 1..Len(q) - 1 : Tail(q)[i] = q[i + 1]
  OBVIOUS
<1>2. ASSUME NEW i \in 1..Len(Tail(q)) - 1
      PROVE  Follows(Tail(q)[i + 1], Tail(q)[i])
  <2>1. i \in 1..Len(q) - 1 /\ i + 1 \in 1..Len(q) - 1
    BY <1>1, <1>2
  <2>2. Tail(q)[i] = q[i + 1] /\ Tail(q)[i + 1] = q[(i + 1) + 1]
    BY <1>1, <2>1
  <2> QED  BY <2>1, <2>2 DEF Chained
<1>3. ASSUME Tail(q) # <<>>
      PROVE  Follows(Tail(q)[1], q[1]) /\ Tail(q)[Len(Tail(q))] = q[Len(q)]
  <2>1. 1 \in 1..Len(q) - 1
    BY <1>1, <1>3
  <2>2. Tail(q)[1] = q[1 + 1] /\ Tail(q)[Len(q) - 1] = q[Len(q)]
    BY <1>1, <2>1
  <2> QED  BY <1>1, <2>1, <2>2 DEF Chained
<1>4. Tail(q) = <<>> => q[Len(q)] = q[1]
  BY <1>1
<1> QED  BY <1>2, <1>3, <1>4 DEF Chained

(***************************************************************************)
(* Whether w is in the middle of a prefill of r: seen from the socket and  *)
(* the worker, and seen from the thread that writes.  They agree, and at   *)
(* most one thread writes.                                                 *)
(***************************************************************************)
Half(w, r) ==
  IF chan[w] = <<>> THEN wstate[w] = "payload" /\ job[w] = r
  ELSE chan[w][Len(chan[w])] = [cmd |-> "prefill", by |-> r]
Midway(w, r) ==
  \/ pc[r] = "prefill" /\ w < to[r]
  \/ pc[r] = "payload" /\ to[r] <= w

Line(w) ==
  /\ wstate[w] # "lost"
  /\ Chained(chan[w])
  /\ chan[w] # <<>> =>
       /\ chan[w][1].cmd = "payload" <=> wstate[w] = "payload"
       /\ wstate[w] = "payload" => job[w] = chan[w][1].by

AtFirst == \A r \in Requests : pc[r] \notin Sending => to[r] = 1
Lines == \A w \in Workers :
  Line(w) /\ \A r \in Requests : Half(w, r) <=> Midway(w, r)
FrameInv == AtFirst /\ Lines

LEMMA FrameInit == Init => FrameInv
<1> SUFFICES ASSUME Init PROVE FrameInv
  OBVIOUS
<1>1. AtFirst
  BY DEF Init, AtFirst
<1>2. Lines
  BY DEF Init, Lines, Line, Chained, Half, Midway
<1> QED  BY <1>1, <1>2 DEF FrameInv

LEMMA SendFramed ==
  ASSUME TypeInv, Held, Alone, Streams \subseteq Patient, FrameInv, NEW r \in Requests, SendTo(r)
  PROVE  FrameInv'
<1> USE DEF TypeInv, TypeOK, FrameInv
<1>a. PICK v \in Workers : v = to[r] /\ v \in Nat
  BY TpAssumption DEF SendTo, Workers
<1>b. PICK word \in Word : word = [cmd |-> pc[r], by |-> r]
  BY DEF SendTo, Sending, Word
<1>1. v \in Nat /\ pc[r] \in Sending /\ word.cmd = pc[r] /\ word.by = r /\ v = to[r]
  BY <1>a, <1>b DEF SendTo
<1>2. /\ chan' = [chan EXCEPT ![v] = Append(@, word)]
      /\ to' = [to EXCEPT ![r] = v + 1]
      /\ UNCHANGED <<rootUp, main, pc, wstate, job>>
  BY <1>a, <1>b DEF SendTo, workers
<1>3. \A s \in Requests : s # r => pc[s] \notin Sending
  BY <1>1, OneServed DEF Serving, Generating
<1>4. AtFirst'
  BY <1>1, <1>2 DEF AtFirst
<1>6. ASSUME NEW w \in Workers, w # v
      PROVE  Line(w)' /\ \A s \in Requests : Half(w, s)' <=> Midway(w, s)'
  <2>1. chan'[w] = chan[w]
    BY <1>2, <1>6
  <2>2. Line(w)' /\ \A s \in Requests : Half(w, s)' <=> Half(w, s)
    BY <1>2, <2>1 DEF Lines, Line, Half
  <2>3. \A s \in Requests : Midway(w, s)' <=> Midway(w, s)
    BY <1>1, <1>2, <1>6 DEF Midway, Workers
  <2> QED  BY <2>2, <2>3 DEF Lines
<1>7. Line(v)' /\ \A s \in Requests : Half(v, s)' <=> Midway(v, s)'
  <2>1. chan[v] \in Seq(Word) /\ chan'[v] = Append(chan[v], word)
    BY <1>1, <1>2
  <2>2. \A s \in Requests : Half(v, s) <=> s = r /\ word.cmd = "payload"
    BY <1>1, <1>3 DEF Lines, Midway, Sending
  <2>3. ASSUME chan[v] # <<>>  PROVE Follows(word, chan[v][Len(chan[v])])
    <3> DEFINE last == chan[v][Len(chan[v])]
    <3>1. last \in Word
      BY <2>1, <2>3
    <3>2. ASSUME last.cmd = "prefill"
          PROVE  last.by \in Requests /\ last = [cmd |-> "prefill", by |-> last.by]
      BY <3>1, <3>2 DEF Word
    <3>3. last.cmd = "prefill" => word.cmd = "payload" /\ last.by = r
      BY <2>2, <2>3, <3>2 DEF Half
    <3>4. word.cmd = "payload" => last = [cmd |-> "prefill", by |-> r]
      BY <2>2, <2>3 DEF Half
    <3> QED  BY <1>1, <3>3, <3>4 DEF Follows
  <2>4. Chained(chan'[v])
    BY <2>1, <2>3, ChainAppend, Zenon DEF Lines, Line
  <2>5. /\ chan'[v] # <<>> /\ chan'[v][Len(chan'[v])] = word
        /\ chan'[v][1] = IF chan[v] = <<>> THEN word ELSE chan[v][1]
    BY <2>1, AppendEnds
  <2>6. Line(v)'
    <3>1. CASE chan[v] = <<>>
      <4>1. wstate[v] = "payload" => job[v] \in Requests
        BY DEF JobShape
      <4>2. /\ word.cmd = "payload" <=> wstate[v] = "payload"
            /\ wstate[v] = "payload" => job[v] = r
        BY <2>2, <3>1, <4>1 DEF Half
      <4> QED  BY <1>1, <1>2, <2>4, <2>5, <3>1, <4>2 DEF Line, Lines
    <3>2. CASE chan[v] # <<>>
      BY <1>1, <1>2, <2>4, <2>5, <3>2 DEF Line, Lines
    <3> QED  BY <3>1, <3>2
  <2>7. ASSUME NEW s \in Requests
        PROVE  Half(v, s)' <=> Midway(v, s)'
    <3>1. Half(v, s)' <=> word = [cmd |-> "prefill", by |-> s]
      BY <2>5 DEF Half
    <3>2. word = [cmd |-> "prefill", by |-> s] <=> s = r /\ pc[r] = "prefill"
      BY <1>b
    <3>3. Midway(v, s)' <=> s = r /\ pc[r] = "prefill"
      <4>1. CASE s = r
        <5>1. to'[r] = v + 1 /\ pc'[r] = pc[r] /\ v < v + 1 /\ ~(v + 1 <= v)
          BY <1>1, <1>2
        <5> QED  BY <4>1, <5>1 DEF Midway
      <4>2. CASE s # r
        BY <1>2, <1>3, <4>2 DEF Midway, Sending
      <4> QED  BY <4>1, <4>2
    <3> QED  BY <3>1, <3>2, <3>3
  <2> QED  BY <2>6, <2>7
<1> QED  BY <1>4, <1>6, <1>7 DEF Lines

\* The other steps of a thread write nothing.
LEMMA ThreadFramed ==
  ASSUME TypeInv, Held, Alone, Streams \subseteq Patient, FrameInv, NEW r \in Requests,
         Arrive(r) \/ Thread(r) \/ Raise(r)
  PROVE  FrameInv'
<1> USE DEF TypeInv, TypeOK, FrameInv, Goto
<1>0. World \in Nat
  BY TpAssumption
<1>1. CASE SendTo(r)
  BY <1>1, SendFramed
<1>2. CASE Sent(r)
  <2>1. /\ pc' = [pc EXCEPT ![r] = AfterSend(pc[r])]
        /\ to' = [to EXCEPT ![r] = 1] /\ to[r] = World
        /\ UNCHANGED <<rootUp, main, chan, wstate, job>>
    BY <1>2 DEF Sent, workers
  <2>2. /\ pc[r] = "prefill" => AfterSend(pc[r]) = "payload"
        /\ pc[r] # "prefill" => AfterSend(pc[r]) \notin Sending
    BY <1>2 DEF Sent, AfterSend, Sending
  <2>3. pc[r] \in Sending
    BY <1>2 DEF Sent
  <2>4. AtFirst'
    BY <2>1, <2>3 DEF AtFirst, Sending
  <2>5. \A w \in Workers, s \in Requests : Midway(w, s)' <=> Midway(w, s)
    BY <1>0, <2>1, <2>2, <2>3 DEF Midway, Workers, Sending
  <2> QED  BY <2>1, <2>4, <2>5 DEF Lines, Line, Half
<1>3. CASE Meet(r)
  <2>1. PICK place \in {"decode", "reply"} : pc' = [pc EXCEPT ![r] = place]
    BY <1>3 DEF Meet
  <2>2. /\ UNCHANGED <<rootUp, main, to, chan, job>> /\ pc[r] = "collective"
        /\ \A w \in Workers : wstate[w] = "collective" /\ wstate'[w] = "idle"
    BY <1>3 DEF Meet
  <2>3. AtFirst'
    BY <2>1, <2>2 DEF AtFirst, Sending
  <2>4. \A w \in Workers, s \in Requests : Midway(w, s)' <=> Midway(w, s)
    BY <2>1, <2>2 DEF Midway
  <2>5. \A w \in Workers : Line(w)' /\ \A s \in Requests : Half(w, s)' <=> Half(w, s)
    BY <2>2 DEF Lines, Line, Half
  <2> QED  BY <2>3, <2>4, <2>5 DEF Lines
<1>4. CASE ~SendTo(r) /\ ~Sent(r) /\ ~Meet(r)
  <2>1. UNCHANGED <<to, chan, wstate, job>> /\ pc[r] \notin Sending
    BY <1>0, <1>4 DEF Thread, Arrive, Lock, Route, Clear, Forward, Reply, Raise, workers, Sending
  <2>2. PICK place \in ThreadStates \ {"payload", "new"} : pc' = [pc EXCEPT ![r] = place]
    BY <1>4 DEF Thread, Arrive, Lock, Route, Clear, Forward, Reply, Raise, ThreadStates, Over, Sending
  <2>3. to[r] = 1 /\ \A w \in Workers : ~(w < 1)
    BY <2>1, TpAssumption DEF AtFirst, Workers
  <2>4. AtFirst'
    BY <2>1, <2>2, <2>3 DEF AtFirst
  <2>5. \A w \in Workers, s \in Requests : Midway(w, s)' <=> Midway(w, s)
    BY <2>1, <2>2, <2>3 DEF Midway, Sending
  <2> QED  BY <2>1, <2>4, <2>5 DEF Lines, Line, Half
<1> QED  BY <1>1, <1>2, <1>3, <1>4

\* Taking the first word off a socket.
LEMMA LoopFramed ==
  ASSUME TypeInv, Quiet, FrameInv, NEW w \in Workers, Loop(w) \/ WRaise(w)
  PROVE  FrameInv'
<1> USE DEF TypeInv, TypeOK, FrameInv, WGoto
<1> DEFINE q == chan[w]
<1>0. q \in Seq(Word)
  OBVIOUS
<1>1. AtFirst' /\ \A v \in Workers, s \in Requests : Midway(v, s)' <=> Midway(v, s)
  <2>1. UNCHANGED <<rootUp, main, pc, to>>
    BY DEF Loop, Recv, RecvPayload, WForward, WRaise, Eof, threads
  <2> QED  BY <2>1 DEF AtFirst, Midway
<1>2. ASSUME NEW v \in Workers, v # w
      PROVE  Line(v)' /\ \A s \in Requests : Half(v, s)' <=> Half(v, s)
  <2>1. chan'[v] = chan[v] /\ wstate'[v] = wstate[v] /\ job'[v] = job[v]
    BY <1>2 DEF Loop, Recv, RecvPayload, WForward, WRaise, Eof
  <2> QED  BY <2>1 DEF Lines, Line, Half
<1>3. Line(w)' /\ \A s \in Requests : Half(w, s)' <=> Half(w, s)
  <2>0. Line(w) /\ Chained(q)
    BY DEF Lines, Line
  <2>1. CASE Recv(w)
    <3>1. /\ q # <<>> /\ wstate[w] = "idle" /\ chan'[w] = Tail(q)
          /\ job'[w] = q[1].by /\ q[1] \in Word
      BY <1>0, <2>1 DEF Recv
    <3>2. q[1].cmd \in {"reset", "prefill", "decode", "shutdown"}
      BY <2>0, <3>1 DEF Line, Word
    <3>3. wstate'[w] # "lost" /\ (wstate'[w] = "payload" <=> q[1].cmd = "prefill")
      BY <2>1, <3>1, <3>2 DEF Recv
    <3>4. Chained(Tail(q))
      BY <1>0, <2>0, <3>1, ChainTail
    <3>5. CASE Tail(q) = <<>>
      <4>1. q[Len(q)] = q[1]
        BY <1>0, <2>0, <3>1, <3>5, ChainTail
      <4>2. ASSUME NEW s \in Requests
            PROVE  q[1] = [cmd |-> "prefill", by |-> s] <=> q[1].cmd = "prefill" /\ q[1].by = s
        BY <3>1 DEF Word
      <4> QED  BY <3>1, <3>3, <3>4, <3>5, <4>1, <4>2 DEF Line, Half
    <3>6. CASE Tail(q) # <<>>
      <4>1. Follows(Tail(q)[1], q[1]) /\ Tail(q)[Len(Tail(q))] = q[Len(q)]
        BY <1>0, <2>0, <3>1, <3>6, ChainTail
      <4> QED  BY <3>1, <3>3, <3>4, <3>6, <4>1 DEF Line, Half, Follows
    <3> QED  BY <3>5, <3>6
  <2>2. CASE RecvPayload(w)
    <3>1. /\ q # <<>> /\ wstate[w] = "payload" /\ chan'[w] = Tail(q)
          /\ job' = job /\ q[1] \in Word
      BY <1>0, <2>2 DEF RecvPayload
    <3>2. q[1] = [cmd |-> "payload", by |-> job[w]]
      BY <2>0, <3>1 DEF Line, Word
    <3>3. wstate'[w] = "compute" /\ q[1].cmd # "prefill"
      BY <1>0, <2>2, <3>1, <3>2 DEF RecvPayload
    <3>4. Chained(Tail(q))
      BY <1>0, <2>0, <3>1, ChainTail
    <3>5. CASE Tail(q) = <<>>
      <4>1. q[Len(q)] = q[1]
        BY <1>0, <2>0, <3>1, <3>5, ChainTail
      <4> QED  BY <3>1, <3>2, <3>3, <3>4, <3>5, <4>1 DEF Line, Half
    <3>6. CASE Tail(q) # <<>>
      <4>1. Follows(Tail(q)[1], q[1]) /\ Tail(q)[Len(Tail(q))] = q[Len(q)]
        BY <1>0, <2>0, <3>1, <3>6, ChainTail
      <4> QED  BY <3>1, <3>2, <3>3, <3>4, <3>6, <4>1 DEF Line, Half, Follows
    <3> QED  BY <3>5, <3>6
  <2>3. CASE WForward(w) \/ WRaise(w)
    <3>1. /\ UNCHANGED <<chan, job>> /\ wstate[w] = "compute"
          /\ wstate'[w] \in {"collective", "idle"}
      BY <2>3 DEF WForward, WRaise
    <3> QED  BY <2>0, <3>1 DEF Line, Half
  <2>4. CASE Eof(w)
    <3>1. /\ UNCHANGED <<chan, job>> /\ ~rootUp /\ q = <<>> /\ wstate'[w] = "dead"
      BY <2>4 DEF Eof
    <3>2. \A s \in Requests : ~Midway(w, s)
      BY <3>1 DEF Quiet, Midway, Generating, Sending
    <3>3. \A s \in Requests : ~Half(w, s)
      BY <3>2 DEF Lines
    <3> QED  BY <2>0, <3>1, <3>3 DEF Line, Half
  <2> QED  BY <2>1, <2>2, <2>3, <2>4 DEF Loop
<1> QED  BY <1>1, <1>2, <1>3 DEF Lines

LEMMA ShutdownFramed ==
  ASSUME TypeInv, Quiet, FrameInv, Shutdown
  PROVE  FrameInv'
<1> USE DEF TypeInv, TypeOK, FrameInv
<1>0. PICK word \in Word : word = [cmd |-> "shutdown", by |-> Nobody]
  BY DEF Word
<1>1. /\ main = "past" /\ chan' = [w \in Workers |-> Append(chan[w], word)]
      /\ UNCHANGED <<main, pc, to, wstate, job>>
  BY <1>0 DEF Shutdown, threads, workers
<1>2. \A r \in Requests : pc[r] = "new"
  BY <1>1 DEF Quiet
<1>3. AtFirst'
  BY <1>1, <1>2 DEF AtFirst
<1>4. ASSUME NEW w \in Workers
      PROVE  Line(w)' /\ \A r \in Requests : Half(w, r)' <=> Midway(w, r)'
  <2>1. chan[w] \in Seq(Word) /\ chan'[w] = Append(chan[w], word) /\ Line(w)
    BY <1>1 DEF Lines
  <2>2. \A r \in Requests : ~Half(w, r) /\ ~Midway(w, r)'
    BY <1>1, <1>2 DEF Lines, Midway
  <2>3. ASSUME chan[w] # <<>>  PROVE Follows(word, chan[w][Len(chan[w])])
    <3> DEFINE last == chan[w][Len(chan[w])]
    <3>1. last \in Word
      BY <2>1, <2>3
    <3>2. ASSUME last.cmd = "prefill"
          PROVE  last.by \in Requests /\ last = [cmd |-> "prefill", by |-> last.by]
      BY <3>1, <3>2 DEF Word
    <3> QED  BY <1>0, <2>2, <2>3, <3>2 DEF Half, Follows
  <2>4. Chained(chan'[w])
    BY <2>1, <2>3, ChainAppend DEF Line
  <2>5. /\ chan'[w] # <<>> /\ chan'[w][Len(chan'[w])] = word
        /\ chan'[w][1] = IF chan[w] = <<>> THEN word ELSE chan[w][1]
    BY <2>1, AppendEnds
  <2>6. chan[w] = <<>> => wstate[w] # "payload"
    BY <2>2 DEF Half, JobShape
  <2>7. Line(w)'
    BY <1>0, <1>1, <2>1, <2>4, <2>5, <2>6 DEF Line
  <2>8. \A r \in Requests : ~Half(w, r)'
    BY <1>0, <2>5 DEF Half
  <2> QED  BY <2>2, <2>7, <2>8
<1> QED  BY <1>3, <1>4 DEF Lines

LEMMA FrameHolds ==
  ASSUME Streams \subseteq Patient
  PROVE  Spec => []FrameInv
<1>1. TypeInv /\ Held /\ Alone /\ Quiet /\ FrameInv /\ [Next]_vars => FrameInv'
  <2> SUFFICES ASSUME TypeInv, Held, Alone, Quiet, FrameInv, [Next]_vars PROVE FrameInv'
    OBVIOUS
  <2>1. CASE UNCHANGED vars
    BY <2>1 DEF vars, threads, workers, FrameInv, AtFirst, Lines, Line, Half, Midway
  <2> QED  BY <2>1, ThreadFramed, LoopFramed, ShutdownFramed DEF Next
<1> QED  BY <1>1, FrameInit, HeldHolds, AloneHolds, QuietHolds, TypeInvHolds, PTL DEF Spec

(***************************************************************************)
(* With streams that overlap with nothing the two writes of a prefill stay *)
(* together on every socket, and no worker loses the frame                 *)
(* (dsv4_engine.cpp:9338-9373), for any number of ranks and clients and    *)
(* with any number of faults.                                              *)
(***************************************************************************)
THEOREM FramedOneStream ==
  ASSUME Streams \subseteq Patient
  PROVE  Spec => []Framed
<1>1. TypeInv /\ FrameInv => Framed
  <2> SUFFICES ASSUME TypeInv, FrameInv, NEW w \in Workers
               PROVE  /\ wstate[w] # "lost"
                      /\ \A i \in 1..Len(chan[w]) :
                           chan[w][i].cmd = "payload" =>
                             IF i > 1
                               THEN chan[w][i - 1] = [cmd |-> "prefill", by |-> chan[w][i].by]
                               ELSE wstate[w] = "payload" /\ job[w] = chan[w][i].by
    BY DEF Framed
  <2>1. Line(w) /\ chan[w] \in Seq(Word)
    BY DEF FrameInv, Lines, TypeInv, TypeOK
  <2>2. ASSUME NEW i \in 1..Len(chan[w]), chan[w][i].cmd = "payload", i > 1
        PROVE  chan[w][i - 1] = [cmd |-> "prefill", by |-> chan[w][i].by]
    <3>1. i - 1 \in 1..Len(chan[w]) - 1 /\ (i - 1) + 1 = i
      BY <2>1, <2>2
    <3>2. Follows(chan[w][i], chan[w][i - 1]) /\ chan[w][i - 1] \in Word
      BY <2>1, <3>1 DEF Line, Chained
    <3> QED  BY <2>2, <3>2 DEF Follows, Word
  <2>3. ASSUME NEW i \in 1..Len(chan[w]), chan[w][i].cmd = "payload", ~(i > 1)
        PROVE  wstate[w] = "payload" /\ job[w] = chan[w][i].by
    <3>1. i = 1 /\ chan[w] # <<>>
      BY <2>1, <2>3
    <3> QED  BY <2>1, <2>3, <3>1 DEF Line
  <2> QED  BY <2>1, <2>2, <2>3 DEF Line
<1> QED  BY <1>1, FrameHolds, TypeInvHolds, PTL

-----------------------------------------------------------------------------
(***************************************************************************)
(* The march of the ranks while no forward pass raises.  Words(r) is what  *)
(* the thread of r writes to each worker before the next meeting, and      *)
(* Written(w, r) how much of it w's socket has been given; w has acted on  *)
(* some of that, and the rest is in the socket.                            *)
(***************************************************************************)
Fed(r, n) == [i \in 1..n |-> r]
Words(r) ==
  IF steps[r] = 0
    THEN <<[cmd |-> "reset", by |-> r], [cmd |-> "prefill", by |-> r],
           [cmd |-> "payload", by |-> r]>>
    ELSE <<[cmd |-> "decode", by |-> r]>>
Earlier(r) ==
  IF pc[r] \in {"reset", "decode"} THEN 0
  ELSE IF pc[r] \in {"clear", "prefill"} THEN 1
  ELSE IF pc[r] = "payload" THEN 2
  ELSE Len(Words(r))
Written(w, r) == IF pc[r] \in Sending /\ w < to[r] THEN Earlier(r) + 1 ELSE Earlier(r)
Piece(s, c, n) == [i \in 1..(n - c) |-> s[c + i]]

\* Worker w has acted on c of the words.
Acted(w, r, c) ==
  IF c = Len(Words(r))
    THEN \/ wstate[w] = "compute" /\ job[w] = r /\ session[w] = Fed(r, steps[r])
         \/ wstate[w] = "collective" /\ session[w] = Fed(r, steps[r] + 1)
    ELSE /\ IF c = 2 THEN wstate[w] = "payload" /\ job[w] = r ELSE wstate[w] = "idle"
         /\ (c = 0 /\ steps[r] = 0) \/ session[w] = Fed(r, steps[r])
Behind(w, r, c) ==
  chan[w] = Piece(Words(r), c, Written(w, r)) /\ Acted(w, r, c)
Follow(w, r) == \E c \in 0..Written(w, r) : Behind(w, r, c)
Lead(r) ==
  /\ pc[r] \in {"reset", "clear", "prefill", "payload"} => steps[r] = 0
  /\ pc[r] = "decode" => steps[r] > 0
  /\ pc[r] \in {"prefill", "payload", "decode", "compute"} => session[0] = Fed(r, steps[r])
  /\ pc[r] = "collective" => session[0] = Fed(r, steps[r] + 1)
Resting(w) == wstate[w] = "idle" /\ chan[w] = <<>>

Fresh == \A r \in Requests : pc[r] \in {"new", "queued", "routing"} => steps[r] = 0
InStep == \A r \in Requests :
  Generating(r) => Lead(r) /\ \A w \in Workers : Follow(w, r)
AtRest == rootUp /\ (\A r \in Requests : ~Generating(r)) => \A w \in Workers : Resting(w)
March == faults = 0 => Fresh /\ InStep /\ AtRest

LEMMA FedFacts ==
  ASSUME NEW r \in Requests, NEW n \in Nat
  PROVE  /\ Append(Fed(r, n), r) = Fed(r, n + 1)
         /\ <<>> = Fed(r, 0)
         /\ Len(Fed(r, n)) = n /\ \A i \in 1..n : Fed(r, n)[i] = r
<1>1. Fed(r, n) \in Seq(Requests) /\ Fed(r, n + 1) \in Seq(Requests)
  BY DEF Fed
<1>2. Len(Fed(r, n)) = n /\ Len(Fed(r, n + 1)) = n + 1
  BY DEF Fed
<1>3. Append(Fed(r, n), r) = Fed(r, n + 1)
  BY <1>1, <1>2 DEF Fed
<1>4. <<>> = Fed(r, 0)
  BY DEF Fed
<1> QED  BY <1>2, <1>3, <1>4 DEF Fed

LEMMA PieceFacts ==
  ASSUME NEW s \in Seq(Word), NEW c \in Nat, NEW n \in Nat, c <= n, n <= Len(s)
  PROVE  /\ Piece(s, c, n) = <<>> <=> c = n
         /\ n < Len(s) => Append(Piece(s, c, n), s[n + 1]) = Piece(s, c, n + 1)
         /\ c < n => /\ Head(Piece(s, c, n)) = s[c + 1]
                     /\ Tail(Piece(s, c, n)) = Piece(s, c + 1, n)
<1>1. Piece(s, c, n) \in Seq(Word) /\ Len(Piece(s, c, n)) = n - c
  BY DEF Piece
<1>2. Piece(s, c, n) = <<>> <=> c = n
  <2>1. c = n => Piece(s, c, n) = <<>>
    BY DEF Piece
  <2> QED  BY <1>1, <2>1
<1>3. ASSUME n < Len(s)
      PROVE  Append(Piece(s, c, n), s[n + 1]) = Piece(s, c, n + 1)
  <2>1. Piece(s, c, n + 1) \in Seq(Word) /\ Len(Piece(s, c, n + 1)) = (n - c) + 1
    BY <1>3 DEF Piece
  <2> QED  BY <1>1, <1>3, <2>1 DEF Piece
<1>4. ASSUME c < n
      PROVE  /\ Head(Piece(s, c, n)) = s[c + 1]
             /\ Tail(Piece(s, c, n)) = Piece(s, c + 1, n)
  <2>1. Piece(s, c + 1, n) \in Seq(Word) /\ Len(Piece(s, c + 1, n)) = (n - c) - 1
    BY <1>4 DEF Piece
  <2>2. Head(Piece(s, c, n)) = s[c + 1]
    BY <1>1, <1>4 DEF Piece
  <2>3. Tail(Piece(s, c, n)) = Piece(s, c + 1, n)
    BY <1>1, <1>4, <2>1 DEF Piece
  <2> QED  BY <2>2, <2>3
<1> QED  BY <1>2, <1>3, <1>4

LEMMA WordsFacts ==
  ASSUME NEW r \in Requests
  PROVE  /\ Words(r) \in Seq(Word) /\ Len(Words(r)) \in {1, 3}
         /\ steps[r] = 0 => /\ Len(Words(r)) = 3
                            /\ Words(r)[1] = [cmd |-> "reset", by |-> r]
                            /\ Words(r)[2] = [cmd |-> "prefill", by |-> r]
                            /\ Words(r)[3] = [cmd |-> "payload", by |-> r]
         /\ steps[r] # 0 => /\ Len(Words(r)) = 1
                            /\ Words(r)[1] = [cmd |-> "decode", by |-> r]
<1>1. \A c \in {"reset", "prefill", "payload", "decode"} : [cmd |-> c, by |-> r] \in Word
  BY DEF Word
<1> QED  BY <1>1 DEF Words

LEMMA EarlierFacts ==
  ASSUME TypeInv, NEW r \in Requests, Generating(r), Lead(r)
  PROVE  /\ Earlier(r) \in Nat /\ Earlier(r) <= Len(Words(r))
         /\ pc[r] \in Sending => /\ Earlier(r) + 1 <= Len(Words(r))
                                 /\ Words(r)[Earlier(r) + 1] = [cmd |-> pc[r], by |-> r]
         /\ pc[r] \in {"compute", "collective"} => Earlier(r) = Len(Words(r))
<1>2. /\ pc[r] = "reset" => Earlier(r) = 0 /\ steps[r] = 0
      /\ pc[r] = "clear" => Earlier(r) = 1 /\ steps[r] = 0
      /\ pc[r] = "prefill" => Earlier(r) = 1 /\ steps[r] = 0
      /\ pc[r] = "payload" => Earlier(r) = 2 /\ steps[r] = 0
      /\ pc[r] = "decode" => Earlier(r) = 0 /\ steps[r] # 0
      /\ pc[r] \in {"compute", "collective"} => Earlier(r) = Len(Words(r))
  <2>1. steps[r] \in Nat
    BY TpAssumption DEF TypeInv, TypeOK
  <2> QED  BY <2>1 DEF Earlier, Lead
<1>3. \/ pc[r] \in {"reset", "clear", "prefill", "payload"}
      \/ pc[r] = "decode" \/ pc[r] \in {"compute", "collective"}
  BY DEF Generating, Sending
<1>4. Len(Words(r)) \in {1, 3} /\ (steps[r] = 0 => Len(Words(r)) = 3)
  BY WordsFacts
<1>5. /\ Earlier(r) \in Nat /\ Earlier(r) <= Len(Words(r))
      /\ pc[r] \in Sending => Earlier(r) + 1 <= Len(Words(r))
  <2>1. CASE pc[r] \in {"reset", "clear", "prefill", "payload"}
    <3>1. Earlier(r) \in 0..2 /\ Len(Words(r)) = 3
      BY <1>2, <1>4, <2>1
    <3> QED  BY <3>1
  <2>2. CASE pc[r] = "decode"
    <3>1. Earlier(r) = 0 /\ Len(Words(r)) \in {1, 3}
      BY <1>2, <1>4, <2>2
    <3> QED  BY <3>1
  <2>3. CASE pc[r] \in {"compute", "collective"}
    <3>1. Earlier(r) = Len(Words(r)) /\ Len(Words(r)) \in {1, 3} /\ pc[r] \notin Sending
      BY <1>2, <1>4, <2>3 DEF Sending
    <3> QED  BY <3>1
  <2> QED  BY <1>3, <2>1, <2>2, <2>3
<1>6. pc[r] \in Sending => Words(r)[Earlier(r) + 1] = [cmd |-> pc[r], by |-> r]
  <2>1. /\ steps[r] = 0 => /\ Words(r)[1] = [cmd |-> "reset", by |-> r]
                           /\ Words(r)[2] = [cmd |-> "prefill", by |-> r]
                           /\ Words(r)[3] = [cmd |-> "payload", by |-> r]
        /\ steps[r] # 0 => Words(r)[1] = [cmd |-> "decode", by |-> r]
    BY WordsFacts
  <2>2. /\ pc[r] \in {"reset", "decode"} => Earlier(r) + 1 = 1
        /\ pc[r] = "prefill" => Earlier(r) + 1 = 2
        /\ pc[r] = "payload" => Earlier(r) + 1 = 3
    BY <1>2
  <2> HIDE DEF Words, Earlier
  <2> QED  BY <1>2, <2>1, <2>2 DEF Sending
<1> QED  BY <1>2, <1>5, <1>6

LEMMA WrittenFacts ==
  ASSUME TypeInv, NEW r \in Requests, Generating(r), Lead(r), NEW w \in Workers
  PROVE  /\ Written(w, r) \in Nat /\ Written(w, r) <= Len(Words(r))
         /\ pc[r] \in {"compute", "collective"} => Written(w, r) = Len(Words(r))
<1>1. Len(Words(r)) \in Nat
  BY WordsFacts
<1>2. /\ Earlier(r) \in Nat /\ Earlier(r) <= Len(Words(r))
      /\ pc[r] \in Sending => Earlier(r) + 1 <= Len(Words(r))
      /\ pc[r] \in {"compute", "collective"} => Earlier(r) = Len(Words(r))
  BY EarlierFacts
<1>3. pc[r] \in {"compute", "collective"} => pc[r] \notin Sending
  BY DEF Sending
<1> QED  BY <1>1, <1>2, <1>3 DEF Written

\* A worker that is left alone, and not written to, stays where it is.
LEMMA FollowKept ==
  ASSUME NEW r \in Requests, NEW w \in Workers, Follow(w, r),
         Written(w, r)' = Written(w, r), steps'[r] = steps[r],
         chan'[w] = chan[w], wstate'[w] = wstate[w], job'[w] = job[w],
         session'[w] = session[w]
  PROVE  Follow(w, r)'
<1>1. PICK c \in 0..Written(w, r) : Behind(w, r, c)
  BY DEF Follow
<1>2. Words(r)' = Words(r)
  BY DEF Words
<1>3. Behind(w, r, c)'
  BY <1>1, <1>2 DEF Behind, Acted
<1> QED  BY <1>1, <1>3 DEF Follow

\* A worker that has come to the collective has read everything.
LEMMA FollowMet ==
  ASSUME TypeInv, NEW r \in Requests, Generating(r), Lead(r), NEW w \in Workers, Follow(w, r)
  PROVE  /\ wstate[w] = "collective" => chan[w] = <<>> /\ session[w] = Fed(r, steps[r] + 1)
         /\ pc[r] \in {"compute", "collective"} => ~Resting(w)
<1>1. PICK c \in 0..Written(w, r) : Behind(w, r, c)
  BY DEF Follow
<1>2. /\ Written(w, r) \in Nat /\ Written(w, r) <= Len(Words(r))
      /\ pc[r] \in {"compute", "collective"} => Written(w, r) = Len(Words(r))
      /\ Words(r) \in Seq(Word)
  BY WrittenFacts, WordsFacts
<1>3. c \in Nat /\ c <= Written(w, r) /\ (chan[w] = <<>> <=> c = Written(w, r))
  BY <1>1, <1>2, PieceFacts DEF Behind
<1>4. wstate[w] = "collective" => c = Len(Words(r)) /\ session[w] = Fed(r, steps[r] + 1)
  BY <1>1 DEF Behind, Acted
<1>5. c = Len(Words(r)) => wstate[w] # "idle"
  BY <1>1 DEF Behind, Acted
<1>6. Len(Words(r)) \in Nat
  BY <1>2
<1> QED  BY <1>2, <1>3, <1>4, <1>5, <1>6 DEF Resting

LEMMA MarchInit == Init => March
<1> SUFFICES ASSUME Init PROVE Fresh /\ InStep /\ AtRest
  BY DEF March
<1>1. Fresh
  BY DEF Init, Fresh
<1>2. InStep
  BY DEF Init, InStep, Generating, Sending
<1>3. AtRest
  BY DEF Init, AtRest, Resting
<1> QED  BY <1>1, <1>2, <1>3

\* The steps of a thread that does not generate before it or does not after.
LEMMA IdleMarch ==
  ASSUME TypeInv, Held, Alone, AtFirst, Streams \subseteq Patient, March,
         faults = 0, NEW r \in Requests,
         Arrive(r) \/ Lock(r) \/ Route(r) \/ Reply(r)
  PROVE  March'
<1> USE DEF TypeInv, TypeOK
<1>1. /\ rootUp /\ UNCHANGED <<rootUp, to, steps, chan, wstate, job, session, faults>>
      /\ pc[r] \in {"new", "queued", "routing", "reply"}
  BY DEF Arrive, Lock, Route, Reply, workers
<1>2. PICK place \in {"queued", "refused", "routing", "reset", "answered", "failed"} :
        /\ pc' = [pc EXCEPT ![r] = place]
        /\ place \in {"queued", "routing", "reset"} => pc[r] # "reply"
        /\ place = "reset" => pc[r] = "routing"
  BY DEF Arrive, Lock, Route, Reply, Goto
<1>3. Fresh'
  BY <1>1, <1>2 DEF March, Fresh
<1>4. ASSUME NEW s \in Requests, s # r
      PROVE  pc'[s] = pc[s] /\ (Generating(s)' <=> Generating(s)) /\ (Lead(s) => Lead(s)')
  BY <1>1, <1>2, <1>4 DEF Generating, Lead
<1>5. ASSUME NEW s \in Requests, NEW w \in Workers, s # r, Follow(w, s)  PROVE Follow(w, s)'
  <2>1. Written(w, s)' = Written(w, s)
    BY <1>1, <1>4, <1>5 DEF Written, Earlier, Words
  <2> QED  BY <1>1, <1>5, <2>1, FollowKept
<1>6. CASE place # "reset"
  <2>1. ~Generating(r) /\ ~Generating(r)'
    BY <1>1, <1>2, <1>6 DEF Generating, Sending
  <2>2. InStep'
    BY <1>4, <1>5, <2>1 DEF March, InStep
  <2>3. AtRest'
    BY <1>1, <1>4, <2>1 DEF March, AtRest, Resting
  <2> QED  BY <1>3, <2>2, <2>3 DEF March
<1>7. CASE place = "reset"
  <2>1. pc[r] = "routing" /\ pc'[r] = "reset" /\ Generating(r)' /\ ~Generating(r)
    BY <1>2, <1>7 DEF Generating, Sending
  <2>2. \A s \in Requests : ~Generating(s)
    BY <2>1, OneServed DEF Serving
  <2>3. \A w \in Workers : Resting(w)
    BY <1>1, <2>2 DEF March, AtRest
  <2>4. steps'[r] = 0 /\ Lead(r)'
    BY <1>1, <2>1 DEF March, Fresh, Lead
  <2>5. ASSUME NEW w \in Workers  PROVE Follow(w, r)'
    <3>1. Written(w, r)' = 0
      <4>1. to'[r] = 1
        BY <1>1, <2>1 DEF AtFirst, Sending
      <4>2. ~(w < 1)
        BY TpAssumption DEF Workers
      <4>3. Earlier(r)' = 0
        BY <2>1 DEF Earlier
      <4> QED  BY <4>1, <4>2, <4>3 DEF Written
    <3>2. Words(r)' \in Seq(Word) /\ Len(Words(r)') = 3
      BY <1>1, <2>4, WordsFacts DEF Words
    <3>3. Piece(Words(r)', 0, 0) = <<>>
      BY <3>2, PieceFacts
    <3>4. Behind(w, r, 0)'
      BY <1>1, <2>3, <2>4, <3>1, <3>2, <3>3 DEF Behind, Acted, Resting
    <3> QED  BY <3>1, <3>4 DEF Follow
  <2>6. InStep'
    BY <1>4, <2>1, <2>2, <2>4, <2>5 DEF InStep
  <2>7. AtRest'
    BY <2>1 DEF AtRest
  <2> QED  BY <1>3, <2>6, <2>7 DEF March
<1> QED  BY <1>6, <1>7

\* The words of the thread that generates.
LEMMA SendMarch ==
  ASSUME TypeInv, Held, Alone, AtFirst, Streams \subseteq Patient, March,
         faults = 0, NEW r \in Requests, SendTo(r) \/ Sent(r)
  PROVE  March'
<1> USE DEF TypeInv, TypeOK
<1>1. /\ pc[r] \in Sending /\ Generating(r) /\ rootUp
      /\ UNCHANGED <<rootUp, steps, wstate, job, session, faults>>
      /\ \A s \in Requests : s # r => pc'[s] = pc[s] /\ ~Generating(s)
  <2>1. pc[r] \in Sending /\ Generating(r)
    BY DEF SendTo, Sent, Generating
  <2>2. \A s \in Requests : s # r => ~Generating(s)
    BY <2>1, OneServed DEF Serving
  <2> QED  BY <2>1, <2>2 DEF SendTo, Sent, Goto, workers
<1>2. Lead(r) /\ \A w \in Workers : Follow(w, r)
  BY <1>1 DEF March, InStep
<1>3. /\ Earlier(r) \in Nat /\ Earlier(r) + 1 <= Len(Words(r))
      /\ Words(r)[Earlier(r) + 1] = [cmd |-> pc[r], by |-> r]
      /\ Words(r) \in Seq(Word) /\ Words(r)' = Words(r)
  BY <1>1, <1>2, EarlierFacts, WordsFacts DEF Words
<1>4. /\ Fresh' /\ Generating(r)' /\ Lead(r)'
      /\ \A s \in Requests : s # r => ~Generating(s)'
  <2>1. PICK place \in {"reset", "prefill", "payload", "decode", "clear", "compute"} :
          /\ pc' = [pc EXCEPT ![r] = place]
          /\ \/ place = pc[r]
             \/ pc[r] = "reset" /\ place = "clear"
             \/ pc[r] = "prefill" /\ place = "payload"
             \/ pc[r] \in {"payload", "decode"} /\ place = "compute"
    <3>1. CASE SendTo(r)
      BY <3>1 DEF SendTo, Sending
    <3>2. CASE Sent(r)
      BY <3>2 DEF Sent, Goto, AfterSend, Sending
    <3> QED  BY <3>1, <3>2
  <2>2. Fresh'
    BY <1>1, <2>1 DEF March, Fresh
  <2>3. Lead(r)'
    BY <1>1, <1>2, <2>1 DEF Lead
  <2> QED  BY <1>1, <2>1, <2>2, <2>3 DEF Generating, Sending
<1>5. ASSUME NEW w \in Workers  PROVE Follow(w, r)'
  <2>0. w \in Nat /\ World \in Nat /\ w < World /\ ~(w < 1) /\ to[r] \in Nat
    BY TpAssumption DEF Workers
  <2>1. CASE SendTo(r)
    <3>1. /\ pc' = pc /\ to'[r] = to[r] + 1 /\ to[r] \in Workers
          /\ chan' = [chan EXCEPT ![to[r]] = Append(@, [cmd |-> pc[r], by |-> r])]
      BY <2>0, <2>1 DEF SendTo, Workers
    <3>2. Earlier(r)' = Earlier(r)
      BY <1>3, <3>1 DEF Earlier
    <3>3. CASE w # to[r]
      <4>1. w < to[r] + 1 <=> w < to[r]
        BY <2>0, <3>3
      <4>2. Written(w, r)' = Written(w, r)
        BY <3>1, <3>2, <4>1 DEF Written
      <4>3. chan'[w] = chan[w]
        BY <3>1, <3>3
      <4> QED  BY <1>1, <1>2, <4>2, <4>3, FollowKept
    <3>4. CASE w = to[r]
      <4>1. Written(w, r) = Earlier(r) /\ Written(w, r)' = Earlier(r) + 1
        BY <1>1, <2>0, <3>1, <3>2, <3>4 DEF Written
      <4>2. PICK c \in 0..Earlier(r) : Behind(w, r, c)
        BY <1>2, <4>1 DEF Follow
      <4>3. chan'[w] = Append(Piece(Words(r), c, Earlier(r)), Words(r)[Earlier(r) + 1])
        BY <1>3, <3>1, <3>4, <4>1, <4>2 DEF Behind
      <4>4. chan'[w] = Piece(Words(r), c, Earlier(r) + 1)
        <5>1. c \in Nat /\ c <= Earlier(r) /\ Earlier(r) <= Len(Words(r)) /\ Earlier(r) < Len(Words(r))
          BY <1>3, <4>2
        <5> QED  BY <1>3, <4>3, <5>1, PieceFacts
      <4>5. Acted(w, r, c)'
        BY <1>1, <1>3, <4>2 DEF Behind, Acted
      <4>6. c \in 0..(Earlier(r) + 1)
        BY <1>3, <4>2
      <4> QED  BY <1>3, <4>1, <4>4, <4>5, <4>6 DEF Behind, Follow
    <3> QED  BY <3>3, <3>4
  <2>2. CASE Sent(r)
    <3>1. /\ chan' = chan /\ to[r] = World /\ to'[r] = 1
          /\ pc'[r] = AfterSend(pc[r])
      BY <2>2 DEF Sent, Goto
    <3>2. Written(w, r) = Earlier(r) + 1 /\ Written(w, r)' = Earlier(r)'
      BY <1>1, <2>0, <3>1 DEF Written
    <3>3. Earlier(r)' = Earlier(r) + 1
      <4>1. /\ pc[r] = "reset" => pc'[r] = "clear"
            /\ pc[r] = "prefill" => pc'[r] = "payload"
            /\ pc[r] \in {"payload", "decode"} => pc'[r] = "compute"
        BY <3>1 DEF AfterSend
      <4>2. steps[r] \in Nat /\ (pc[r] = "payload" => steps[r] = 0) /\ (pc[r] = "decode" => steps[r] # 0)
        BY <1>2, TpAssumption DEF Lead
      <4>3. /\ pc[r] = "payload" => Len(Words(r)) = 3
            /\ pc[r] = "decode" => Len(Words(r)) = 1
        BY <4>2, WordsFacts
      <4>4. Len(Words(r)') = Len(Words(r)) /\ pc'[r] \notin {"reset", "decode", "prefill"}
        BY <1>1, <1>3, <4>1 DEF Sending
      <4>5. /\ pc'[r] = "clear" => Earlier(r)' = 1
            /\ pc'[r] = "payload" => Earlier(r)' = 2
            /\ pc'[r] = "compute" => Earlier(r)' = Len(Words(r))
        BY <4>4 DEF Earlier
      <4>6. /\ pc[r] \in {"reset", "decode"} => Earlier(r) = 0
            /\ pc[r] = "prefill" => Earlier(r) = 1
            /\ pc[r] = "payload" => Earlier(r) = 2
        BY DEF Earlier
      <4>7. CASE pc[r] = "reset"  BY <4>1, <4>5, <4>6, <4>7
      <4>8. CASE pc[r] = "prefill"  BY <4>1, <4>5, <4>6, <4>8
      <4>9. CASE pc[r] = "payload"
        <5>1. Earlier(r)' = 3 /\ Earlier(r) = 2
          BY <4>1, <4>3, <4>5, <4>6, <4>9
        <5> QED  BY <5>1
      <4>10. CASE pc[r] = "decode"  BY <4>1, <4>3, <4>5, <4>6, <4>10
      <4> QED  BY <1>1, <4>7, <4>8, <4>9, <4>10 DEF Sending
    <3> QED  BY <1>1, <1>2, <3>1, <3>2, <3>3, FollowKept
  <2> QED  BY <2>1, <2>2
<1> QED  BY <1>4, <1>5 DEF March, InStep, AtRest

\* What rank 0 computes: its own reset, and its own forward pass.
LEMMA OwnMarch ==
  ASSUME TypeInv, Held, Alone, AtFirst, Streams \subseteq Patient, March,
         faults = 0, NEW r \in Requests, Clear(r) \/ Forward(r)
  PROVE  March'
<1> USE DEF TypeInv, TypeOK
<1>0. 0 \in Ranks /\ \A w \in Workers : w # 0
  BY TpAssumption DEF Ranks, Workers
<1>1. /\ pc[r] \in {"clear", "compute"} /\ Generating(r) /\ steps[r] \in Nat
      /\ UNCHANGED <<rootUp, to, steps, chan, wstate, job, faults>>
      /\ \A w \in Workers : session'[w] = session[w]
      /\ \A s \in Requests : s # r => pc'[s] = pc[s] /\ ~Generating(s)
  <2>1. pc[r] \in {"clear", "compute"} /\ Generating(r)
    BY DEF Clear, Forward, Generating
  <2>2. \A s \in Requests : s # r => ~Generating(s)
    BY <2>1, OneServed DEF Serving
  <2>3. \A w \in Workers : session'[w] = session[w]
    <3>1. \A k \in Ranks : k # 0 => session'[k] = session[k]
      BY <1>0 DEF Clear, Forward
    <3> QED  BY <1>0, <3>1, TpAssumption DEF Workers, Ranks
  <2>4. \A s \in Requests : s # r => pc'[s] = pc[s]
    BY DEF Clear, Forward, Goto
  <2>5. steps[r] \in Nat /\ UNCHANGED <<rootUp, to, steps, chan, wstate, job, faults>>
    BY TpAssumption DEF Clear, Forward, workers
  <2> QED  BY <2>1, <2>2, <2>3, <2>4, <2>5
<1>2. Lead(r) /\ \A w \in Workers : Follow(w, r)
  BY <1>1 DEF March, InStep
<1>3. /\ Lead(r)' /\ Earlier(r)' = Earlier(r)
      /\ \A w \in Workers : Written(w, r)' = Written(w, r)
  <2>1. CASE Clear(r)
    <3>1. pc[r] = "clear" /\ pc'[r] = "prefill" /\ session'[0] = <<>> /\ steps'[r] = 0
      BY <1>0, <1>1, <1>2, <2>1 DEF Clear, Goto, Lead
    <3>2. Lead(r)'
      BY <3>1, FedFacts DEF Lead
    <3>3. Earlier(r)' = Earlier(r)
      BY <3>1 DEF Earlier
    <3>4. to'[r] = 1 /\ \A w \in Workers : ~(w < 1)
      <4>1. to[r] = 1 /\ to' = to
        BY <1>1, <3>1 DEF AtFirst, Sending
      <4>2. \A w \in Workers : ~(w < 1)
        BY TpAssumption DEF Workers
      <4> QED  BY <4>1, <4>2
    <3> QED  BY <3>1, <3>2, <3>3, <3>4 DEF Written, Sending
  <2>2. CASE Forward(r)
    <3>1. pc[r] = "compute" /\ pc'[r] = "collective" /\ session'[0] = Append(session[0], r)
      BY <1>0, <1>1, <2>2 DEF Forward, Goto
    <3>2. session'[0] = Fed(r, steps[r] + 1)
      <4>1. session[0] = Fed(r, steps[r])
        BY <1>2, <3>1 DEF Lead
      <4>2. Append(Fed(r, steps[r]), r) = Fed(r, steps[r] + 1)
        BY <1>1, FedFacts
      <4> QED  BY <3>1, <4>1, <4>2
    <3>3. Lead(r)'
      BY <1>1, <3>1, <3>2 DEF Lead
    <3>4. Earlier(r)' = Earlier(r)
      BY <1>1, <3>1 DEF Earlier, Words
    <3> QED  BY <3>1, <3>3, <3>4 DEF Written, Sending
  <2> QED  BY <2>1, <2>2
<1>4. pc'[r] \in {"prefill", "collective"} /\ Generating(r)' /\ Fresh'
      /\ \A s \in Requests : s # r => ~Generating(s)'
  <2>1. PICK place \in {"prefill", "collective"} : pc' = [pc EXCEPT ![r] = place]
    BY DEF Clear, Forward, Goto
  <2>2. Fresh'
    BY <1>1, <2>1 DEF March, Fresh
  <2> QED  BY <1>1, <2>1, <2>2 DEF Generating, Sending
<1>5. \A w \in Workers : Follow(w, r)'
  BY <1>1, <1>2, <1>3, FollowKept
<1> QED  BY <1>3, <1>4, <1>5 DEF March, InStep, AtRest

\* The meeting.
LEMMA MeetMarch ==
  ASSUME TypeInv, Held, Alone, AtFirst, Streams \subseteq Patient, March,
         faults = 0, NEW r \in Requests, Meet(r)
  PROVE  March'
<1> USE DEF TypeInv, TypeOK
<1>1. /\ pc[r] = "collective" /\ Generating(r) /\ steps[r] \in Nat
      /\ UNCHANGED <<rootUp, to, chan, job, session, faults>>
      /\ steps' = [steps EXCEPT ![r] = steps[r] + 1]
      /\ \A w \in Workers : wstate[w] = "collective" /\ wstate'[w] = "idle"
  BY TpAssumption DEF Meet, Generating
<1>2. PICK place \in {"decode", "reply"} : pc' = [pc EXCEPT ![r] = place]
  BY DEF Meet, Goto
<1>3. \A s \in Requests : s # r => ~Generating(s) /\ ~Generating(s)'
  BY <1>1, <1>2, OneServed DEF Serving, Generating
<1>4. Lead(r) /\ session'[0] = Fed(r, steps[r] + 1)
  BY <1>1 DEF March, InStep, Lead
<1>5. \A w \in Workers : chan[w] = <<>> /\ session[w] = Fed(r, steps[r] + 1)
  BY <1>1, <1>4, FollowMet DEF March, InStep
<1>6. Fresh'
  BY <1>1, <1>2 DEF March, Fresh
<1>7. CASE place = "reply"
  <2>1. InStep'
    BY <1>2, <1>3, <1>7 DEF InStep, Generating, Sending
  <2>2. AtRest'
    BY <1>1, <1>5 DEF AtRest, Resting
  <2> QED  BY <1>6, <2>1, <2>2 DEF March
<1>8. CASE place = "decode"
  <2>1. pc'[r] = "decode" /\ Generating(r)' /\ steps'[r] = steps[r] + 1 /\ steps'[r] > 0
    BY <1>1, <1>2, <1>8 DEF Generating, Sending
  <2>2. Lead(r)'
    BY <1>4, <2>1 DEF Lead
  <2>3. ASSUME NEW w \in Workers  PROVE Follow(w, r)'
    <3>1. to'[r] = 1 /\ ~(w < 1) /\ Earlier(r)' = 0
      <4>1. to[r] = 1 /\ to' = to
        BY <1>1 DEF AtFirst, Sending
      <4>2. ~(w < 1)
        BY TpAssumption DEF Workers
      <4> QED  BY <2>1, <4>1, <4>2 DEF Earlier
    <3>2. Written(w, r)' = 0
      BY <3>1 DEF Written
    <3>3. Words(r)' = <<[cmd |-> "decode", by |-> r]>>
      BY <2>1 DEF Words
    <3>4. Words(r)' \in Seq(Word) /\ Len(Words(r)') = 1
      BY <3>3 DEF Word
    <3>5. Piece(Words(r)', 0, 0) = <<>>
      BY <3>4, PieceFacts
    <3>6. chan'[w] = <<>> /\ wstate'[w] = "idle" /\ session'[w] = Fed(r, steps'[r])
      BY <1>1, <1>5, <2>1
    <3>7. Acted(w, r, 0)'
      BY <3>4, <3>6 DEF Acted
    <3>8. Behind(w, r, 0)'
      BY <3>2, <3>5, <3>6, <3>7 DEF Behind
    <3> QED  BY <3>2, <3>8 DEF Follow
  <2>4. InStep'
    BY <1>3, <2>1, <2>2, <2>3 DEF InStep
  <2>5. AtRest'
    BY <2>1 DEF AtRest
  <2> QED  BY <1>6, <2>4, <2>5 DEF March
<1> QED  BY <1>7, <1>8

\* The steps of a worker.
LEMMA WorkerMarch ==
  ASSUME TypeInv, Quiet, Streams \subseteq Patient, March,
         faults = 0, NEW w \in Workers, Loop(w)
  PROVE  March'
<1> USE DEF TypeInv, TypeOK, WGoto
<1>0. 0 \in Ranks /\ w \in Ranks /\ w # 0
  BY TpAssumption DEF Ranks, Workers
<1>1. /\ UNCHANGED <<rootUp, pc, to, steps, faults>>
      /\ session'[0] = session[0]
      /\ \A v \in Workers : v # w => /\ chan'[v] = chan[v] /\ wstate'[v] = wstate[v]
                                     /\ job'[v] = job[v] /\ session'[v] = session[v]
  <2>1. UNCHANGED <<rootUp, pc, to, steps, faults>>
    BY DEF Loop, Recv, RecvPayload, WForward, Eof, threads
  <2>2. \A v \in Workers : v # w => chan'[v] = chan[v] /\ wstate'[v] = wstate[v] /\ job'[v] = job[v]
    BY DEF Loop, Recv, RecvPayload, WForward, Eof
  <2>3. \A k \in Ranks : k # w => session'[k] = session[k]
    BY DEF Loop, Recv, RecvPayload, WForward, Eof
  <2> QED  BY <1>0, <2>1, <2>2, <2>3 DEF Workers, Ranks
<1>2. Fresh'
  BY <1>1 DEF March, Fresh
<1>3. CASE \A r \in Requests : ~Generating(r)
  <2>1. InStep'
    BY <1>1, <1>3 DEF InStep, Generating
  <2>2. ~rootUp
    BY <1>3 DEF March, AtRest, Resting, Loop, Recv, RecvPayload, WForward, Eof
  <2> QED  BY <1>1, <1>2, <2>1, <2>2 DEF March, AtRest
<1>4. CASE \E r \in Requests : Generating(r)
  <2>1. rootUp
    BY <1>4 DEF Quiet
  <2>2. ASSUME NEW r \in Requests, Generating(r)  PROVE Follow(w, r)'
    <3>1. /\ Lead(r) /\ steps[r] \in Nat
          /\ Words(r) \in Seq(Word) /\ Words(r)' = Words(r) /\ Len(Words(r)) \in {1, 3}
          /\ Written(w, r) \in Nat /\ Written(w, r) <= Len(Words(r)) /\ Written(w, r)' = Written(w, r)
      <4>1. Lead(r)
        BY <2>2 DEF March, InStep
      <4>2. Words(r)' = Words(r) /\ Written(w, r)' = Written(w, r)
        BY <1>1 DEF Words, Written, Earlier
      <4>3. Words(r) \in Seq(Word) /\ Len(Words(r)) \in {1, 3} /\ steps[r] \in Nat
        <5>1. steps[r] \in Nat
          BY TpAssumption
        <5> QED  BY <5>1, WordsFacts
      <4>4. Written(w, r) \in Nat /\ Written(w, r) <= Len(Words(r))
        BY <2>2, <4>1, WrittenFacts
      <4> QED  BY <4>1, <4>2, <4>3, <4>4
    <3>0. /\ steps[r] = 0 => /\ Len(Words(r)) = 3
                             /\ Words(r)[1] = [cmd |-> "reset", by |-> r]
                             /\ Words(r)[2] = [cmd |-> "prefill", by |-> r]
                             /\ Words(r)[3] = [cmd |-> "payload", by |-> r]
          /\ steps[r] # 0 => /\ Len(Words(r)) = 1
                             /\ Words(r)[1] = [cmd |-> "decode", by |-> r]
      BY WordsFacts
    <3>2. PICK c \in 0..Written(w, r) : Behind(w, r, c)
      BY <2>2 DEF March, InStep, Follow
    <3>3. c \in Nat /\ c <= Written(w, r) /\ (chan[w] = <<>> <=> c = Written(w, r))
      BY <3>1, <3>2, PieceFacts DEF Behind
    <3>4. ASSUME chan[w] # <<>>
          PROVE  /\ c < Written(w, r) /\ c < Len(Words(r))
                 /\ Head(chan[w]) = Words(r)[c + 1]
                 /\ Tail(chan[w]) = Piece(Words(r), c + 1, Written(w, r))
                 /\ c + 1 \in 0..Written(w, r)
      <4>1. c < Written(w, r) /\ c < Len(Words(r)) /\ c + 1 \in 0..Written(w, r)
        BY <3>1, <3>3, <3>4
      <4>2. /\ Head(Piece(Words(r), c, Written(w, r))) = Words(r)[c + 1]
            /\ Tail(Piece(Words(r), c, Written(w, r))) = Piece(Words(r), c + 1, Written(w, r))
        <5>1. /\ Words(r) \in Seq(Word) /\ c \in Nat /\ Written(w, r) \in Nat
              /\ c <= Written(w, r) /\ Written(w, r) <= Len(Words(r)) /\ c < Written(w, r)
          BY <3>1, <4>1
        <5> QED  BY <5>1, PieceFacts, SMTT(30)
      <4>3. chan[w] = Piece(Words(r), c, Written(w, r))
        BY <3>2 DEF Behind
      <4> QED  BY <4>1, <4>2, <4>3
    <3>5. CASE Recv(w)
      <4>1. /\ chan[w] # <<>> /\ chan'[w] = Tail(chan[w]) /\ wstate[w] = "idle"
            /\ job'[w] = Head(chan[w]).by
        BY <3>5 DEF Recv
      <4>2. c # 2 /\ ((c = 0 /\ steps[r] = 0) \/ session[w] = Fed(r, steps[r]))
        BY <3>2, <3>4, <4>1 DEF Behind, Acted
      <4>3. CASE steps[r] = 0 /\ c = 0
        <5>1. Head(chan[w]) = [cmd |-> "reset", by |-> r] /\ Len(Words(r)) = 3
          BY <3>0, <3>4, <4>1, <4>3
        <5>2. wstate'[w] = "idle" /\ session'[w] = <<>>
          BY <1>0, <3>5, <5>1 DEF Recv
        <5>3. session'[w] = Fed(r, steps'[r])
          BY <1>1, <4>3, <5>2, FedFacts
        <5>4. Acted(w, r, c + 1)'
          BY <3>1, <4>3, <5>1, <5>2, <5>3 DEF Acted
        <5> QED  BY <3>1, <3>4, <4>1, <5>4 DEF Behind, Follow
      <4>4. CASE steps[r] = 0 /\ c = 1
        <5>1. Head(chan[w]) = [cmd |-> "prefill", by |-> r] /\ Len(Words(r)) = 3
          BY <3>0, <3>4, <4>1, <4>4
        <5>2. wstate'[w] = "payload" /\ job'[w] = r /\ session' = session
          BY <3>5, <4>1, <5>1 DEF Recv
        <5>3. Acted(w, r, c + 1)'
          BY <1>1, <3>1, <4>2, <4>4, <5>1, <5>2 DEF Acted
        <5> QED  BY <3>1, <3>4, <4>1, <5>3 DEF Behind, Follow
      <4>5. CASE steps[r] # 0
        <5>1. Len(Words(r)) = 1 /\ c = 0
          <6>1. c \in Nat /\ c < Len(Words(r))
            BY <3>3, <3>4, <4>1
          <6>2. Len(Words(r)) = 1
            BY <3>0, <4>5
          <6> QED  BY <6>1, <6>2
        <5>2. Head(chan[w]) = [cmd |-> "decode", by |-> r]
          BY <3>0, <3>4, <4>1, <4>5, <5>1
        <5>3. wstate'[w] = "compute" /\ job'[w] = r /\ session' = session
          BY <3>5, <4>1, <5>2 DEF Recv
        <5>4. Acted(w, r, c + 1)'
          BY <1>1, <3>1, <4>2, <4>5, <5>1, <5>3 DEF Acted
        <5> QED  BY <3>1, <3>4, <4>1, <5>4 DEF Behind, Follow
      <4>6. steps[r] = 0 => c \in {0, 1}
        <5>1. c \in Nat /\ c < Len(Words(r)) /\ c # 2
          BY <3>3, <3>4, <4>1, <4>2
        <5>2. steps[r] = 0 => c < 3
          BY <3>0, <5>1
        <5> QED  BY <5>1, <5>2
      <4> QED  BY <4>3, <4>4, <4>5, <4>6
    <3>6. CASE RecvPayload(w)
      <4>1. /\ chan[w] # <<>> /\ chan'[w] = Tail(chan[w]) /\ wstate[w] = "payload"
            /\ UNCHANGED <<job, session>>
        BY <3>6 DEF RecvPayload
      <4>2. c = 2 /\ job[w] = r /\ session[w] = Fed(r, steps[r])
        BY <3>1, <3>2, <3>4, <4>1 DEF Behind, Acted
      <4>3. steps[r] = 0 /\ Len(Words(r)) = 3 /\ Words(r)[3] = [cmd |-> "payload", by |-> r]
        BY <3>0, <3>1, <3>4, <4>1, <4>2
      <4>4. Head(chan[w]) = [cmd |-> "payload", by |-> job[w]] /\ c + 1 = 3
        BY <3>4, <4>1, <4>2, <4>3
      <4>5. wstate'[w] = "compute"
        BY <3>6, <4>4 DEF RecvPayload
      <4>6. Acted(w, r, c + 1)'
        BY <1>1, <3>1, <4>1, <4>2, <4>3, <4>4, <4>5 DEF Acted
      <4> QED  BY <3>1, <3>4, <4>1, <4>6 DEF Behind, Follow
    <3>7. CASE WForward(w)
      <4>1. /\ chan' = chan /\ wstate[w] = "compute" /\ wstate'[w] = "collective"
            /\ session'[w] = Append(session[w], job[w])
        BY <1>0, <3>7 DEF WForward
      <4>2. c = Len(Words(r)) /\ job[w] = r /\ session[w] = Fed(r, steps[r])
        BY <3>2, <4>1 DEF Behind, Acted
      <4>3. session'[w] = Fed(r, steps[r] + 1)
        <5>1. Append(Fed(r, steps[r]), r) = Fed(r, steps[r] + 1)
          BY <3>1, FedFacts
        <5> QED  BY <4>1, <4>2, <5>1
      <4>4. Acted(w, r, c)'
        BY <1>1, <3>1, <4>1, <4>2, <4>3 DEF Acted
      <4> QED  BY <3>1, <3>2, <4>1, <4>4 DEF Behind, Follow
    <3>8. ~Eof(w)
      BY <2>1 DEF Eof
    <3> QED  BY <3>5, <3>6, <3>7, <3>8 DEF Loop
  <2>3. ASSUME NEW r \in Requests, Generating(r), NEW v \in Workers, v # w  PROVE Follow(v, r)'
    <3>1. Written(v, r)' = Written(v, r)
      BY <1>1 DEF Written, Earlier, Words
    <3> QED  BY <1>1, <2>3, <3>1, FollowKept DEF March, InStep
  <2>4. InStep'
    BY <1>1, <2>2, <2>3 DEF March, InStep, Generating, Lead
  <2>5. AtRest'
    BY <1>1, <1>4 DEF AtRest, Generating
  <2> QED  BY <1>2, <2>4, <2>5 DEF March
<1> QED  BY <1>3, <1>4

LEMMA MarchHolds ==
  ASSUME Streams \subseteq Patient
  PROVE  Spec => []March
<1>1. TypeInv /\ Held /\ Alone /\ Quiet /\ FrameInv /\ March /\ [Next]_vars => March'
  <2> SUFFICES ASSUME TypeInv, Held, Alone, Quiet, FrameInv, March, [Next]_vars
               PROVE  March'
    OBVIOUS
  <2>0. AtFirst /\ faults \in Nat
    BY TpAssumption DEF FrameInv, TypeInv, TypeOK
  <2>1. faults # 0 => faults' # 0
    <3>1. ASSUME NEW r \in Requests, Arrive(r) \/ Thread(r) \/ Raise(r)
          PROVE  faults' = faults \/ faults' = faults + 1
      BY <3>1 DEF Arrive, Thread, Lock, Route, SendTo, Sent, Clear, Forward, Meet, Reply, Raise
    <3>2. ASSUME NEW w \in Workers, Loop(w) \/ WRaise(w)
          PROVE  faults' = faults \/ faults' = faults + 1
      BY <3>2 DEF Loop, Recv, RecvPayload, WForward, WRaise, Eof
    <3>3. Shutdown \/ UNCHANGED vars => faults' = faults
      BY DEF Shutdown, vars
    <3>4. faults' = faults \/ faults' = faults + 1
      BY <3>1, <3>2, <3>3 DEF Next
    <3> QED  BY <2>0, <3>4
  <2>2. ASSUME NEW r \in Requests, Raise(r)  PROVE faults' # 0
    BY <2>0, <2>2 DEF Raise
  <2>3. ASSUME NEW w \in Workers, WRaise(w)  PROVE faults' # 0
    BY <2>0, <2>3 DEF WRaise
  <2>4. CASE Shutdown /\ faults = 0
    <3>1. UNCHANGED <<pc, to, steps, session, wstate, job>> /\ ~rootUp'
      BY <2>4 DEF Shutdown, threads, workers
    <3>2. \A r \in Requests : pc[r] = "new"
      BY <2>4 DEF Quiet, Shutdown
    <3> QED
      BY <2>4, <3>1, <3>2 DEF March, Fresh, InStep, AtRest, Generating, Sending
  <2>5. CASE UNCHANGED vars
    BY <2>5 DEF vars, threads, workers, March, Fresh, InStep, AtRest, Generating, Lead, Follow,
                Behind, Acted, Written, Earlier, Words, Resting
  <2> QED
    BY <2>0, <2>1, <2>2, <2>3, <2>4, <2>5, IdleMarch, SendMarch, OwnMarch, MeetMarch,
       WorkerMarch DEF Next, Thread, March
<1> QED
  BY <1>1, MarchInit, FrameHolds, HeldHolds, AloneHolds, QuietHolds, TypeInvHolds, PTL DEF Spec

(***************************************************************************)
(* When the ranks meet they have all been fed by the request that gets the *)
(* token, and by nothing else since the reset (PersistentEngine::          *)
(* reset_session and run_worker_loop, dsv4_engine.cpp): for any number of  *)
(* ranks, clients and tokens, until a forward pass raises.                 *)
(***************************************************************************)
THEOREM LockstepOneStream ==
  ASSUME Streams \subseteq Patient
  PROVE  Spec => []Lockstep
<1>1. TypeInv /\ March => Lockstep
  <2> SUFFICES ASSUME TypeInv, March, NEW r \in Requests, Met(r), faults = 0
               PROVE  /\ \A k \in Ranks : session[k] = session[0]
                      /\ \A i \in 1..Len(session[0]) : session[0][i] = r
    BY DEF Lockstep
  <2>1. steps[r] + 1 \in Nat
    BY TpAssumption DEF TypeInv, TypeOK
  <2>2. Generating(r)
    BY DEF Met, Generating
  <2>3. session[0] = Fed(r, steps[r] + 1) /\ Lead(r)
    BY <2>2 DEF March, InStep, Lead, Met
  <2>4. \A w \in Workers : session[w] = Fed(r, steps[r] + 1)
    BY <2>2, <2>3, FollowMet DEF March, InStep, Met
  <2>5. \A k \in Ranks : k = 0 \/ k \in Workers
    BY TpAssumption DEF Ranks, Workers
  <2>6. /\ Len(Fed(r, steps[r] + 1)) = steps[r] + 1
        /\ \A i \in 1..steps[r] + 1 : Fed(r, steps[r] + 1)[i] = r
    BY <2>1, FedFacts, Zenon
  <2>7. \A k \in Ranks : session[k] = session[0]
    BY <2>3, <2>4, <2>5
  <2>8. \A i \in 1..Len(session[0]) : session[0][i] = r
    BY <2>3, <2>6, Zenon
  <2> QED  BY <2>7, <2>8
<1> QED  BY <1>1, MarchHolds, TypeInvHolds, PTL

(***************************************************************************)
(* While no forward pass raises, rank 0 never meets in a collective that a *)
(* worker sleeping in read() would have to be called to: whoever sends a   *)
(* command goes on to serve it (cmd_channel.cpp, dsv4_engine.cpp).         *)
(***************************************************************************)
THEOREM NoOneStallsOneStream ==
  ASSUME Streams \subseteq Patient
  PROVE  Spec => []NoOneStalls
<1>1. TypeInv /\ March => NoOneStalls
  <2> SUFFICES ASSUME TypeInv, March, faults = 0, NEW r \in Requests, NEW w \in Workers,
                      pc[r] = "collective", Resting(w)
               PROVE  FALSE
    BY DEF NoOneStalls, NoOneWaitsForEver, Resting
  <2>1. Generating(r)
    BY DEF Generating
  <2> QED  BY <2>1, FollowMet DEF March, InStep
<1> QED  BY <1>1, MarchHolds, TypeInvHolds, PTL
=============================================================================
