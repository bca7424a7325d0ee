------------------------ MODULE MCExpertMemoryProofs ------------------------
(***************************************************************************)
(* Proofs about two of the parts of MCExpertMemory.                        *)
(*                                                                         *)
(* CpuPipeline, which it extends: for any number of layers, slots, passes  *)
(* and exceptions, with every setting of conf.                             *)
(*                                                                         *)
(* ExpertWeights, its instance Weights: for any number of experts, with    *)
(* every setting, as long as the bound on allocations leaves a number that *)
(* is not in use.  The invariant has a part for each of the formats of a   *)
(* checkpoint, which say where the tensors of an expert are at each stage. *)
(***************************************************************************)
EXTENDS MCExpertMemory, SequenceTheorems, FiniteSetTheorems, TLAPS

-----------------------------------------------------------------------------
(***************************************************************************)
(* Types.                                                                  *)
(***************************************************************************)
Calls == Nat \X Nat
Buffered == 0 .. Depth - 1
Numbers == 0 .. MaxPasses
Moves == [op : {"gate", "in", "out", "reduce", "use", "leftover", "dispatched"},
          call : Calls, buf : Numbers, slot : Buffered]
Waits == [op : {"wait"}, for : Streams, upto : Nat]
Ops == Moves \cup Waits
Tasks == [call : Calls, buf : Numbers, slot : Buffered, ready : Nat]
Hosts == [Numbers -> [in : [Buffered -> Calls], out : [Buffered -> Calls], gpu : [Buffered -> Calls]]]

\* Every variable that the proofs look into has its type.
TypeOK ==
  /\ conf \in [how : {"executor", "worker"}, async : BOOLEAN, routes : BOOLEAN]
  /\ pass \in Numbers /\ batch \in Batches \cup {0} /\ single \in BOOLEAN /\ layer \in Layers
  /\ pc \in {"begin", "gate", "submit", "inline", "shared", "sync"}
  /\ pending \in [Layers -> Calls]
  /\ temp \in [bs : Batches \cup {0}, n : Numbers]
  /\ host \in Hosts /\ x \in Calls /\ y \in Calls
  /\ stream \in [Streams -> Seq(Ops)] /\ ran \in [Streams -> Nat]
  /\ tasks \in Seq(Tasks) /\ running \in BOOLEAN /\ (running => tasks # <<>>)

-----------------------------------------------------------------------------
(***************************************************************************)
(* The inductive invariant.                                                *)
(***************************************************************************)
Doomed == pc = "begin" /\ pending[layer] # Nobody
InFlight == pc \in {"inline", "shared", "sync"} \/ Doomed
Handed == pc = "submit" \/ InFlight

\* The buffers of a pass are replaced once, before its first call is in flight.
BufferKept ==
  /\ temp.n <= pass
  /\ pc \in {"inline", "shared", "sync"} => temp.bs = batch
  /\ temp.bs # batch => temp.n < pass

\* _pending of a layer is a call of this layer; as long as no pass was given up, the last call.
PendingKept ==
  /\ pc # "begin" => pass > 0
  /\ pc \in {"shared", "sync"} => pending[layer] = Call
  /\ pc = "inline" => pending[layer] = Nobody
  /\ \A l \in Layers : pending[l] # Nobody => pending[l][1] \in 1 .. pass /\ pending[l][2] = l
  /\ ~Abandoned => \A l \in Layers :
       pending[l] # Nobody => l = layer /\ pc \in {"begin", "shared", "sync"}

As(o, op) == [o EXCEPT !.op = op]
Until(s) == [op |-> "wait", for |-> s, upto |-> Sent(s)]

\* The last operation of a call finds the result of this call, ...
Ready(o) ==
  /\ o \in Moves
  /\ \/ o.op = "leftover"
     \/ o.op = "use" /\ (IF conf.async THEN y ELSE host[o.buf].gpu[o.slot]) = o.call
     \/ o.op = "dispatched" /\ host[0].gpu[o.slot] = o.call

\* ... or it is still on its way.
Coming(o, v) == o \in Moves /\ (o.op = "leftover" \/ (o.op = "use" /\ v = o.call))

Reducing(o) ==
  \/ stream[Reduce] = <<As(o, "out"), As(o, "reduce")>> /\ Coming(o, host[o.buf].out[o.slot])
  \/ stream[Reduce] = <<As(o, "reduce")>> /\ Coming(o, host[o.buf].gpu[o.slot])
  \/ stream[Reduce] = <<>> /\ Coming(o, y)

\* q is what the main stream has not executed of the call before.
Before(q) ==
  \/ q = <<>> /\ stream[Reduce] = <<>>
  \/ q = <<q[1]>> /\ stream[Reduce] = <<>> /\ Ready(q[1])
  \/ /\ q = <<q[1], q[2]>> /\ stream[Reduce] = <<>> /\ ~conf.async
     /\ q[1] = As(q[2], "out") /\ Coming(q[2], host[q[2].buf].out[q[2].slot])
  \/ /\ q = <<q[1], q[2]>> /\ conf.async
     /\ q[1] = Until(Reduce) /\ Reducing(q[2])

\* After it comes the gate of the call at hand.
MainKept ==
  \E q \in Seq(Ops) :
    /\ Before(q)
    /\ \/ stream[Main] = q /\ (Handed => q = <<>> /\ x = Call)
       \/ stream[Main] = Append(q, Op("gate", 0, 0)) /\ Handed

\* Only the call in flight is being copied, after everything on the main stream.
CopyKept ==
  /\ \A l \in Layers : l # layer => stream[Copying(l)] = <<>>
  /\ ~InFlight => stream[Copying(layer)] = <<>>
  /\ InFlight =>
       \/ stream[Copying(layer)] = <<Until(Main), Op("in", temp.n, Slot)>>
       \/ stream[Copying(layer)] = <<Op("in", temp.n, Slot)>> /\ stream[Main] = <<>>
       \/ /\ stream[Copying(layer)] = <<>> /\ stream[Main] = <<>>
          /\ host[temp.n].in[Slot] = Call

\* The worker has this call, starts it when it is copied, and has then its result.
WorkerKept ==
  /\ ~InFlight \/ pc = "inline" => tasks = <<>> /\ ~running
  /\ InFlight /\ pc # "inline" =>
       \/ /\ tasks = <<[call |-> Call, buf |-> temp.n, slot |-> Slot, ready |-> Sent(Copying(layer))]>>
          /\ running => stream[Copying(layer)] = <<>>
       \/ /\ tasks = <<>> /\ ~running /\ stream[Copying(layer)] = <<>>
          /\ host[temp.n].out[Slot] = Call \/ Call \in left \/ Call \in failed

Flow == MainKept /\ CopyKept /\ WorkerKept
Inv == TypeOK /\ BufferKept /\ PendingKept /\ (Abandoned \/ Flow)

-----------------------------------------------------------------------------
(***************************************************************************)
(* Layers, slots, streams, operations and buffers.                         *)
(***************************************************************************)
LEMMA Places ==
  ASSUME layer \in Layers
  PROVE  Slot \in Buffered /\ 0 \in Buffered /\ 0 \in Numbers /\ 0 \in Layers
BY PipelineAssumption DEF Slot, Buffered, Numbers, Layers

LEMMA StreamNames ==
  /\ Main \in Streams /\ Reduce \in Streams /\ Main # Reduce
  /\ \A l \in Layers : Copying(l) \in Streams /\ Copying(l) # Main /\ Copying(l) # Reduce
  /\ \A l, k \in Layers : Copying(l) = Copying(k) => l = k
  /\ \A s \in Streams : s = Main \/ s = Reduce \/ \E l \in Layers : s = Copying(l)
BY DEF Main, Reduce, Copying, Streams

LEMMA CallTyped ==
  ASSUME TypeOK
  PROVE  Call \in Calls /\ Nobody \in Calls /\ (pass > 0 => Call # Nobody)
BY DEF TypeOK, Call, Calls, Nobody, Numbers, Layers

LEMMA OpTyped ==
  ASSUME TypeOK,
         NEW op \in {"gate", "in", "out", "reduce", "use", "leftover", "dispatched"},
         NEW b \in Numbers, NEW s \in Buffered
  PROVE  /\ Op(op, b, s) \in Moves /\ Op(op, b, s) \in Ops
         /\ Op(op, b, s).op = op /\ Op(op, b, s).call = Call
         /\ Op(op, b, s).buf = b /\ Op(op, b, s).slot = s
BY CallTyped DEF Op, Moves, Ops

LEMMA SentTyped ==
  ASSUME TypeOK, NEW s \in Streams
  PROVE  /\ stream[s] \in Seq(Ops) /\ ran[s] \in Nat /\ Len(stream[s]) \in Nat
         /\ Sent(s) \in Nat /\ Wait(s) \in Waits /\ Wait(s) \in Ops
<1>1. stream[s] \in Seq(Ops) /\ ran[s] \in Nat
  BY DEF TypeOK
<1>2. Len(stream[s]) \in Nat
  BY <1>1
<1> HIDE DEF Ops
<1>3. Sent(s) \in Nat
  BY <1>1, <1>2 DEF Sent
<1> QED  BY <1>1, <1>2, <1>3 DEF Wait, Waits, Ops

PutIn(h, b, s, v) == [h EXCEPT ![b].in[s] = v]
PutOut(h, b, s, v) == [h EXCEPT ![b].out[s] = v]
PutGpu(h, b, s, v) == [h EXCEPT ![b].gpu[s] = v]

LEMMA PutInFacts ==
  ASSUME NEW h \in Hosts, NEW b \in Numbers, NEW s \in Buffered, NEW v \in Calls
  PROVE  /\ PutIn(h, b, s, v) \in Hosts /\ PutIn(h, b, s, v)[b].in[s] = v
         /\ \A a \in Numbers : PutIn(h, b, s, v)[a].out = h[a].out /\ PutIn(h, b, s, v)[a].gpu = h[a].gpu
BY DEF PutIn, Hosts

LEMMA PutOutFacts ==
  ASSUME NEW h \in Hosts, NEW b \in Numbers, NEW s \in Buffered, NEW v \in Calls
  PROVE  /\ PutOut(h, b, s, v) \in Hosts /\ PutOut(h, b, s, v)[b].out[s] = v
         /\ \A a \in Numbers : PutOut(h, b, s, v)[a].in = h[a].in /\ PutOut(h, b, s, v)[a].gpu = h[a].gpu
BY DEF PutOut, Hosts

LEMMA PutGpuFacts ==
  ASSUME NEW h \in Hosts, NEW b \in Numbers, NEW s \in Buffered, NEW v \in Calls
  PROVE  /\ PutGpu(h, b, s, v) \in Hosts /\ PutGpu(h, b, s, v)[b].gpu[s] = v
         /\ \A a \in Numbers : PutGpu(h, b, s, v)[a].in = h[a].in /\ PutGpu(h, b, s, v)[a].out = h[a].out
BY DEF PutGpu, Hosts

LEMMA BufferTyped ==
  ASSUME TypeOK, BufferKept
  PROVE  /\ Buffer \in [bs : Batches \cup {0}, n : Numbers] /\ Buffer.bs = batch
         /\ Buffer.n <= pass /\ (temp.bs = batch => Buffer = temp)
<1>1. temp \in [bs : Batches \cup {0}, n : Numbers] /\ batch \in Batches \cup {0} /\ pass \in Numbers
  BY DEF TypeOK
<1>2. CASE temp.bs = batch
  BY <1>1, <1>2 DEF Buffer, BufferKept
<1>3. CASE temp.bs # batch
  <2>1. temp.n \in Nat /\ temp.n < pass /\ pass <= MaxPasses /\ MaxPasses \in Nat /\ pass \in Nat
    BY <1>1, <1>3, PipelineAssumption DEF BufferKept, Numbers
  <2>2. temp.n + 1 \in Numbers /\ temp.n + 1 <= pass
    BY <2>1 DEF Numbers
  <2>3. Buffer = [bs |-> batch, n |-> temp.n + 1]
    BY <1>3 DEF Buffer
  <2> QED  BY <1>1, <1>3, <2>2, <2>3
<1> QED  BY <1>2, <1>3

LEMMA FirstTyped ==
  ASSUME TypeOK, NEW s \in Streams, stream[s] # <<>>
  PROVE  Head(stream[s]) \in Ops /\ Tail(stream[s]) \in Seq(Ops)
<1>1. stream[s] \in Seq(Ops)
  BY DEF TypeOK
<1> HIDE DEF Ops
<1> QED  BY <1>1

LEMMA GivenTyped ==
  ASSUME TypeOK, NEW s \in Streams, NEW q \in Seq(Ops)
  PROVE  stream[s] \o q \in Seq(Ops)
<1>1. stream[s] \in Seq(Ops)
  BY DEF TypeOK
<1> QED  BY <1>1, ConcatProperties

LEMMA InitType ==
  ASSUME Init
  PROVE  TypeOK
<1>1. Nobody \in Calls /\ 0 \in Numbers /\ 0 \in Layers
  BY PipelineAssumption DEF Calls, Nobody, Numbers, Layers
<1>2. Zeros \in [Buffered -> Calls]
  BY <1>1 DEF Zeros, Buffered
<1>3. host \in Hosts
  BY <1>2 DEF Init, Buffers, Hosts, Numbers
<1>4. stream \in [Streams -> Seq(Ops)] /\ ran \in [Streams -> Nat] /\ tasks \in Seq(Tasks)
  BY DEF Init
<1> HIDE DEF Calls, Numbers, Layers, Hosts, Ops, Streams, Tasks
<1> QED  BY <1>1, <1>3, <1>4 DEF Init, TypeOK

LEMMA ExecuteType ==
  ASSUME TypeOK, NEW s \in Streams, Execute(s)
  PROVE  TypeOK'
<1> DEFINE o == Head(stream[s])
<1>1. o \in Ops /\ Tail(stream[s]) \in Seq(Ops)
  BY FirstTyped DEF Execute
<1>2. stream \in [Streams -> Seq(Ops)] /\ ran \in [Streams -> Nat] /\ host \in Hosts /\ x \in Calls /\ y \in Calls
  BY DEF TypeOK
<1>3. stream' \in [Streams -> Seq(Ops)] /\ ran' \in [Streams -> Nat]
  <2> HIDE DEF Ops, Streams
  <2> QED  BY <1>1, <1>2 DEF Execute
<1>4. o \in Moves \/ o.op = "wait"
  BY <1>1 DEF Ops, Waits
<1>5. o.op # "wait" => o.call \in Calls /\ o.buf \in Numbers /\ o.slot \in Buffered
  BY <1>4 DEF Moves
<1>6. x' \in Calls
  BY <1>2, <1>5 DEF Execute
<1>7. y' \in Calls
  <2>1. o.op = "reduce" => host[o.buf].gpu[o.slot] \in Calls
    BY <1>2, <1>5 DEF Hosts
  <2> QED  BY <1>2, <2>1 DEF Execute
<1>8. host' \in Hosts
  <2>1. CASE o.op = "in"
    <3>1. host' = PutIn(host, o.buf, o.slot, IF x = o.call THEN x ELSE Nobody)
      BY <2>1 DEF Execute, PutIn
    <3>2. (IF x = o.call THEN x ELSE Nobody) \in Calls
      BY <1>2, CallTyped
    <3> HIDE DEF o
    <3> QED  BY <1>2, <1>5, <2>1, <3>1, <3>2, PutInFacts
  <2>2. CASE o.op = "out"
    <3>1. host' = PutGpu(host, o.buf, o.slot, host[o.buf].out[o.slot])
      BY <2>2 DEF Execute, PutGpu
    <3>2. host[o.buf].out[o.slot] \in Calls
      BY <1>2, <1>5, <2>2 DEF Hosts
    <3> HIDE DEF o
    <3> QED  BY <1>2, <1>5, <2>2, <3>1, <3>2, PutGpuFacts
  <2>3. CASE o.op # "in" /\ o.op # "out"
    BY <1>2, <2>3 DEF Execute
  <2> QED  BY <2>1, <2>2, <2>3
<1>9. UNCHANGED <<conf, pass, batch, single, layer, pc, pending, temp, tasks, running>>
  BY DEF Execute, worker
<1> HIDE DEF o
<1> QED  BY <1>3, <1>6, <1>7, <1>8, <1>9 DEF TypeOK

\* What a runner leaves in the buffers.
LEMMA RunType ==
  ASSUME TypeOK, NEW c, NEW b \in Numbers, NEW s \in Buffered, Run(c, b, s)
  PROVE  /\ host' \in Hosts
         /\ \A a \in Numbers : host'[a].in = host[a].in /\ host'[a].gpu = host[a].gpu
         /\ host'[b].out[s] = host[b].in[s] \/ c \in left'
<1>1. host \in Hosts
  BY DEF TypeOK
<1>2. host[b].in[s] \in Calls
  BY <1>1 DEF Hosts
<1>3. CASE host' = PutOut(host, b, s, host[b].in[s])
  BY <1>1, <1>2, <1>3, PutOutFacts
<1>4. CASE c \in left' /\ host' = host
  BY <1>1, <1>4
<1> QED  BY <1>3, <1>4 DEF Run, PutOut

LEMMA TaskTyped ==
  ASSUME TypeOK, tasks # <<>>
  PROVE  /\ Head(tasks) \in Tasks /\ Tail(tasks) \in Seq(Tasks)
         /\ Head(tasks).call \in Calls /\ Head(tasks).buf \in Numbers /\ Head(tasks).slot \in Buffered
<1>1. tasks \in Seq(Tasks)
  BY DEF TypeOK
<1>2. Head(tasks) \in Tasks /\ Tail(tasks) \in Seq(Tasks)
  <2> HIDE DEF Tasks
  <2> QED  BY <1>1
<1> QED  BY <1>2 DEF Tasks

LEMMA WorkerType ==
  ASSUME TypeOK, WorkerStart \/ WorkerEnd \/ RunnerRaises
  PROVE  TypeOK'
<1>1. host \in Hosts /\ tasks \in Seq(Tasks) /\ running \in BOOLEAN /\ (running => tasks # <<>>)
  BY DEF TypeOK
<1>2. UNCHANGED <<conf, pass, batch, single, layer, pc, pending, temp, x, y, stream, ran>>
  BY DEF WorkerStart, WorkerEnd, RunnerRaises, gpu
<1>3. tasks' \in Seq(Tasks) /\ running' \in BOOLEAN /\ (running' => tasks' # <<>>)
  <2> HIDE DEF Tasks
  <2> QED  BY <1>1, TaskTyped DEF WorkerStart, WorkerEnd, RunnerRaises
<1>4. host' \in Hosts
  <2>1. CASE WorkerEnd
    <3>1. tasks # <<>> /\ Run(Head(tasks).call, Head(tasks).buf, Head(tasks).slot)
      BY <1>1, <2>1 DEF WorkerEnd
    <3> QED  BY <3>1, TaskTyped, RunType
  <2>2. CASE WorkerStart \/ RunnerRaises
    BY <1>1, <2>2 DEF WorkerStart, RunnerRaises, gpu
  <2> QED  BY <2>1, <2>2
<1> QED  BY <1>2, <1>3, <1>4 DEF TypeOK

LEMMA AdvanceType ==
  ASSUME TypeOK, Advance
  PROVE  layer' \in Layers /\ pc' \in {"begin", "gate"}
BY PipelineAssumption DEF TypeOK, Advance, Layers

\* What the return of a call gives to the streams.
LEMMA ReturnedType ==
  ASSUME TypeOK, NEW b \in Numbers
  PROVE  /\ Returned(b) \in [Streams -> Seq(Ops)]
         /\ \A l \in Layers : Returned(b)[Copying(l)] = stream[Copying(l)]
         /\ ~conf.async => /\ Returned(b)[Main] = stream[Main] \o <<Op("out", b, Slot), Use(b)>>
                           /\ Returned(b)[Reduce] = stream[Reduce]
         /\ conf.async =>
              /\ Returned(b)[Main] =
                   stream[Main] \o <<[op |-> "wait", for |-> Reduce, upto |-> Sent(Reduce) + 2], Use(b)>>
              /\ Returned(b)[Reduce] = stream[Reduce] \o <<Op("out", b, Slot), Op("reduce", b, Slot)>>
<1>1. stream \in [Streams -> Seq(Ops)] /\ layer \in Layers
  BY DEF TypeOK
<1>2. Slot \in Buffered
  BY <1>1, Places
<1>3. Op("out", b, Slot) \in Ops /\ Op("reduce", b, Slot) \in Ops /\ Use(b) \in Ops
  BY <1>2, OpTyped DEF Use
<1> DEFINE w == [op |-> "wait", for |-> Reduce, upto |-> Sent(Reduce) + 2]
<1>4. w \in Ops
  <2>1. Sent(Reduce) + 2 \in Nat
    BY SentTyped, StreamNames
  <2> QED  BY <2>1, StreamNames DEF Ops, Waits
<1> DEFINE a == <<Op("out", b, Slot), Use(b)>>
           c == <<Op("out", b, Slot), Op("reduce", b, Slot)>>
           d == <<w, Use(b)>>
<1>5. a \in Seq(Ops) /\ c \in Seq(Ops) /\ d \in Seq(Ops) /\ Len(c) = 2
  <2> HIDE DEF w, Ops
  <2> QED  BY <1>3, <1>4
<1>6. /\ stream[Main] \o a \in Seq(Ops) /\ stream[Main] \o d \in Seq(Ops)
      /\ stream[Reduce] \o c \in Seq(Ops)
  <2> HIDE DEF a, c, d
  <2> QED  BY <1>5, GivenTyped, StreamNames
<1>7. CASE ~conf.async
  <2>1. Returned(b) = [stream EXCEPT ![Main] = @ \o a]
    BY <1>7 DEF Returned
  <2> HIDE DEF a, c, d, w
  <2>2. /\ Returned(b) \in [Streams -> Seq(Ops)] /\ Returned(b)[Main] = stream[Main] \o a
        /\ \A s \in Streams : s # Main => Returned(b)[s] = stream[s]
    BY <1>1, <1>6, <2>1, StreamNames
  <2> QED  BY <1>7, <2>2, StreamNames DEF a
<1>8. CASE conf.async
  <2>1. Returned(b) = [stream EXCEPT ![Reduce] = @ \o c, ![Main] = @ \o d]
    BY <1>5, <1>8 DEF Returned
  <2> HIDE DEF a, c, d, w
  <2>2. /\ Returned(b) \in [Streams -> Seq(Ops)] /\ Returned(b)[Main] = stream[Main] \o d
        /\ Returned(b)[Reduce] = stream[Reduce] \o c
        /\ \A s \in Streams : s # Main /\ s # Reduce => Returned(b)[s] = stream[s]
    BY <1>1, <1>6, <2>1, StreamNames
  <2> QED  BY <1>8, <2>2, StreamNames DEF c, d, w
<1> QED  BY <1>7, <1>8

\* What Submit gives to the copy stream and to the worker.
LEMMA SubmitType ==
  ASSUME TypeOK, BufferKept, Submit
  PROVE  /\ stream' \in [Streams -> Seq(Ops)] /\ tasks' \in Seq(Tasks) /\ temp' = Buffer
         /\ stream'[Copying(layer)] = stream[Copying(layer)] \o <<Wait(Main), Op("in", Buffer.n, Slot)>>
         /\ \A s \in Streams : s # Copying(layer) => stream'[s] = stream[s]
         /\ \/ pc' = "inline" /\ UNCHANGED <<pending, tasks>>
            \/ /\ pc' = "shared" /\ pending' = [pending EXCEPT ![layer] = Call]
               /\ tasks' = Append(tasks, [call |-> Call, buf |-> Buffer.n, slot |-> Slot,
                                          ready |-> Sent(Copying(layer)) + 2])
<1>1. stream \in [Streams -> Seq(Ops)] /\ layer \in Layers /\ tasks \in Seq(Tasks)
  BY DEF TypeOK
<1>2. Slot \in Buffered /\ Buffer.n \in Numbers /\ Copying(layer) \in Streams
  BY <1>1, Places, BufferTyped, StreamNames
<1> DEFINE a == <<Wait(Main), Op("in", Buffer.n, Slot)>>
           t == [call |-> Call, buf |-> Buffer.n, slot |-> Slot, ready |-> Sent(Copying(layer)) + 2]
<1>3. a \in Seq(Ops) /\ Len(a) = 2
  <2>1. Wait(Main) \in Ops /\ Op("in", Buffer.n, Slot) \in Ops
    BY <1>2, OpTyped, SentTyped, StreamNames
  <2> HIDE DEF Ops
  <2> QED  BY <2>1
<1>4. t \in Tasks
  <2>1. Sent(Copying(layer)) + 2 \in Nat
    BY <1>2, SentTyped
  <2> QED  BY <1>2, <2>1, CallTyped DEF Tasks
<1>5. stream[Copying(layer)] \o a \in Seq(Ops)
  <2> HIDE DEF a
  <2> QED  BY <1>2, <1>3, GivenTyped
<1>6. stream' = [stream EXCEPT ![Copying(layer)] = @ \o a]
  BY DEF Submit, CopyInputs
<1>7. \/ pc' = "inline" /\ UNCHANGED <<pending, tasks>>
      \/ /\ pc' = "shared" /\ pending' = [pending EXCEPT ![layer] = Call]
         /\ tasks' = Append(tasks, t)
  BY <1>3 DEF Submit, CopyInputs
<1> HIDE DEF a, t
<1>8. /\ stream' \in [Streams -> Seq(Ops)] /\ stream'[Copying(layer)] = stream[Copying(layer)] \o a
      /\ \A s \in Streams : s # Copying(layer) => stream'[s] = stream[s]
  BY <1>1, <1>2, <1>5, <1>6
<1>9. tasks' \in Seq(Tasks)
  <2> HIDE DEF Tasks
  <2> QED  BY <1>1, <1>4, <1>7
<1> QED  BY <1>7, <1>8, <1>9 DEF Submit, a, t

LEMMA DispatchType ==
  ASSUME TypeOK, Dispatch
  PROVE  /\ stream' \in [Streams -> Seq(Ops)] /\ host' \in Hosts
         /\ stream'[Main] = <<Op("dispatched", 0, Slot)>>
         /\ \A s \in Streams : s # Main => stream'[s] = stream[s]
         /\ host'[0].gpu[Slot] = x
<1>1. stream \in [Streams -> Seq(Ops)] /\ layer \in Layers /\ host \in Hosts /\ x \in Calls
  BY DEF TypeOK
<1>2. Slot \in Buffered /\ 0 \in Numbers
  BY <1>1, Places
<1>3. host' \in Hosts /\ host'[0].gpu[Slot] = x
  <2> DEFINE i == Slot
             h == PutIn(host, 0, i, x)
             k == PutOut(h, 0, i, x)
  <2>1. host' = PutGpu(k, 0, i, x)
    BY DEF Dispatch, PutIn, PutOut, PutGpu
  <2>2. i \in Buffered
    BY <1>2
  <2> HIDE DEF i
  <2>3. h \in Hosts
    BY <1>1, <1>2, <2>2, PutInFacts
  <2> HIDE DEF h
  <2>4. k \in Hosts
    BY <1>1, <1>2, <2>2, <2>3, PutOutFacts
  <2> HIDE DEF k
  <2>5. host' \in Hosts /\ host'[0].gpu[i] = x
    BY <1>1, <1>2, <2>1, <2>2, <2>4, PutGpuFacts
  <2> QED  BY <2>5 DEF i
<1> DEFINE o == Op("dispatched", 0, Slot)
<1>4. o \in Ops
  BY <1>2, OpTyped
<1>5. stream' = [stream EXCEPT ![Main] = Append(@, o)] /\ stream[Main] = <<>>
  BY DEF Dispatch
<1> HIDE DEF o
<1>6. Append(<<>>, o) = <<o>> /\ <<o>> \in Seq(Ops)
  <2> HIDE DEF Ops
  <2> QED  BY <1>4
<1>7. /\ stream' \in [Streams -> Seq(Ops)] /\ stream'[Main] = <<o>>
      /\ \A s \in Streams : s # Main => stream'[s] = stream[s]
  BY <1>1, <1>5, <1>6, StreamNames
<1> QED  BY <1>3, <1>7 DEF o

LEMMA GateType ==
  ASSUME TypeOK, Gate
  PROVE  /\ stream' \in [Streams -> Seq(Ops)]
         /\ stream'[Main] = Append(stream[Main], Op("gate", 0, 0))
         /\ \A s \in Streams : s # Main => stream'[s] = stream[s]
<1>1. stream \in [Streams -> Seq(Ops)] /\ layer \in Layers
  BY DEF TypeOK
<1> DEFINE o == Op("gate", 0, 0)
<1>2. o \in Ops
  BY <1>1, Places, OpTyped
<1>3. stream' = [stream EXCEPT ![Main] = Append(@, o)]
  BY DEF Gate
<1> HIDE DEF o
<1>4. Append(stream[Main], o) \in Seq(Ops)
  <2> HIDE DEF Ops
  <2> QED  BY <1>1, <1>2, StreamNames
<1> QED  BY <1>1, <1>3, <1>4, StreamNames DEF o

LEMMA MainType ==
  ASSUME TypeOK, BufferKept,
         Begin \/ Gate \/ Refused \/ Submit \/ Inline \/ Shared \/ Sync \/ Dispatch \/ Raise
  PROVE  TypeOK'
<1>1. pass \in Numbers /\ layer \in Layers /\ pending \in [Layers -> Calls] /\ temp.n \in Numbers
  BY DEF TypeOK
<1>2. Slot \in Buffered /\ 0 \in Layers /\ Call \in Calls /\ Nobody \in Calls
  BY <1>1, Places, CallTyped
<1>3. CASE Begin
  <2>1. pass + 1 \in Numbers
    BY <1>1, <1>3, PipelineAssumption DEF Begin, Numbers
  <2> HIDE DEF Numbers, Hosts, Layers, Streams, Ops, Tasks, Calls
  <2> QED  BY <1>2, <1>3, <2>1 DEF Begin, TypeOK, gpu, worker
<1>4. CASE Gate
  BY <1>4, GateType DEF Gate, TypeOK, gpu, worker
<1>5. CASE Refused \/ Shared \/ Raise
  BY <1>5 DEF Refused, Shared, Raise, TypeOK, gpu, worker
<1>6. CASE Submit
  <2>1. pending' \in [Layers -> Calls] /\ pc' \in {"inline", "shared"}
    BY <1>1, <1>2, <1>6, SubmitType
  <2>2. running' => tasks' # <<>>
    <3>1. tasks' = tasks \/ \E t \in Tasks : tasks' = Append(tasks, t)
      <4>1. [call |-> Call, buf |-> Buffer.n, slot |-> Slot, ready |-> Sent(Copying(layer)) + 2] \in Tasks
        BY <1>1, <1>2, BufferTyped, SentTyped, StreamNames DEF Tasks
      <4> QED  BY <1>6, <4>1, SubmitType
    <3>2. tasks \in Seq(Tasks)
      BY DEF TypeOK
    <3> HIDE DEF Tasks
    <3>3. \A t \in Tasks : Append(tasks, t) # <<>>
      BY <3>2, AppendProperties
    <3> QED  BY <1>6, <3>1, <3>3 DEF Submit, TypeOK
  <2> QED  BY <1>6, <2>1, <2>2, SubmitType, BufferTyped DEF Submit, TypeOK, gpu
<1>7. CASE Inline
  <2>1. pending' \in [Layers -> Calls] /\ host' \in Hosts
    BY <1>1, <1>2, <1>7, RunType DEF Inline
  <2> QED  BY <1>7, <2>1 DEF Inline, TypeOK
<1>8. CASE Sync
  <2>1. pending' \in [Layers -> Calls]
    BY <1>1, <1>2, <1>8 DEF Sync
  <2>2. CASE pending[layer] \in failed
    BY <1>8, <2>1, <2>2 DEF Sync, TypeOK, gpu
  <2>3. CASE pending[layer] \notin failed
    <3>1. temp' \in [bs : Batches \cup {0}, n : Numbers] /\ stream' \in [Streams -> Seq(Ops)]
      BY <1>8, <2>3, BufferTyped, ReturnedType DEF Sync
    <3>2. layer' \in Layers /\ pc' \in {"begin", "gate"}
      BY <1>8, <2>3, AdvanceType DEF Sync
    <3> QED  BY <1>8, <2>1, <3>1, <3>2 DEF Sync, TypeOK, gpu
  <2> QED  BY <2>2, <2>3
<1>9. CASE Dispatch
  <2>1. layer' \in Layers /\ pc' \in {"begin", "gate"}
    BY <1>9, AdvanceType DEF Dispatch
  <2> QED  BY <1>9, <2>1, DispatchType DEF Dispatch, TypeOK, worker
<1> QED  BY <1>3, <1>4, <1>5, <1>6, <1>7, <1>8, <1>9

LEMMA TypeStep ==
  ASSUME TypeOK, BufferKept, [Next]_vars
  PROVE  TypeOK'
<1>1. ASSUME NEW s \in Streams, Execute(s)  PROVE TypeOK'
  BY <1>1, ExecuteType
<1>2. CASE WorkerStart \/ WorkerEnd \/ RunnerRaises
  BY <1>2, WorkerType
<1>3. CASE Begin \/ Gate \/ Refused \/ Submit \/ Inline \/ Shared \/ Sync \/ Dispatch \/ Raise
  BY <1>3, MainType
<1>4. CASE UNCHANGED vars
  BY <1>4 DEF TypeOK, vars, worker
<1> QED  BY <1>1, <1>2, <1>3, <1>4 DEF Next

-----------------------------------------------------------------------------
(***************************************************************************)
(* Which buffers a pass uses, and what is in _pending.                     *)
(***************************************************************************)
\* The steps of the streams and of the worker.
Elsewhere == (\E s \in Streams : Execute(s)) \/ WorkerStart \/ WorkerEnd \/ RunnerRaises \/ UNCHANGED vars

LEMMA ElsewhereLeaves ==
  ASSUME Elsewhere
  PROVE  UNCHANGED <<conf, pass, batch, single, layer, pc, pending, temp>>
BY DEF Elsewhere, Execute, WorkerStart, WorkerEnd, RunnerRaises, vars

LEMMA Steps ==
  ASSUME [Next]_vars
  PROVE  \/ Elsewhere
         \/ Begin \/ Gate \/ Refused \/ Submit \/ Inline \/ Shared \/ Sync \/ Dispatch \/ Raise
BY DEF Next, Elsewhere

LEMMA InitKept ==
  ASSUME Init
  PROVE  BufferKept /\ PendingKept
BY PipelineAssumption DEF Init, BufferKept, PendingKept, Nobody, Layers

LEMMA BufferStep ==
  ASSUME TypeOK, BufferKept, PendingKept, [Next]_vars
  PROVE  BufferKept'
<1>1. pass \in Nat /\ temp.n \in Nat /\ Buffer.n \in Nat
  BY BufferTyped DEF TypeOK, Numbers
<1>2. Buffer.bs = batch /\ Buffer.n <= pass /\ (temp.bs = batch => Buffer = temp)
  BY BufferTyped
<1> HIDE DEF Buffer
<1>3. CASE Elsewhere
  BY <1>3, ElsewhereLeaves DEF BufferKept
<1>4. CASE Begin
  BY <1>1, <1>4 DEF Begin, BufferKept
<1>5. CASE Gate \/ Refused \/ Shared \/ Raise
  BY <1>5 DEF Gate, Refused, Shared, Raise, BufferKept
<1>6. CASE Submit
  BY <1>1, <1>2, <1>6 DEF Submit, BufferKept
<1>7. CASE Inline
  BY <1>7 DEF Inline, BufferKept
<1>8. CASE Sync
  <2>1. temp' = temp /\ UNCHANGED <<pass, batch>> /\ pc' \in {"begin", "gate"}
    BY <1>2, <1>8 DEF Sync, BufferKept, Advance
  <2> QED  BY <2>1 DEF BufferKept
<1>9. CASE Dispatch
  <2>1. UNCHANGED <<pass, batch, temp>> /\ pc' \in {"begin", "gate"}
    BY <1>9 DEF Dispatch, Advance
  <2> QED  BY <2>1 DEF BufferKept
<1> QED  BY <1>3, <1>4, <1>5, <1>6, <1>7, <1>8, <1>9, Steps

\* Once a pass was given up, it stays so.
LEMMA AbandonedStays ==
  ASSUME TypeOK, PendingKept, [Next]_vars, Abandoned
  PROVE  Abandoned'
<1>1. PICK l \in Layers : pending[l] # Nobody /\ pending[l][1] # pass
  BY DEF Abandoned
<1>2. pass \in Nat /\ pending \in [Layers -> Calls] /\ layer \in Layers
  BY DEF TypeOK, Numbers
<1>3. pending[l][1] < pass
  BY <1>1, <1>2 DEF PendingKept
<1>4. pass' = pass \/ pass' = pass + 1
  BY Steps, ElsewhereLeaves DEF Begin, Gate, Refused, Submit, Inline, Shared, Sync, Dispatch, Raise
<1>5. pending'[l] = pending[l]
  <2>1. CASE UNCHANGED pending
    BY <2>1
  <2>2. CASE Submit \/ Inline
    <3>1. pending[layer] = Nobody
      BY <2>2 DEF Submit, Inline, PendingKept
    <3> QED  BY <1>1, <1>2, <2>2, <3>1 DEF Submit, Inline
  <2>3. CASE Sync
    <3>1. pending[layer] = Call /\ Call[1] = pass
      BY <2>3 DEF Sync, PendingKept, Call
    <3>2. l # layer
      BY <1>1, <3>1
    <3> QED  BY <1>2, <2>3, <3>2 DEF Sync
  <2>4. CASE Begin \/ Gate \/ Refused \/ Shared \/ Dispatch \/ Raise
    BY <2>1, <2>4 DEF Begin, Gate, Refused, Shared, Dispatch, Raise
  <2> QED  BY <2>1, <2>2, <2>3, <2>4, Steps, ElsewhereLeaves
<1>6. pending[l][1] \in Nat
  BY <1>2 DEF Calls
<1>7. pending[l][1] # pass'
  BY <1>2, <1>3, <1>4, <1>6
<1> QED  BY <1>1, <1>5, <1>7 DEF Abandoned

\* Between two calls nothing is pending, unless a pass was given up.
LEMMA NothingPending ==
  ASSUME TypeOK, PendingKept, ~Abandoned, pc \in {"gate", "submit", "inline"}
  PROVE  \A l \in Layers : pending[l] = Nobody
BY DEF PendingKept

LEMMA PendingElsewhere ==
  ASSUME PendingKept, UNCHANGED <<pass, layer, pending>>,
         \/ pc' = pc
         \/ pc = "gate" /\ pc' = "submit"
         \/ pc = "shared" /\ pc' = "sync"
         \/ pc' = "begin" /\ pc \in {"gate", "submit", "inline", "shared"}
  PROVE  PendingKept'
<1>1. Abandoned' <=> Abandoned
  BY DEF Abandoned
<1>2. Call' = Call
  BY DEF Call
<1> QED  BY <1>1, <1>2 DEF PendingKept

LEMMA PendingStep ==
  ASSUME TypeOK, BufferKept, PendingKept, [Next]_vars
  PROVE  PendingKept'
<1>1. pass \in Nat /\ pending \in [Layers -> Calls] /\ layer \in Layers
  BY DEF TypeOK, Numbers
<1>2. Call # Nobody \/ pass = 0
  BY <1>1, CallTyped
<1>3. Abandoned => Abandoned'
  BY AbandonedStays
<1>4. CASE Elsewhere
  BY <1>4, ElsewhereLeaves, PendingElsewhere
<1>5. CASE Gate \/ Refused \/ Shared \/ Raise
  BY <1>5, PendingElsewhere DEF Gate, Refused, Shared, Raise
<1>6. CASE Begin
  <2>1. pass' = pass + 1 /\ pending' = pending /\ pc' = "gate"
    BY <1>6 DEF Begin
  <2>2. \A l \in Layers : pending[l] # Nobody => pending[l][1] \in 1..pass' /\ pending[l][2] = l
    BY <1>1, <2>1 DEF PendingKept
  <2>3. ASSUME NEW l \in Layers, pending[l] # Nobody  PROVE Abandoned'
    <3>1. pending[l][1] # pass'
      BY <1>1, <2>1, <2>3 DEF PendingKept
    <3> QED  BY <2>1, <2>3, <3>1 DEF Abandoned
  <2>4. pass' > 0
    BY <1>1, <2>1
  <2> QED  BY <2>1, <2>2, <2>3, <2>4 DEF PendingKept
<1>7. CASE Submit
  <2>1. UNCHANGED <<pass, layer>> /\ pending[layer] = Nobody /\ pass > 0
    BY <1>7 DEF Submit, PendingKept
  <2>2. CASE pc' = "inline" /\ pending' = pending
    <3>1. Abandoned' <=> Abandoned
      BY <2>1, <2>2 DEF Abandoned
    <3>2. ~Abandoned => \A l \in Layers : pending[l] = Nobody
      BY <1>7, NothingPending DEF Submit
    <3> QED  BY <2>1, <2>2, <3>1, <3>2 DEF PendingKept
  <2>3. CASE pc' = "shared" /\ pending' = [pending EXCEPT ![layer] = Call]
    <3>1. pending'[layer] = Call /\ \A l \in Layers : l # layer => pending'[l] = pending[l]
      BY <1>1, <2>3
    <3>2. ~Abandoned => \A l \in Layers : pending[l] = Nobody
      BY <1>7, NothingPending DEF Submit
    <3>3. Call' = Call /\ Call[1] = pass /\ Call[2] = layer
      BY <2>1 DEF Call
    <3>4. pass \in 1..pass
      BY <1>1, <2>1
    <3> QED  BY <1>3, <2>1, <2>3, <3>1, <3>2, <3>3, <3>4 DEF PendingKept
  <2> QED  BY <1>7, <2>2, <2>3, SubmitType
<1>8. CASE Inline
  <2>1. UNCHANGED <<pass, layer>> /\ pass > 0 /\ pc' = "shared" /\ pending' = [pending EXCEPT ![layer] = Call]
    BY <1>8 DEF Inline, PendingKept
  <2>2. pending'[layer] = Call /\ \A l \in Layers : l # layer => pending'[l] = pending[l]
    BY <1>1, <2>1
  <2>3. ~Abandoned => \A l \in Layers : pending[l] = Nobody
    BY <1>8, NothingPending DEF Inline
  <2>4. Call' = Call /\ Call[1] = pass /\ Call[2] = layer
    BY <2>1 DEF Call
  <2>5. pass \in 1..pass
    BY <1>1, <2>1
  <2> QED  BY <1>3, <2>1, <2>2, <2>3, <2>4, <2>5 DEF PendingKept
<1>9. CASE Sync
  <2>1. UNCHANGED pass /\ pending' = [pending EXCEPT ![layer] = Nobody] /\ pc' \in {"begin", "gate"} /\ pass > 0
    BY <1>9 DEF Sync, Advance, PendingKept
  <2>2. pending'[layer] = Nobody /\ \A l \in Layers : l # layer => pending'[l] = pending[l]
    BY <1>1, <2>1
  <2>3. ~Abandoned => \A l \in Layers : l # layer => pending[l] = Nobody
    BY <1>9 DEF Sync, PendingKept
  <2> QED  BY <1>3, <2>1, <2>2, <2>3 DEF PendingKept
<1>10. CASE Dispatch
  <2>1. UNCHANGED <<pass, pending>> /\ pc' \in {"begin", "gate"} /\ pass > 0
    BY <1>10 DEF Dispatch, Advance, PendingKept
  <2>2. ~Abandoned => \A l \in Layers : pending[l] = Nobody
    BY <1>10, NothingPending DEF Dispatch
  <2> QED  BY <1>3, <2>1, <2>2 DEF PendingKept
<1> QED  BY <1>4, <1>5, <1>6, <1>7, <1>8, <1>9, <1>10, Steps

-----------------------------------------------------------------------------
(***************************************************************************)
(* What is on the main stream.                                             *)
(***************************************************************************)
LEMMA BeforeNothing == Before(<<>>) => stream[Reduce] = <<>>
BY DEF Before

\* What Before looks at.
LEMMA BeforeFrame ==
  ASSUME NEW q, Before(q), UNCHANGED <<conf, y, stream[Reduce], ran[Reduce]>>,
         \A b \in Numbers : host'[b].out = host[b].out /\ host'[b].gpu = host[b].gpu,
         0 \in Numbers
  PROVE  Before(q)'
<1>1. \A o \in Moves : o.buf \in Numbers
  BY DEF Moves
<1>2. \A o : Ready(o) => Ready(o)'
  BY <1>1 DEF Ready
<1>3. \A o : /\ Coming(o, host[o.buf].out[o.slot]) => Coming(o, host[o.buf].out[o.slot])'
             /\ Coming(o, host[o.buf].gpu[o.slot]) => Coming(o, host[o.buf].gpu[o.slot])'
             /\ Coming(o, y) => Coming(o, y)'
  BY <1>1 DEF Coming
<1>4. \A o : Reducing(o) => Reducing(o)'
  BY <1>3 DEF Reducing
<1>5. Until(Reduce)' = Until(Reduce)
  BY DEF Until, Sent
<1> QED  BY <1>2, <1>3, <1>4, <1>5 DEF Before

LEMMA GateLast ==
  ASSUME NEW q \in Seq(Ops), NEW g
  PROVE  /\ Append(q, g) # <<>>
         /\ q = <<>> => Head(Append(q, g)) = g /\ Tail(Append(q, g)) = <<>>
         /\ q # <<>> => Head(Append(q, g)) = Head(q) /\ Tail(Append(q, g)) = Append(Tail(q), g)
<1>1. q \in Seq(Ops \cup {g}) /\ g \in Ops \cup {g}
  <2>1. Ops \subseteq Ops \cup {g}
    OBVIOUS
  <2> HIDE DEF Ops
  <2> QED  BY <2>1
<1> HIDE DEF Ops
<1> QED  BY <1>1, AppendProperties, HeadTailProperties

LEMMA MainAlone ==
  ASSUME MainKept, Handed, stream[Main] = <<>>
  PROVE  x = Call /\ stream[Reduce] = <<>>
BY GateLast, BeforeNothing DEF MainKept

LEMMA MainWithoutGate ==
  ASSUME MainKept, ~Handed
  PROVE  stream[Main] \in Seq(Ops) /\ Before(stream[Main])
BY DEF MainKept

LEMMA MainIdle ==
  ASSUME stream'[Main] = <<>>, stream'[Reduce] = <<>>, Handed' => x' = Call'
  PROVE  MainKept'
<1>1. Before(<<>>)' /\ <<>> \in Seq(Ops)'
  BY DEF Before
<1> QED  BY <1>1 DEF MainKept

LEMMA MainFrame ==
  ASSUME MainKept, UNCHANGED <<conf, pass, layer, x, y, stream[Main], stream[Reduce], ran[Reduce]>>,
         \A b \in Numbers : host'[b].out = host[b].out /\ host'[b].gpu = host[b].gpu,
         0 \in Numbers, Handed' <=> Handed
  PROVE  MainKept'
<1>1. PICK q \in Seq(Ops) :
        /\ Before(q)
        /\ \/ stream[Main] = q /\ (Handed => q = <<>> /\ x = Call)
           \/ stream[Main] = Append(q, Op("gate", 0, 0)) /\ Handed
  BY DEF MainKept
<1>2. Before(q)'
  BY <1>1, BeforeFrame
<1>3. Call' = Call /\ Op("gate", 0, 0)' = Op("gate", 0, 0)
  BY DEF Call, Op
<1>4. \/ stream'[Main] = q /\ (Handed' => q = <<>> /\ x' = Call')
      \/ stream'[Main] = Append(q, Op("gate", 0, 0)') /\ Handed'
  BY <1>1, <1>3
<1>5. Seq(Ops)' = Seq(Ops)
  BY DEF Ops, Moves, Waits, Calls, Numbers, Buffered, Streams, Main, Reduce, Copying, Layers
<1> QED  BY <1>2, <1>4, <1>5 DEF MainKept

LEMMA SamePlace ==
  ASSUME UNCHANGED <<pass, layer, pc, pending, temp>>
  PROVE  /\ (Handed' <=> Handed) /\ (InFlight' <=> InFlight) /\ Call' = Call /\ Slot' = Slot
         /\ \A op, b, s : Op(op, b, s)' = Op(op, b, s)
BY DEF Handed, InFlight, Doomed, Call, Slot, Op

-----------------------------------------------------------------------------
(***************************************************************************)
(* The streams execute what they were given.                               *)
(***************************************************************************)
LEMMA Executed ==
  ASSUME TypeOK, NEW s \in Streams, Execute(s)
  PROVE  /\ stream[s] # <<>> /\ stream'[s] = Tail(stream[s])
         /\ \A r \in Streams : r # s => stream'[r] = stream[r] /\ ran'[r] = ran[r]
         /\ \A r \in Streams : Sent(r)' = Sent(r)
         /\ UNCHANGED <<conf, pass, batch, single, layer, pc, pending, temp,
                        tasks, running, failed, left, faults>>
<1>1. stream \in [Streams -> Seq(Ops)] /\ ran \in [Streams -> Nat]
  BY DEF TypeOK
<1>2. /\ stream[s] # <<>> /\ stream' = [stream EXCEPT ![s] = Tail(@)] /\ ran' = [ran EXCEPT ![s] = @ + 1]
      /\ UNCHANGED <<conf, pass, batch, single, layer, pc, pending, temp,
                     tasks, running, failed, left, faults>>
  BY DEF Execute, worker
<1>3. /\ stream'[s] = Tail(stream[s]) /\ ran'[s] = ran[s] + 1
      /\ \A r \in Streams : r # s => stream'[r] = stream[r] /\ ran'[r] = ran[r]
  BY <1>1, <1>2
<1>4. Len(Tail(stream[s])) = Len(stream[s]) - 1 /\ Len(stream[s]) \in Nat /\ ran[s] \in Nat
  <2>1. stream[s] \in Seq(Ops)
    BY <1>1
  <2> HIDE DEF Ops
  <2> QED  BY <1>1, <1>2, <2>1
<1>5. ASSUME NEW r \in Streams  PROVE Sent(r)' = Sent(r)
  <2>1. CASE r = s
    <3>1. Len(stream'[s]) = Len(stream[s]) - 1 /\ ran'[s] = ran[s] + 1
      BY <1>3, <1>4
    <3>2. ran'[s] + Len(stream'[s]) = ran[s] + Len(stream[s])
      BY <1>4, <3>1
    <3> QED  BY <2>1, <3>2 DEF Sent
  <2>2. CASE r # s
    BY <1>3, <2>2 DEF Sent
  <2> QED  BY <2>1, <2>2
<1> QED  BY <1>2, <1>3, <1>5

\* The operations, one by one.
LEMMA Effects ==
  ASSUME TypeOK, NEW s \in Streams, Execute(s), NEW o, o = Head(stream[s])
  PROVE  /\ o.op = "wait" => ran[o.for] >= o.upto
         /\ o.op # "gate" => x' = x
         /\ o.op = "gate" => x' = o.call
         /\ o.op # "reduce" => y' = y
         /\ o.op = "reduce" => y' = host[o.buf].gpu[o.slot]
         /\ o.op = "out" /\ o \in Moves =>
              /\ host'[o.buf].gpu[o.slot] = host[o.buf].out[o.slot]
              /\ \A a \in Numbers : host'[a].in = host[a].in /\ host'[a].out = host[a].out
         /\ o.op = "in" /\ o \in Moves /\ x = o.call =>
              /\ host'[o.buf].in[o.slot] = x
              /\ \A a \in Numbers : host'[a].out = host[a].out /\ host'[a].gpu = host[a].gpu
         /\ o.op # "in" /\ o.op # "out" => host' = host
<1>1. host \in Hosts /\ x \in Calls
  BY DEF TypeOK
<1>2. CASE o.op = "out" /\ o \in Moves
  <2>1. host' = PutGpu(host, o.buf, o.slot, host[o.buf].out[o.slot])
    BY <1>2 DEF Execute, PutGpu
  <2>2. o.buf \in Numbers /\ o.slot \in Buffered
    BY <1>2 DEF Moves
  <2>3. host[o.buf].out[o.slot] \in Calls
    BY <1>1, <2>2 DEF Hosts
  <2> DEFINE v == host[o.buf].out[o.slot]
             b == o.buf
             i == o.slot
             h == PutGpu(host, b, i, v)
  <2>4. h[b].gpu[i] = v /\ \A a \in Numbers : h[a].in = host[a].in /\ h[a].out = host[a].out
    <3>1. host \in Hosts /\ b \in Numbers /\ i \in Buffered /\ v \in Calls
      BY <1>1, <2>2, <2>3
    <3> HIDE DEF v, b, i
    <3> QED  BY <3>1, PutGpuFacts
  <2>5. /\ host'[o.buf].gpu[o.slot] = host[o.buf].out[o.slot]
        /\ \A a \in Numbers : host'[a].in = host[a].in /\ host'[a].out = host[a].out
    BY <2>1, <2>4
  <2> QED  BY <1>2, <2>5 DEF Execute
<1>3. CASE o.op = "in" /\ o \in Moves /\ x = o.call
  <2>1. host' = PutIn(host, o.buf, o.slot, x)
    BY <1>3 DEF Execute, PutIn
  <2>2. o.buf \in Numbers /\ o.slot \in Buffered
    BY <1>3 DEF Moves
  <2>3. /\ host'[o.buf].in[o.slot] = x
        /\ \A a \in Numbers : host'[a].out = host[a].out /\ host'[a].gpu = host[a].gpu
    BY <1>1, <2>1, <2>2, PutInFacts
  <2> QED  BY <1>3, <2>3 DEF Execute
<1>4. CASE ~(o.op = "out" /\ o \in Moves) /\ ~(o.op = "in" /\ o \in Moves /\ x = o.call)
  BY <1>4 DEF Execute
<1> QED  BY <1>2, <1>3, <1>4

LEMMA AsFacts ==
  ASSUME NEW o \in Moves, NEW op \in {"out", "reduce"}
  PROVE  /\ As(o, op) \in Moves /\ As(o, op).op = op
         /\ As(o, op).call = o.call /\ As(o, op).buf = o.buf /\ As(o, op).slot = o.slot
BY DEF As, Moves

\* A stream has executed everything that was waited for.
LEMMA WaitedFor ==
  ASSUME TypeOK, NEW s \in Streams, ran[s] >= Sent(s)
  PROVE  stream[s] = <<>>
<1>1. stream[s] \in Seq(Ops) /\ ran[s] \in Nat
  BY SentTyped
<1> HIDE DEF Ops
<1>2. Len(stream[s]) \in Nat /\ Len(stream[s]) <= 0
  BY <1>1 DEF Sent
<1> QED  BY <1>1, <1>2

LEMMA Pairs ==
  ASSUME NEW a, NEW b
  PROVE  /\ Head(<<a>>) = a /\ Tail(<<a>>) = <<>> /\ <<a>> # <<>> /\ <<a>>[1] = a
         /\ Head(<<a, b>>) = a /\ Tail(<<a, b>>) = <<b>> /\ <<a, b>> # <<>> /\ <<a, b>> # <<a>>
OBVIOUS

LEMMA BeforeStep ==
  ASSUME TypeOK, NEW q \in Seq(Ops), Before(q), q # <<>>,
         Execute(Main), Head(stream[Main]) = Head(q)
  PROVE  /\ Before(Tail(q))' /\ Tail(q) \in Seq(Ops) /\ x' = x
         /\ \A b \in Numbers : host'[b].in = host[b].in /\ host'[b].out = host[b].out
<1>1. Tail(q) \in Seq(Ops)
  <2> HIDE DEF Ops
  <2> QED  OBVIOUS
<1>2. UNCHANGED <<conf, stream[Reduce], ran[Reduce]>>
  BY Executed, StreamNames
<1>3. CASE q = <<q[1]>> /\ stream[Reduce] = <<>> /\ Ready(q[1])
  <2>1. Head(q) = q[1] /\ Tail(q) = <<>>
    BY <1>3, Pairs, Zenon
  <2>2. q[1].op \in {"leftover", "use", "dispatched"}
    BY <1>3 DEF Ready
  <2>3. x' = x /\ host' = host
    BY <2>1, <2>2, Effects, StreamNames
  <2> QED  BY <1>1, <1>2, <1>3, <2>1, <2>3 DEF Before
<1>4. CASE /\ q = <<q[1], q[2]>> /\ stream[Reduce] = <<>> /\ ~conf.async
           /\ q[1] = As(q[2], "out") /\ Coming(q[2], host[q[2].buf].out[q[2].slot])
  <2> DEFINE o == q[2]
  <2>1. Head(q) = q[1] /\ Tail(q) = <<o>> /\ <<o>> # <<>> /\ <<o>>[1] = o
    <3> DEFINE a == q[1]
    <3>1. q = <<a, o>>
      BY <1>4
    <3> HIDE DEF a, o
    <3>2. Head(q) = a /\ Tail(q) = <<o>> /\ <<o>> # <<>> /\ <<o>>[1] = o
      BY <3>1, Pairs
    <3> QED  BY <3>2 DEF a
  <2>2. o \in Moves /\ q[1] = As(o, "out") /\ Coming(o, host[o.buf].out[o.slot])
    BY <1>4 DEF Coming
  <2> HIDE DEF o
  <2>3. q[1] \in Moves /\ q[1].op = "out" /\ q[1].buf = o.buf /\ q[1].slot = o.slot
    BY <2>2, AsFacts
  <2>4. /\ host'[o.buf].gpu[o.slot] = host[o.buf].out[o.slot]
        /\ \A a \in Numbers : host'[a].in = host[a].in /\ host'[a].out = host[a].out
        /\ x' = x
    BY <2>1, <2>3, Effects, StreamNames
  <2>5. Ready(o)'
    BY <1>2, <1>4, <2>2, <2>4 DEF Ready, Coming
  <2>6. Before(<<o>>)'
    BY <1>2, <1>4, <2>1, <2>5 DEF Before
  <2> QED  BY <1>1, <2>1, <2>4, <2>6
<1>5. CASE q = <<q[1], q[2]>> /\ conf.async /\ q[1] = Until(Reduce) /\ Reducing(q[2])
  <2> DEFINE o == q[2]
  <2>1. Head(q) = q[1] /\ Tail(q) = <<o>> /\ <<o>> # <<>> /\ <<o>>[1] = o
    <3> DEFINE a == q[1]
    <3>1. q = <<a, o>>
      BY <1>5
    <3> HIDE DEF a, o
    <3>2. Head(q) = a /\ Tail(q) = <<o>> /\ <<o>> # <<>> /\ <<o>>[1] = o
      BY <3>1, Pairs
    <3> QED  BY <3>2 DEF a
  <2>2. q[1].op = "wait" /\ q[1].for = Reduce /\ q[1].upto = Sent(Reduce)
    BY <1>5 DEF Until
  <2>3. ran[Reduce] >= Sent(Reduce) /\ x' = x /\ y' = y /\ host' = host
    BY <2>1, <2>2, Effects, StreamNames
  <2>4. stream[Reduce] = <<>>
    BY <2>3, WaitedFor, StreamNames
  <2>5. Coming(o, y)
    BY <1>5, <2>4 DEF Reducing
  <2> HIDE DEF o
  <2>6. Ready(o)'
    BY <1>2, <1>5, <2>3, <2>5 DEF Ready, Coming
  <2>7. Before(<<o>>)'
    BY <1>2, <2>1, <2>4, <2>6 DEF Before
  <2> QED  BY <1>1, <2>1, <2>3, <2>7
<1> QED  BY <1>3, <1>4, <1>5 DEF Before

LEMMA ExecuteMain ==
  ASSUME TypeOK, MainKept, Execute(Main)
  PROVE  /\ MainKept'
         /\ \A b \in Numbers : host'[b].in = host[b].in /\ host'[b].out = host[b].out
<1>1. PICK q \in Seq(Ops) :
        /\ Before(q)
        /\ \/ stream[Main] = q /\ (Handed => q = <<>> /\ x = Call)
           \/ stream[Main] = Append(q, Op("gate", 0, 0)) /\ Handed
  BY DEF MainKept
<1>2. /\ stream[Main] # <<>> /\ stream'[Main] = Tail(stream[Main])
      /\ stream'[Reduce] = stream[Reduce] /\ (Handed' <=> Handed) /\ Call' = Call
      /\ Op("gate", 0, 0)' = Op("gate", 0, 0)
  BY Executed, SamePlace, StreamNames
<1>3. Seq(Ops)' = Seq(Ops)
  BY DEF Ops, Moves, Waits, Calls, Numbers, Buffered, Streams, Main, Reduce, Copying, Layers
<1>4. CASE q = <<>>
  <2> DEFINE g == Op("gate", 0, 0)
  <2>1. stream[Main] = Append(q, g) /\ Handed
    BY <1>1, <1>2, <1>4
  <2>2. g.op = "gate" /\ g.call = Call
    BY DEF Op
  <2> HIDE DEF g
  <2>3. Head(stream[Main]) = g /\ stream'[Main] = <<>>
    BY <1>2, <1>4, <2>1, GateLast
  <2>4. x' = Call /\ host' = host
    BY <2>2, <2>3, Effects, StreamNames
  <2>5. stream'[Reduce] = <<>>
    BY <1>1, <1>2, <1>4, BeforeNothing
  <2>6. MainKept'
    BY <1>2, <2>3, <2>4, <2>5, MainIdle
  <2> QED  BY <2>4, <2>6
<1>5. CASE q # <<>>
  <2>1. Head(stream[Main]) = Head(q)
    BY <1>1, <1>5, GateLast
  <2>2. /\ Before(Tail(q))' /\ Tail(q) \in Seq(Ops) /\ x' = x
        /\ \A b \in Numbers : host'[b].in = host[b].in /\ host'[b].out = host[b].out
    BY <1>1, <1>5, <2>1, BeforeStep
  <2>3. \/ stream'[Main] = Tail(q) /\ ~Handed
        \/ stream'[Main] = Append(Tail(q), Op("gate", 0, 0)) /\ Handed
    BY <1>1, <1>2, <1>5, GateLast
  <2> DEFINE r == Tail(q)
  <2>4. /\ r \in Seq(Ops)' /\ Before(r)'
        /\ \/ stream'[Main] = r /\ (Handed' => r = <<>> /\ x' = Call')
           \/ stream'[Main] = Append(r, Op("gate", 0, 0)') /\ Handed'
    BY <1>2, <1>3, <2>2, <2>3
  <2> HIDE DEF r
  <2>5. MainKept'
    BY <2>4 DEF MainKept
  <2> QED  BY <2>2, <2>5
<1> QED  BY <1>4, <1>5

LEMMA ReducingStep ==
  ASSUME TypeOK, NEW o, Reducing(o), conf.async, Execute(Reduce)
  PROVE  /\ Reducing(o)' /\ x' = x
         /\ \A b \in Numbers : host'[b].in = host[b].in /\ host'[b].out = host[b].out
<1>1. stream[Reduce] # <<>> /\ stream'[Reduce] = Tail(stream[Reduce])
  BY Executed, StreamNames
<1>2. o \in Moves
  BY DEF Reducing, Coming
<1>3. CASE stream[Reduce] = <<As(o, "out"), As(o, "reduce")>> /\ Coming(o, host[o.buf].out[o.slot])
  <2> DEFINE a == As(o, "out")
             r == As(o, "reduce")
  <2>1. a \in Moves /\ a.op = "out" /\ a.buf = o.buf /\ a.slot = o.slot
    BY <1>2, AsFacts
  <2>2. Head(stream[Reduce]) = a /\ stream'[Reduce] = <<r>>
    <3> HIDE DEF a, r
    <3>1. stream[Reduce] = <<a, r>>
      BY <1>3 DEF a, r
    <3> QED  BY <1>1, <3>1, Pairs
  <2> HIDE DEF a
  <2>3. /\ host'[o.buf].gpu[o.slot] = host[o.buf].out[o.slot]
        /\ \A b \in Numbers : host'[b].in = host[b].in /\ host'[b].out = host[b].out
        /\ x' = x
    BY <2>1, <2>2, Effects, StreamNames
  <2> QED  BY <1>3, <2>2, <2>3 DEF Reducing, Coming
<1>4. CASE stream[Reduce] = <<As(o, "reduce")>> /\ Coming(o, host[o.buf].gpu[o.slot])
  <2> DEFINE r == As(o, "reduce")
  <2>1. r.op = "reduce" /\ r.buf = o.buf /\ r.slot = o.slot
    BY <1>2, AsFacts
  <2>2. Head(stream[Reduce]) = r /\ stream'[Reduce] = <<>>
    <3> HIDE DEF r
    <3>1. stream[Reduce] = <<r>>
      BY <1>4 DEF r
    <3> QED  BY <1>1, <3>1, Pairs
  <2> HIDE DEF r
  <2>3. y' = host[o.buf].gpu[o.slot] /\ x' = x /\ host' = host
    BY <2>1, <2>2, Effects, StreamNames
  <2> QED  BY <1>4, <2>2, <2>3 DEF Reducing, Coming
<1> QED  BY <1>1, <1>3, <1>4 DEF Reducing

LEMMA ExecuteReduce ==
  ASSUME TypeOK, MainKept, Execute(Reduce)
  PROVE  /\ MainKept' /\ stream[Main] # <<>>
         /\ \A b \in Numbers : host'[b].in = host[b].in /\ host'[b].out = host[b].out
<1>1. PICK q \in Seq(Ops) :
        /\ Before(q)
        /\ \/ stream[Main] = q /\ (Handed => q = <<>> /\ x = Call)
           \/ stream[Main] = Append(q, Op("gate", 0, 0)) /\ Handed
  BY DEF MainKept
<1>2. /\ stream[Reduce] # <<>> /\ stream'[Main] = stream[Main]
      /\ Sent(Reduce)' = Sent(Reduce) /\ UNCHANGED conf
      /\ (Handed' <=> Handed) /\ Call' = Call
      /\ Op("gate", 0, 0)' = Op("gate", 0, 0)
  BY Executed, SamePlace, StreamNames
<1>3. Seq(Ops)' = Seq(Ops)
  BY DEF Ops, Moves, Waits, Calls, Numbers, Buffered, Streams, Main, Reduce, Copying, Layers
<1>4. q = <<q[1], q[2]>> /\ conf.async /\ q[1] = Until(Reduce) /\ Reducing(q[2])
  BY <1>1, <1>2 DEF Before
<1>5. /\ Reducing(q[2])' /\ x' = x
      /\ \A b \in Numbers : host'[b].in = host[b].in /\ host'[b].out = host[b].out
  BY <1>4, ReducingStep
<1>6. Until(Reduce)' = Until(Reduce)
  BY <1>2 DEF Until
<1>7. Before(q)'
  BY <1>2, <1>4, <1>5, <1>6 DEF Before
<1>8. MainKept'
  BY <1>1, <1>2, <1>3, <1>5, <1>7 DEF MainKept
<1>9. q # <<>>
  BY <1>1, <1>2, BeforeNothing
<1> QED  BY <1>1, <1>5, <1>8, <1>9, GateLast

\* The frame of CopyKept and WorkerKept, for the steps of the main stream and of the all-reduce.
LEMMA CopyFrame ==
  ASSUME TypeOK, NEW s \in {Main, Reduce}, Execute(s), CopyKept, WorkerKept,
         s # Main => stream[Main] # <<>>,
         \A b \in Numbers : host'[b].in = host[b].in /\ host'[b].out = host[b].out
  PROVE  CopyKept' /\ WorkerKept'
<1>1. s \in Streams /\ stream[Main] # <<>>
  BY Executed, StreamNames
<1>2. /\ \A l \in Layers : stream'[Copying(l)] = stream[Copying(l)]
      /\ Sent(Main)' = Sent(Main) /\ Sent(Copying(layer))' = Sent(Copying(layer))
      /\ UNCHANGED <<pass, layer, pc, pending, temp, tasks, running, failed, left>>
  BY <1>1, Executed, StreamNames DEF TypeOK
<1>3. /\ (InFlight' <=> InFlight) /\ Call' = Call /\ Slot' = Slot
      /\ \A op, b, i : Op(op, b, i)' = Op(op, b, i)
  BY <1>2, SamePlace
<1>4. layer \in Layers /\ temp.n \in Numbers
  BY DEF TypeOK
<1>5. host'[temp.n].out[Slot] = host[temp.n].out[Slot]
  BY <1>4
<1>6. CopyKept'
  <2>1. Until(Main)' = Until(Main)
    BY <1>2 DEF Until
  <2>2. InFlight => stream[Copying(layer)] = <<Until(Main), Op("in", temp.n, Slot)>>
    BY <1>1 DEF CopyKept
  <2>3. Op("in", temp.n, Slot)' = Op("in", temp.n, Slot)
    BY <1>2 DEF Op, Call, Slot
  <2>4. layer' = layer /\ Layers' = Layers
    BY <1>2 DEF Layers
  <2> QED  BY <1>2, <1>3, <1>4, <2>1, <2>2, <2>3, <2>4 DEF CopyKept
<1>7. WorkerKept'
  <2>1. stream'[Copying(layer)] = stream[Copying(layer)]
    BY <1>2, <1>4
  <2>2. Sent(Copying(layer))' = Sent(Copying(layer)) /\ Copying(layer') = Copying(layer)
    BY <1>2
  <2> QED  BY <1>2, <1>3, <1>5, <2>1, <2>2 DEF WorkerKept
<1> QED  BY <1>6, <1>7

LEMMA ExecuteCopy ==
  ASSUME TypeOK, Flow, NEW l \in Layers, Execute(Copying(l))
  PROVE  Flow'
<1> DEFINE s == Copying(l)
           o == Op("in", temp.n, Slot)
<1>1. /\ s \in Streams /\ s # Main /\ s # Reduce /\ stream[s] # <<>>
      /\ stream'[s] = Tail(stream[s])
      /\ \A r \in Streams : r # s => stream'[r] = stream[r] /\ ran'[r] = ran[r]
      /\ \A r \in Streams : Sent(r)' = Sent(r)
      /\ UNCHANGED <<conf, pass, layer, pc, pending, temp, tasks, running, failed, left>>
  BY StreamNames, Executed
<1>2. l = layer /\ InFlight
  BY <1>1 DEF Flow, CopyKept
<1>3. /\ (Handed' <=> Handed) /\ (InFlight' <=> InFlight) /\ Call' = Call /\ Slot' = Slot
  BY <1>1, SamePlace
<1>4. o' = o
  BY <1>1 DEF Op, Call, Slot
<1>5. layer \in Layers /\ temp.n \in Numbers /\ Slot \in Buffered /\ 0 \in Numbers
  BY Places DEF TypeOK
<1>6. o \in Moves /\ o.op = "in" /\ o.call = Call /\ o.buf = temp.n /\ o.slot = Slot
  BY <1>5, OpTyped
<1> HIDE DEF o
<1>7. stream'[Main] = stream[Main] /\ stream'[Reduce] = stream[Reduce] /\ ran'[Reduce] = ran[Reduce]
  BY <1>1, StreamNames
<1>8. \A k \in Layers : k # layer => stream'[Copying(k)] = <<>>
  BY <1>1, <1>2, StreamNames DEF Flow, CopyKept
<1>9. /\ stream'[s] = <<o>> \/ (stream'[s] = <<>> /\ host'[temp.n].in[Slot] = Call)
      /\ stream[Main] = <<>> /\ x' = x /\ y' = y
      /\ \A b \in Numbers : host'[b].out = host[b].out /\ host'[b].gpu = host[b].gpu
  <2>1. CASE stream[s] = <<Until(Main), o>>
    <3> DEFINE u == Until(Main)
    <3>1. u.op = "wait" /\ u.for = Main /\ u.upto = Sent(Main)
      BY DEF Until
    <3> HIDE DEF u
    <3>2. Head(stream[s]) = u /\ stream'[s] = <<o>>
      <4>1. stream[s] = <<u, o>>
        BY <2>1 DEF u
      <4> QED  BY <1>1, <4>1, Pairs
    <3>3. ran[Main] >= Sent(Main) /\ x' = x /\ y' = y /\ host' = host
      BY <1>1, <3>1, <3>2, Effects
    <3> QED  BY <3>2, <3>3, WaitedFor, StreamNames
  <2>2. CASE stream[s] = <<o>> /\ stream[Main] = <<>>
    <3>1. Head(stream[s]) = o /\ stream'[s] = <<>>
      BY <1>1, <2>2, Pairs
    <3>2. x = Call
      BY <1>2, <2>2, MainAlone DEF Flow, Handed
    <3>3. /\ host'[o.buf].in[o.slot] = x /\ x' = x /\ y' = y
          /\ \A b \in Numbers : host'[b].out = host[b].out /\ host'[b].gpu = host[b].gpu
      BY <1>1, <1>6, <3>1, <3>2, Effects
    <3> QED  BY <1>6, <2>2, <3>1, <3>2, <3>3
  <2> QED  BY <1>1, <1>2, <2>1, <2>2 DEF Flow, CopyKept, o
<1>10. MainKept'
  BY <1>1, <1>3, <1>5, <1>7, <1>9, MainFrame DEF Flow
<1>11. CopyKept'
  <2>1. stream'[Copying(layer')] = <<o'>> \/ (stream'[Copying(layer')] = <<>> /\ host'[temp'.n].in[Slot'] = Call')
    BY <1>1, <1>2, <1>3, <1>4, <1>9
  <2>2. stream'[Main] = <<>> /\ InFlight'
    BY <1>2, <1>3, <1>7, <1>9
  <2>3. \A k \in Layers : k # layer' => stream'[Copying(k)] = <<>>
    BY <1>1, <1>8
  <2> QED  BY <2>1, <2>2, <2>3 DEF CopyKept, o
<1>12. WorkerKept'
  <2>1. ~running
    BY <1>1, <1>2 DEF Flow, WorkerKept, TypeOK
  <2>2. CASE pc = "inline"
    BY <1>1, <1>2, <2>1, <2>2 DEF Flow, WorkerKept
  <2>3. CASE pc # "inline"
    <3>1. tasks = <<[call |-> Call, buf |-> temp.n, slot |-> Slot, ready |-> Sent(Copying(layer))]>>
      BY <1>1, <1>2, <2>3 DEF Flow, WorkerKept
    <3>2. Sent(Copying(layer))' = Sent(Copying(layer))
      BY <1>1, <1>2
    <3>3. UNCHANGED <<pass, layer, pc, temp, tasks, running>>
      BY <1>1
    <3> HIDE DEF s
    <3> QED  BY <1>2, <1>3, <2>1, <2>3, <3>1, <3>2, <3>3 DEF WorkerKept
  <2> QED  BY <2>2, <2>3
<1> QED  BY <1>10, <1>11, <1>12 DEF Flow

-----------------------------------------------------------------------------
(***************************************************************************)
(* The worker thread computes the call in flight.                          *)
(***************************************************************************)
Task == [call |-> Call, buf |-> temp.n, slot |-> Slot, ready |-> Sent(Copying(layer))]

LEMMA WorkersTask ==
  ASSUME TypeOK, Flow, tasks # <<>>
  PROVE  /\ InFlight /\ pc # "inline" /\ tasks = <<Task>> /\ Head(tasks) = Task /\ Tail(tasks) = <<>>
         /\ Task.call = Call /\ Task.buf = temp.n /\ Task.slot = Slot
         /\ Task.ready = Sent(Copying(layer)) /\ Call[2] = layer
         /\ running => stream[Copying(layer)] = <<>>
<1>1. InFlight /\ pc # "inline" /\ tasks = <<Task>> /\ (running => stream[Copying(layer)] = <<>>)
  BY DEF Flow, WorkerKept, Task
<1>2. Head(tasks) = Task /\ Tail(tasks) = <<>>
  BY <1>1, Pairs
<1>3. /\ Task.call = Call /\ Task.buf = temp.n /\ Task.slot = Slot
      /\ Task.ready = Sent(Copying(layer)) /\ Call[2] = layer
  BY DEF Task, Call
<1> QED  BY <1>1, <1>2, <1>3

\* What has been copied.
LEMMA CopiedAlone ==
  ASSUME TypeOK, Flow, InFlight, stream[Copying(layer)] = <<>>
  PROVE  /\ stream[Main] = <<>> /\ stream[Reduce] = <<>> /\ x = Call
         /\ host[temp.n].in[Slot] = Call
         /\ \A l \in Layers : stream[Copying(l)] = <<>>
<1>1. /\ stream[Main] = <<>> /\ host[temp.n].in[Slot] = Call
      /\ \A l \in Layers : stream[Copying(l)] = <<>>
  BY Pairs DEF Flow, CopyKept
<1> QED  BY <1>1, MainAlone DEF Flow, Handed

LEMMA WorkerStep ==
  ASSUME TypeOK, Flow, WorkerStart \/ WorkerEnd \/ RunnerRaises
  PROVE  Flow'
<1>1. UNCHANGED <<conf, pass, batch, single, layer, pc, pending, temp, x, y, stream, ran>>
  BY DEF WorkerStart, WorkerEnd, RunnerRaises, gpu
<1>2. tasks # <<>>
  BY DEF WorkerStart, WorkerEnd, RunnerRaises, TypeOK
<1>3. /\ InFlight /\ pc # "inline" /\ tasks = <<Task>> /\ Head(tasks) = Task /\ Tail(tasks) = <<>>
      /\ Task.call = Call /\ Task.buf = temp.n /\ Task.slot = Slot
      /\ Task.ready = Sent(Copying(layer)) /\ Call[2] = layer
  BY <1>2, WorkersTask
<1>4. layer \in Layers /\ Copying(layer) \in Streams /\ Slot \in Buffered /\ temp.n \in Numbers /\ 0 \in Numbers
  BY Places, StreamNames DEF TypeOK
<1>5. stream[Copying(layer)] = <<>>
  <2>1. CASE WorkerStart
    <3>1. ran[Copying(layer)] >= Sent(Copying(layer))
      BY <1>3, <2>1 DEF WorkerStart
    <3> QED  BY <1>4, <3>1, WaitedFor
  <2>2. CASE WorkerEnd \/ RunnerRaises
    BY <1>2, <2>2, WorkersTask DEF WorkerEnd, RunnerRaises
  <2> QED  BY <2>1, <2>2
<1>6. /\ stream[Main] = <<>> /\ stream[Reduce] = <<>> /\ x = Call /\ host[temp.n].in[Slot] = Call
      /\ \A l \in Layers : stream[Copying(l)] = <<>>
  BY <1>3, <1>5, CopiedAlone
<1>7. /\ (Handed' <=> Handed) /\ (InFlight' <=> InFlight) /\ Call' = Call /\ Slot' = Slot
  BY <1>1, SamePlace
<1>8. MainKept'
  BY <1>1, <1>6, <1>7, MainIdle
<1>9. /\ \A b \in Numbers : host'[b].in = host[b].in
      /\ WorkerEnd => host'[temp.n].out[Slot] = host[temp.n].in[Slot] \/ Call \in left'
  <2>1. CASE WorkerEnd
    <3>1. Run(Call, temp.n, Slot)
      BY <1>3, <2>1 DEF WorkerEnd
    <3> QED  BY <1>4, <3>1, RunType
  <2>2. CASE ~WorkerEnd
    BY <2>2 DEF WorkerStart, RunnerRaises, gpu
  <2> QED  BY <2>1, <2>2
<1>10. CopyKept'
  <2>1. host'[temp'.n].in[Slot'] = Call'
    BY <1>1, <1>4, <1>6, <1>7, <1>9
  <2>2. stream'[Main] = <<>> /\ InFlight' /\ \A l \in Layers : stream'[Copying(l)] = <<>>
    BY <1>1, <1>3, <1>6, <1>7
  <2>3. stream'[Copying(layer')] = <<>>
    BY <1>1, <1>5
  <2> QED  BY <2>1, <2>2, <2>3 DEF CopyKept
<1>11. WorkerKept'
  <2>1. InFlight' /\ pc' # "inline" /\ stream'[Copying(layer')] = <<>>
    BY <1>1, <1>3, <1>5, <1>7
  <2>2. CASE WorkerStart
    <3>1. tasks' = <<Task>> /\ Task' = Task
      BY <1>1, <1>3, <1>7, <2>2 DEF WorkerStart, Task, Sent
    <3> QED  BY <2>1, <3>1 DEF WorkerKept, Task
  <2>3. CASE WorkerEnd
    <3>1. tasks' = <<>> /\ ~running' /\ (host'[temp'.n].out[Slot'] = Call' \/ Call' \in left')
      BY <1>1, <1>3, <1>6, <1>7, <1>9, <2>3 DEF WorkerEnd
    <3> QED  BY <2>1, <3>1 DEF WorkerKept
  <2>4. CASE RunnerRaises
    <3>1. tasks' = <<>> /\ ~running' /\ Call' \in failed'
      BY <1>3, <1>7, <2>4 DEF RunnerRaises
    <3> QED  BY <2>1, <3>1 DEF WorkerKept
  <2> QED  BY <2>2, <2>3, <2>4
<1> QED  BY <1>8, <1>10, <1>11 DEF Flow

LEMMA ElsewhereStep ==
  ASSUME TypeOK, Flow, Elsewhere
  PROVE  Flow'
<1>1. CASE Execute(Main)
  BY <1>1, ExecuteMain, CopyFrame DEF Flow
<1>2. CASE Execute(Reduce)
  BY <1>2, ExecuteReduce, CopyFrame DEF Flow
<1>3. ASSUME NEW l \in Layers, Execute(Copying(l))  PROVE Flow'
  BY <1>3, ExecuteCopy
<1>4. CASE WorkerStart \/ WorkerEnd \/ RunnerRaises
  BY <1>4, WorkerStep
<1>5. CASE UNCHANGED vars
  <2>1. 0 \in Numbers /\ UNCHANGED <<conf, pass, layer, pc, pending, temp, host, x, y, stream, ran,
                                   tasks, running, failed, left>>
    BY <1>5, Places DEF TypeOK, vars, worker
  <2>2. /\ (Handed' <=> Handed) /\ (InFlight' <=> InFlight) /\ Call' = Call /\ Slot' = Slot
    BY <2>1, SamePlace
  <2>3. MainKept'
    BY <2>1, <2>2, MainFrame DEF Flow
  <2>4. CopyKept'
    BY <2>1, <2>2 DEF Flow, CopyKept, Until, Sent, Op
  <2>5. WorkerKept'
    BY <2>1, <2>2 DEF Flow, WorkerKept, Sent
  <2> QED  BY <2>3, <2>4, <2>5 DEF Flow
<1>6. \A s \in Streams : s = Main \/ s = Reduce \/ \E l \in Layers : s = Copying(l)
  BY StreamNames
<1> QED  BY <1>1, <1>2, <1>3, <1>4, <1>5, <1>6 DEF Elsewhere

-----------------------------------------------------------------------------
(***************************************************************************)
(* The steps of the main thread, while no pass was given up.               *)
(***************************************************************************)
LEMMA Quiet ==
  ASSUME TypeOK, Flow, ~InFlight
  PROVE  tasks = <<>> /\ ~running /\ \A l \in Layers : stream[Copying(l)] = <<>>
BY DEF TypeOK, Flow, CopyKept, WorkerKept

LEMMA QuietNext ==
  ASSUME ~InFlight', tasks' = <<>>, ~running', layer' \in Layers,
         \A l \in Layers : stream'[Copying(l)] = <<>>
  PROVE  CopyKept' /\ WorkerKept'
BY DEF CopyKept, WorkerKept

LEMMA BeginStep ==
  ASSUME TypeOK, PendingKept, Flow, ~Abandoned', Begin
  PROVE  Flow'
<1>1. pass \in Nat /\ layer \in Layers /\ 0 \in Layers /\ 0 \in Numbers
  BY Places DEF TypeOK, Numbers
<1>2. pass' = pass + 1 /\ pc = "begin" /\ pc' = "gate" /\ layer' = 0
      /\ UNCHANGED <<conf, pending, host, x, y, stream, ran, tasks, running>>
  BY DEF Begin, gpu, worker
<1>3. pending[layer] = Nobody
  <2>1. pending[layer] # Nobody => pending[layer][1] # pass'
    BY <1>1, <1>2 DEF PendingKept
  <2> QED  BY <1>1, <1>2, <2>1 DEF Abandoned
<1>4. ~InFlight /\ ~Handed /\ ~InFlight' /\ ~Handed'
  BY <1>2, <1>3 DEF InFlight, Handed, Doomed
<1>5. MainKept'
  <2>1. PICK q \in Seq(Ops) : Before(q) /\ stream[Main] = q
    BY <1>4, MainWithoutGate DEF Flow
  <2>2. stream'[Main] = q
    BY <1>2, <2>1
  <2>3. Before(q)'
    BY <1>1, <1>2, <2>1, BeforeFrame
  <2>4. Seq(Ops)' = Seq(Ops)
    BY DEF Ops, Moves, Waits, Calls, Numbers, Buffered, Streams, Main, Reduce, Copying, Layers
  <2> QED  BY <1>4, <2>1, <2>2, <2>3, <2>4 DEF MainKept
<1> QED  BY <1>1, <1>2, <1>4, <1>5, Quiet, QuietNext DEF Flow

LEMMA GateStep ==
  ASSUME TypeOK, Flow, Gate
  PROVE  Flow'
<1>1. layer \in Layers /\ 0 \in Numbers
  BY Places DEF TypeOK
<1>2. pc = "gate" /\ pc' = "submit"
      /\ UNCHANGED <<conf, pass, layer, pending, host, x, y, ran, tasks, running>>
  BY DEF Gate, gpu, worker
<1>3. ~InFlight /\ ~Handed /\ ~InFlight' /\ Handed'
  BY <1>2 DEF InFlight, Handed, Doomed
<1>4. /\ stream'[Main] = Append(stream[Main], Op("gate", 0, 0)) /\ stream'[Reduce] = stream[Reduce]
      /\ \A l \in Layers : stream'[Copying(l)] = stream[Copying(l)]
  BY GateType, StreamNames
<1>5. MainKept'
  <2>1. PICK q \in Seq(Ops) : Before(q) /\ stream'[Main] = Append(q, Op("gate", 0, 0))
    BY <1>3, <1>4, MainWithoutGate DEF Flow
  <2>2. Before(q)'
    BY <1>1, <1>2, <1>4, <2>1, BeforeFrame
  <2>3. Seq(Ops)' = Seq(Ops)
    BY DEF Ops, Moves, Waits, Calls, Numbers, Buffered, Streams, Main, Reduce, Copying, Layers
  <2>4. Op("gate", 0, 0)' = Op("gate", 0, 0)
    BY <1>2 DEF Op, Call
  <2> QED  BY <1>3, <2>1, <2>2, <2>3, <2>4 DEF MainKept
<1> QED  BY <1>1, <1>2, <1>3, <1>4, <1>5, Quiet, QuietNext DEF Flow

LEMMA SubmitStep ==
  ASSUME TypeOK, BufferKept, Flow, Submit
  PROVE  Flow'
<1>1. layer \in Layers /\ Copying(layer) \in Streams /\ 0 \in Numbers
  BY Places, StreamNames DEF TypeOK
<1>2. pc = "submit" /\ pc' \in {"inline", "shared"}
      /\ UNCHANGED <<conf, pass, layer, host, x, y, ran, running, failed, left>>
  BY SubmitType DEF Submit, gpu
<1>3. ~InFlight /\ Handed /\ InFlight' /\ Handed' /\ Call' = Call /\ Slot' = Slot
  BY <1>2 DEF InFlight, Handed, Doomed, Call, Slot
<1>4. tasks = <<>> /\ ~running /\ \A l \in Layers : stream[Copying(l)] = <<>>
  BY <1>3, Quiet
<1>5. /\ stream'[Main] = stream[Main] /\ stream'[Reduce] = stream[Reduce]
      /\ stream'[Copying(layer)] = <<>> \o <<Wait(Main), Op("in", Buffer.n, Slot)>>
      /\ \A l \in Layers : l # layer => stream'[Copying(l)] = <<>>
      /\ temp' = Buffer
  BY <1>1, <1>4, SubmitType, StreamNames
<1>6. MainKept'
  BY <1>1, <1>2, <1>3, <1>5, MainFrame DEF Flow
<1>7. stream'[Copying(layer)] = <<Wait(Main), Op("in", Buffer.n, Slot)>>
  <2> DEFINE a == Wait(Main)
             b == Op("in", Buffer.n, Slot)
  <2>1. stream'[Copying(layer)] = <<>> \o <<a, b>>
    BY <1>5
  <2> HIDE DEF a, b
  <2>2. stream'[Copying(layer)] = <<a, b>>
    BY <2>1
  <2> QED  BY <2>2 DEF a, b
<1>8. CopyKept'
  <2>1. Wait(Main) = Until(Main)' /\ Op("in", Buffer.n, Slot) = Op("in", temp.n, Slot)'
    BY <1>2, <1>3, <1>5 DEF Wait, Until, Sent, Op
  <2>2. stream'[Copying(layer')] = <<Until(Main)', Op("in", temp.n, Slot)'>>
    BY <1>2, <1>7, <2>1
  <2> QED  BY <1>2, <1>3, <1>5, <2>2 DEF CopyKept
<1>9. WorkerKept'
  <2>1. CASE pc' = "inline"
    BY <1>2, <1>4, <2>1, SubmitType DEF WorkerKept
  <2>2. CASE pc' = "shared"
    <3> DEFINE t == [call |-> Call, buf |-> Buffer.n, slot |-> Slot, ready |-> Sent(Copying(layer)) + 2]
    <3>1. tasks' = Append(<<>>, t)
      BY <1>4, <2>2, SubmitType
    <3>2. Sent(Copying(layer)) + 2 = Sent(Copying(layer))'
      <4> DEFINE a == Wait(Main)
                 b == Op("in", Buffer.n, Slot)
      <4>1. stream'[Copying(layer)] = <<a, b>> /\ stream[Copying(layer)] = <<>>
        BY <1>1, <1>4, <1>7
      <4> HIDE DEF a, b
      <4>2. Len(stream'[Copying(layer)]) = 2 /\ Len(stream[Copying(layer)]) = 0
        BY <4>1
      <4>3. ran[Copying(layer)] \in Nat /\ ran'[Copying(layer)] = ran[Copying(layer)] /\ layer' = layer
        BY <1>1, <1>2, SentTyped
      <4>4. Sent(Copying(layer))' = ran'[Copying(layer)] + Len(stream'[Copying(layer)])
        BY <4>3 DEF Sent
      <4>5. Sent(Copying(layer)) = ran[Copying(layer)] + Len(stream[Copying(layer)])
        BY DEF Sent
      <4> QED  BY <4>2, <4>3, <4>4, <4>5
    <3>3. t = [call |-> Call', buf |-> temp'.n, slot |-> Slot', ready |-> Sent(Copying(layer))']
      BY <1>3, <1>5, <3>2
    <3> HIDE DEF t
    <3>4. tasks' = <<t>>
      BY <3>1
    <3> QED  BY <1>2, <1>3, <1>4, <2>2, <3>3, <3>4 DEF WorkerKept
  <2> QED  BY <1>2, <2>1, <2>2
<1> QED  BY <1>6, <1>8, <1>9 DEF Flow

LEMMA InlineStep ==
  ASSUME TypeOK, Flow, Inline
  PROVE  Flow'
<1>1. layer \in Layers /\ temp.n \in Numbers /\ Slot \in Buffered
  BY Places DEF TypeOK
<1>2. pc = "inline" /\ pc' = "shared" /\ stream[Copying(layer)] = <<>>
      /\ UNCHANGED <<conf, pass, layer, temp, x, y, stream, ran, tasks, running>>
      /\ Run(Call, temp.n, Slot)
  BY DEF Inline
<1>3. InFlight /\ InFlight' /\ Handed' /\ Call' = Call /\ Slot' = Slot
  BY <1>2 DEF InFlight, Handed, Call, Slot
<1>4. /\ stream[Main] = <<>> /\ stream[Reduce] = <<>> /\ x = Call /\ host[temp.n].in[Slot] = Call
      /\ \A l \in Layers : stream[Copying(l)] = <<>>
  BY <1>2, <1>3, CopiedAlone
<1>5. /\ \A b \in Numbers : host'[b].in = host[b].in
      /\ host'[temp.n].out[Slot] = host[temp.n].in[Slot] \/ Call \in left'
  BY <1>1, <1>2, RunType
<1>6. MainKept'
  BY <1>2, <1>3, <1>4, MainIdle
<1>7. CopyKept'
  <2>1. host'[temp'.n].in[Slot'] = Call'
    BY <1>1, <1>2, <1>3, <1>4, <1>5
  <2>2. /\ stream'[Main] = <<>> /\ stream'[Copying(layer')] = <<>>
        /\ \A l \in Layers : stream'[Copying(l)] = <<>>
    BY <1>1, <1>2, <1>4
  <2> QED  BY <1>3, <2>1, <2>2 DEF CopyKept
<1>8. WorkerKept'
  <2>1. tasks' = <<>> /\ ~running' /\ stream'[Copying(layer')] = <<>>
    BY <1>2, <1>3 DEF Flow, WorkerKept
  <2>2. host'[temp'.n].out[Slot'] = Call' \/ Call' \in left'
    BY <1>2, <1>3, <1>4, <1>5
  <2> QED  BY <1>2, <1>3, <2>1, <2>2 DEF WorkerKept
<1> QED  BY <1>6, <1>7, <1>8 DEF Flow

\* Steps that only move the main thread on, with a call in flight before and after.
LEMMA OnwardStep ==
  ASSUME TypeOK, Flow, pc \in {"shared", "sync"}, pc' # "inline", InFlight',
         UNCHANGED <<conf, pass, layer, pending, temp, host, x, y, stream, ran, tasks, running, failed, left>>
  PROVE  Flow'
<1>1. layer \in Layers /\ 0 \in Numbers
  BY Places DEF TypeOK
<1>2. InFlight /\ Handed /\ Handed' /\ Call' = Call /\ Slot' = Slot
  BY DEF InFlight, Handed, Call, Slot
<1>3. MainKept'
  BY <1>1, <1>2, MainFrame DEF Flow
<1>4. CopyKept'
  BY <1>1, <1>2 DEF Flow, CopyKept, Until, Sent, Op
<1>5. WorkerKept'
  BY <1>1, <1>2 DEF Flow, WorkerKept, Sent
<1> QED  BY <1>3, <1>4, <1>5 DEF Flow

LEMMA RaiseStep ==
  ASSUME TypeOK, PendingKept, Flow, ~Abandoned, Raise
  PROVE  Flow'
<1>1. layer \in Layers /\ 0 \in Numbers /\ pass \in Nat
  BY Places DEF TypeOK, Numbers
<1>2. pc' = "begin"
      /\ UNCHANGED <<conf, pass, layer, pending, temp, host, x, y, stream, ran, tasks, running, failed, left>>
  BY DEF Raise, gpu, worker
<1>3. CASE pc = "gate"
  <2>1. ~InFlight /\ ~Handed /\ ~InFlight' /\ ~Handed'
    BY <1>1, <1>2, <1>3, NothingPending DEF InFlight, Handed, Doomed
  <2>2. MainKept'
    BY <1>1, <1>2, <2>1, MainFrame DEF Flow
  <2> QED  BY <1>1, <1>2, <2>1, <2>2, Quiet, QuietNext DEF Flow
<1>4. CASE pc = "inline" /\ stream[Copying(layer)] = <<>>
  <2>1. InFlight /\ ~InFlight' /\ ~Handed'
    BY <1>1, <1>2, <1>4, NothingPending DEF InFlight, Handed, Doomed
  <2>2. /\ stream[Main] = <<>> /\ stream[Reduce] = <<>>
        /\ \A l \in Layers : stream[Copying(l)] = <<>>
    BY <1>4, <2>1, CopiedAlone
  <2>3. MainKept'
    BY <1>2, <2>1, <2>2, MainIdle
  <2>4. tasks = <<>> /\ ~running
    BY <1>4, <2>1 DEF Flow, WorkerKept
  <2> QED  BY <1>1, <1>2, <2>1, <2>2, <2>3, <2>4, QuietNext DEF Flow
<1>5. CASE pc = "shared"
  <2>1. pending[layer] = Call /\ pass > 0
    BY <1>5 DEF PendingKept
  <2>2. InFlight'
    BY <1>2, <2>1, CallTyped DEF InFlight, Doomed
  <2> QED  BY <1>2, <1>5, <2>2, OnwardStep
<1> QED  BY <1>3, <1>4, <1>5 DEF Raise

LEMMA DispatchStep ==
  ASSUME TypeOK, PendingKept, Flow, ~Abandoned, Dispatch
  PROVE  Flow'
<1>1. layer \in Layers /\ 0 \in Numbers /\ Slot \in Buffered /\ layer' \in Layers /\ pc' \in {"begin", "gate"}
  BY Places, AdvanceType DEF TypeOK, Dispatch
<1>2. pc = "submit" /\ stream[Main] = <<>>
      /\ UNCHANGED <<conf, pass, pending, temp, x, y, ran, tasks, running>>
  BY DEF Dispatch, worker
<1>3. ~InFlight /\ Handed /\ ~InFlight' /\ ~Handed'
  BY <1>1, <1>2, NothingPending DEF InFlight, Handed, Doomed
<1>4. /\ stream'[Main] = <<Op("dispatched", 0, Slot)>> /\ stream'[Reduce] = stream[Reduce]
      /\ \A l \in Layers : stream'[Copying(l)] = stream[Copying(l)]
      /\ host'[0].gpu[Slot] = x
  BY DispatchType, StreamNames
<1>5. x = Call /\ stream[Reduce] = <<>>
  BY <1>2, <1>3, MainAlone DEF Flow
<1>6. MainKept'
  <2>1. PICK o : o = Op("dispatched", 0, Slot)
    OBVIOUS
  <2>2. o \in Moves /\ o \in Ops /\ o.op = "dispatched" /\ o.call = Call /\ o.slot = Slot
    BY <1>1, <2>1, OpTyped
  <2>3. Moves' = Moves /\ Ops' = Ops
    BY DEF Ops, Moves, Waits, Calls, Numbers, Buffered, Streams, Main, Reduce, Copying, Layers
  <2>4. Ready(o)'
    BY <1>4, <1>5, <2>2, <2>3 DEF Ready
  <2>5. stream'[Main] = <<o>> /\ <<o>>[1] = o /\ <<o>> \in Seq(Ops)
    <3> HIDE DEF Ops
    <3> QED  BY <1>4, <2>1, <2>2
  <2>6. Before(<<o>>)'
    BY <1>4, <1>5, <2>4, <2>5 DEF Before
  <2> QED  BY <1>3, <2>3, <2>5, <2>6 DEF MainKept
<1> QED  BY <1>1, <1>2, <1>3, <1>4, <1>6, Quiet, QuietNext DEF Flow

LEMMA UseFacts ==
  ASSUME TypeOK, NEW b \in Numbers
  PROVE  /\ Use(b) \in Moves /\ Use(b) \in Ops /\ Use(b).call = Call /\ Use(b).buf = b /\ Use(b).slot = Slot
         /\ Use(b).op = "use" \/ (Use(b).op = "leftover" /\ Call \in left)
         /\ Call \in left => Use(b).op = "leftover"
         /\ Op("out", b, Slot) = As(Use(b), "out") /\ Op("reduce", b, Slot) = As(Use(b), "reduce")
<1>1. Slot \in Buffered
  BY Places DEF TypeOK
<1>2. CASE Call \in left
  <2>1. Use(b) = Op("leftover", b, Slot)
    BY <1>2 DEF Use
  <2> QED  BY <1>1, <1>2, <2>1, OpTyped DEF As, Op
<1>3. CASE Call \notin left
  <2>1. Use(b) = Op("use", b, Slot)
    BY <1>3 DEF Use
  <2> QED  BY <1>1, <1>3, <2>1, OpTyped DEF As, Op
<1> QED  BY <1>2, <1>3

LEMMA Nothing ==
  ASSUME NEW a, NEW b
  PROVE  <<>> \o <<a, b>> = <<a, b>> /\ Len(<<a, b>>) = 2 /\ Len(<<>>) = 0
         /\ <<a, b>>[1] = a /\ <<a, b>>[2] = b /\ (a \in Ops /\ b \in Ops => <<a, b>> \in Seq(Ops))
<1> HIDE DEF Ops
<1> QED  OBVIOUS

LEMMA SyncStep ==
  ASSUME TypeOK, BufferKept, PendingKept, Flow, ~Abandoned, Sync
  PROVE  Flow'
<1>1. layer \in Layers /\ temp.n \in Numbers /\ pending \in [Layers -> Calls] /\ Call[2] = layer
  BY DEF TypeOK, Call
<1>2. pc = "sync" /\ Finished /\ pending[layer] = Call
      /\ UNCHANGED <<conf, pass, host, x, y, ran, tasks, running, failed>>
  BY DEF Sync, PendingKept, gpu
<1>3. InFlight
  BY <1>2 DEF InFlight
<1>4. /\ tasks = <<>> /\ ~running /\ stream[Copying(layer)] = <<>>
      /\ host[temp.n].out[Slot] = Call \/ Call \in left \/ Call \in failed
  <2>1. CASE tasks = <<>>
    BY <1>2, <1>3, <2>1, Pairs DEF Flow, WorkerKept
  <2>2. CASE tasks # <<>>
    <3>1. tasks = <<Task>> /\ Task.call = Call
      BY <2>2, WorkersTask
    <3>2. Len(tasks) = 1 /\ tasks[1] = Task
      BY <3>1
    <3> QED  BY <1>2, <3>1, <3>2 DEF Finished
  <2> QED  BY <2>1, <2>2
<1>5. /\ stream[Main] = <<>> /\ stream[Reduce] = <<>>
      /\ \A l \in Layers : stream[Copying(l)] = <<>>
  BY <1>3, <1>4, CopiedAlone
<1>6. \A l \in Layers : pending'[l] = Nobody
  <2>1. pending' = [pending EXCEPT ![layer] = Nobody]
    BY DEF Sync
  <2>2. \A l \in Layers : l # layer => pending[l] = Nobody
    BY DEF PendingKept
  <2> QED  BY <1>1, <2>1, <2>2
<1>7. pc' \in {"begin", "gate"} /\ layer' \in Layers
  BY <1>1, AdvanceType DEF Sync
<1>8. ~InFlight' /\ ~Handed'
  BY <1>6, <1>7 DEF InFlight, Handed, Doomed
<1>9. CASE pending[layer] \in failed
  <2>1. stream' = stream
    BY <1>9 DEF Sync
  <2>2. MainKept'
    BY <1>5, <1>8, <2>1, MainIdle
  <2> QED  BY <1>2, <1>4, <1>5, <1>7, <1>8, <2>1, <2>2, QuietNext DEF Flow
<1>10. CASE pending[layer] \notin failed
  <2> DEFINE b == temp.n
  <2>1. stream' = Returned(b)
    BY <1>2, <1>10, BufferTyped DEF Sync, BufferKept
  <2>2. \A l \in Layers : stream'[Copying(l)] = <<>>
    BY <1>1, <1>5, <2>1, ReturnedType
  <2>3. PICK u : u = Use(b)
    OBVIOUS
  <2>4. u \in Moves /\ u \in Ops /\ u.call = Call /\ u.buf = b /\ u.slot = Slot
        /\ Op("out", b, Slot) = As(u, "out") /\ Op("reduce", b, Slot) = As(u, "reduce")
        /\ As(u, "out") \in Ops
    BY <1>1, <2>3, UseFacts, AsFacts DEF Ops
  <2>5. Coming(u, host[u.buf].out[u.slot])'
    <3>1. u.op = "leftover" \/ (u.op = "use" /\ Call \notin left)
      BY <1>1, <2>3, UseFacts
    <3>2. u.op = "use" => host'[b].out[Slot] = Call
      BY <1>2, <1>4, <1>10, <3>1
    <3>3. Moves' = Moves
      BY DEF Moves, Calls, Numbers, Buffered
    <3> QED  BY <2>4, <3>1, <3>2, <3>3 DEF Coming
  <2>6. PICK a : a = As(u, "out")
    OBVIOUS
  <2>7. PICK r : r = As(u, "reduce")
    OBVIOUS
  <2>8. Ops' = Ops
    BY DEF Ops, Moves, Waits, Calls, Numbers, Buffered, Streams, Main, Reduce, Copying, Layers
  <2>9. ASSUME ~conf.async  PROVE MainKept'
    <3>1. stream'[Main] = <<>> \o <<a, u>> /\ stream'[Reduce] = <<>>
      BY <1>1, <1>5, <2>1, <2>3, <2>4, <2>6, <2>9, ReturnedType
    <3>2. PICK q : q = <<a, u>>
      OBVIOUS
    <3>3. stream'[Main] = q /\ q[1] = a /\ q[2] = u /\ q \in Seq(Ops)
      BY <2>4, <2>6, <3>1, <3>2, Nothing
    <3>4. Before(q)'
      BY <1>2, <2>5, <2>6, <2>9, <3>1, <3>2, <3>3 DEF Before
    <3> QED  BY <1>8, <2>8, <3>3, <3>4 DEF MainKept
  <2>10. ASSUME conf.async  PROVE MainKept'
    <3>1. PICK w : w = [op |-> "wait", for |-> Reduce, upto |-> Sent(Reduce) + 2]
      OBVIOUS
    <3>2. stream'[Main] = <<>> \o <<w, u>> /\ stream'[Reduce] = <<>> \o <<a, r>>
      BY <1>1, <1>5, <2>1, <2>3, <2>4, <2>6, <2>7, <2>10, <3>1, ReturnedType
    <3>3. Len(stream'[Reduce]) = 2 /\ Len(stream[Reduce]) = 0 /\ stream'[Reduce] = <<a, r>>
      BY <1>5, <3>2, Nothing
    <3>4. Sent(Reduce) \in Nat /\ ran[Reduce] \in Nat
      BY SentTyped, StreamNames
    <3>5. Sent(Reduce)' = Sent(Reduce) + 2
      BY <1>2, <3>3, <3>4 DEF Sent
    <3>6. w = Until(Reduce)' /\ w \in Ops
      BY <3>1, <3>4, <3>5, StreamNames DEF Until, Ops, Waits
    <3>7. PICK q : q = <<w, u>>
      OBVIOUS
    <3>8. stream'[Main] = q /\ q[1] = w /\ q[2] = u /\ q \in Seq(Ops)
      BY <2>4, <3>2, <3>6, <3>7, Nothing
    <3>9. Reducing(u)'
      BY <2>5, <2>6, <2>7, <3>3 DEF Reducing
    <3>10. Before(q)'
      BY <1>2, <2>10, <3>6, <3>7, <3>8, <3>9 DEF Before
    <3> QED  BY <1>8, <2>8, <3>8, <3>10 DEF MainKept
  <2>11. MainKept'
    BY <2>9, <2>10
  <2> QED  BY <1>2, <1>4, <1>7, <1>8, <2>2, <2>11, QuietNext DEF Flow
<1> QED  BY <1>9, <1>10

-----------------------------------------------------------------------------
(***************************************************************************)
(* The theorem.                                                            *)
(***************************************************************************)
LEMMA FlowStep ==
  ASSUME TypeOK, BufferKept, PendingKept, Abandoned \/ Flow, [Next]_vars
  PROVE  Abandoned' \/ Flow'
<1> SUFFICES ASSUME ~Abandoned'  PROVE Flow'
  OBVIOUS
<1>1. ~Abandoned /\ Flow
  BY AbandonedStays
<1>2. CASE Elsewhere
  BY <1>1, <1>2, ElsewhereStep
<1>3. CASE Begin
  BY <1>1, <1>3, BeginStep
<1>4. CASE Gate
  BY <1>1, <1>4, GateStep
<1>5. CASE Refused
  <2>1. layer \in Layers
    BY DEF TypeOK
  <2> QED  BY <1>1, <1>5, <2>1, NothingPending DEF Refused
<1>6. CASE Submit
  BY <1>1, <1>6, SubmitStep
<1>7. CASE Inline
  BY <1>1, <1>7, InlineStep
<1>8. CASE Shared
  <2>1. InFlight'
    BY <1>8 DEF Shared, InFlight
  <2> QED  BY <1>1, <1>8, <2>1, OnwardStep DEF Shared, gpu, worker
<1>9. CASE Sync
  BY <1>1, <1>9, SyncStep
<1>10. CASE Dispatch
  BY <1>1, <1>10, DispatchStep
<1>11. CASE Raise
  BY <1>1, <1>11, RaiseStep
<1> QED  BY <1>2, <1>3, <1>4, <1>5, <1>6, <1>7, <1>8, <1>9, <1>10, <1>11, Steps

LEMMA InvInit == Init => Inv
<1> SUFFICES ASSUME Init  PROVE Inv
  OBVIOUS
<1>1. TypeOK /\ BufferKept /\ PendingKept
  BY InitType, InitKept
<1>2. stream[Main] = <<>> /\ stream[Reduce] = <<>> /\ \A l \in Layers : stream[Copying(l)] = <<>>
  BY StreamNames DEF Init
<1>3. ~InFlight /\ ~Handed
  BY <1>1 DEF Init, InFlight, Handed, Doomed, TypeOK
<1>4. MainKept
  <2>1. Before(<<>>) /\ <<>> \in Seq(Ops)
    BY <1>2 DEF Before
  <2> QED  BY <1>2, <1>3, <2>1 DEF MainKept
<1>5. CopyKept /\ WorkerKept
  BY <1>1, <1>2, <1>3 DEF CopyKept, WorkerKept, TypeOK, Init
<1> QED  BY <1>1, <1>4, <1>5 DEF Inv, Flow

LEMMA InvStep == Inv /\ [Next]_vars => Inv'
BY TypeStep, BufferStep, PendingStep, FlowStep DEF Inv

LEMMA InvMeans == Inv => CallsGetTheirOwn
<1> SUFFICES ASSUME Inv, ~Abandoned  PROVE RunnerReadsItsCall /\ SumReadsItsCall
  BY DEF CallsGetTheirOwn
<1>1. TypeOK /\ Flow
  BY DEF Inv
<1>2. RunnerReadsItsCall
  <2> SUFFICES ASSUME running  PROVE host[Head(tasks).buf].in[Head(tasks).slot] = Head(tasks).call
    BY DEF RunnerReadsItsCall
  <2>1. tasks # <<>>
    BY <1>1 DEF TypeOK
  <2>2. /\ InFlight /\ Head(tasks) = Task /\ Task.call = Call /\ Task.buf = temp.n /\ Task.slot = Slot
        /\ stream[Copying(layer)] = <<>>
    BY <1>1, <2>1, WorkersTask
  <2>3. host[temp.n].in[Slot] = Call
    BY <1>1, <2>2, CopiedAlone
  <2> QED  BY <2>2, <2>3
<1>3. SumReadsItsCall
  <2> SUFFICES ASSUME stream[Main] # <<>>, NEW o, o = Head(stream[Main])
               PROVE  /\ o.op = "use" => (IF conf.async THEN y ELSE host[o.buf].gpu[o.slot]) = o.call
                      /\ o.op = "dispatched" => host[0].gpu[o.slot] = o.call
    BY DEF SumReadsItsCall
  <2>1. PICK q \in Seq(Ops) :
          /\ Before(q)
          /\ \/ stream[Main] = q /\ (Handed => q = <<>> /\ x = Call)
             \/ stream[Main] = Append(q, Op("gate", 0, 0)) /\ Handed
    BY <1>1 DEF Flow, MainKept
  <2>2. CASE q = <<>>
    <3>1. o = Op("gate", 0, 0)
      BY <2>1, <2>2, GateLast
    <3> QED  BY <3>1 DEF Op
  <2>3. CASE q # <<>>
    <3>1. o = Head(q)
      BY <2>1, <2>3, GateLast
    <3>2. CASE q = <<q[1]>> /\ Ready(q[1])
      <4>1. Head(q) = q[1]
        BY <3>2, Pairs, Zenon
      <4> QED  BY <3>1, <3>2, <4>1 DEF Ready
    <3>3. CASE q = <<q[1], q[2]>> /\ q[2] \in Moves /\ (q[1] = As(q[2], "out") \/ q[1] = Until(Reduce))
      <4>1. Head(q) = q[1]
        <5>1. PICK a, b : a = q[1] /\ b = q[2]
          OBVIOUS
        <5>2. q = <<a, b>>
          BY <3>3, <5>1
        <5> QED  BY <5>1, <5>2, Pairs
      <4>2. o.op \in {"out", "wait"}
        BY <3>1, <3>3, <4>1, AsFacts DEF Until
      <4> QED  BY <4>2
    <3> QED  BY <2>1, <2>3, <3>2, <3>3 DEF Before, Coming, Reducing
  <2> QED  BY <2>2, <2>3
<1> QED  BY <1>2, <1>3

\* Every variable of the pipeline keeps its type, for any number of layers, slots and passes.
THEOREM TypeCorrect == Spec => []TypeOK
<1>1. Init => Inv
  BY InvInit
<1>2. Inv /\ [Next]_vars => Inv'
  BY InvStep
<1>3. Inv => TypeOK
  BY DEF Inv
<1> QED  BY <1>1, <1>2, <1>3, PTL DEF Spec

(***************************************************************************)
(* CallsGetTheirOwn: until a pass is given up between submit_forward and   *)
(* sync_forward, the runner reads the hidden states of its own call and    *)
(* the sum with the shared experts the result of the same call, however    *)
(* late streams and worker are, for any number of layers and slots.        *)
(***************************************************************************)
THEOREM CallsGetTheirOwnHolds == Spec => []CallsGetTheirOwn
<1>1. Init => Inv
  BY InvInit
<1>2. Inv /\ [Next]_vars => Inv'
  BY InvStep
<1> QED  BY <1>1, <1>2, InvMeans, PTL DEF Spec

-----------------------------------------------------------------------------
(***************************************************************************)
(* ExpertWeights: definitions.                                             *)
(***************************************************************************)
Packed == Weights!Cell("packed", 0)
Float == Weights!Cell("float", 0)
Cells == [at : {"none", "own", "file", "arena8", "arena4", "private", "packed", "float"},
          n : Nat]
Held == [Owned -> Cells]

\* The experts get slots in an arena, in the format of the checkpoint.
Slots8 == weightsEnv.arena8 /\ weightsEnv.pins
Slots4 == weightsEnv.arena4 /\ weightsEnv.pins
Converts == Slots4 /\ weightsEnv.cuda
Served == step \in {"server", "serve"}

WeightsTypeOK ==
  /\ weightsEnv \in Weights!AllSettings
  /\ step \in {"load", "fp4", "int8", "server", "serve"}
  /\ target \in Held /\ param \in Held /\ cpu \in Held /\ cache8 \in Held /\ cache4 \in Held
  /\ arena8 \in [n : Nat, on : BOOLEAN] /\ arena4 \in [there : BOOLEAN, on : BOOLEAN]
  /\ prep8 \in BOOLEAN
  /\ native \in [ready : BOOLEAN, on : BOOLEAN, int8 : BOOLEAN]
  /\ table4 \in Held /\ table8 \in [n : Nat, ptr : Held]
  /\ server \in Nat /\ holds \subseteq Owned \X Cells

\* No number is in use but those of the arena, the tables and the private copies.
Numbered ==
  /\ \A p \in holds : p[2].n \in {0, arena8.n, cache8[p[1]].n}
  /\ \A e \in Owned :
       \A c \in {target[e], param[e], cpu[e], cache4[e], table8.ptr[e]} :
         c.n \in {0, arena8.n, cache8[e].n}

\* An expert before it is loaded, and where the loader leaves it.
Untouched(e) == param[e] = Weights!Own /\ cpu[e] = Weights!None /\ cache8[e] = Weights!None
    /\ cache4[e] = Weights!None
Raw(e) == target[e] = Weights!Own /\ Untouched(e) /\ <<e, Weights!Own>> \notin holds

Loaded8(e) ==
  /\ IF weightsEnv.model /\ Slots8
       THEN /\ arena8.n # 0 /\ target[e] = Weights!Slot8(arena8.n) /\ param[e] = target[e]
            /\ cache8[e] = target[e] /\ cpu[e] = Weights!None /\ cache4[e] = Weights!None
       ELSE target[e] = Weights!Own /\ Untouched(e)
  /\ <<e, target[e]>> \in holds

\* An int8 expert after prepare_int8_weights: all that refer to it refer to one cell.
Prepared8(e) ==
  /\ IF Slots8
       THEN /\ arena8.n # 0 /\ arena8.on /\ cache8[e] = Weights!Slot8(arena8.n)
            /\ param[e] \in {Weights!None, cache8[e]} /\ cpu[e] \in {Weights!None, cache8[e]}
            /\ cpu[e] = Weights!None => param[e] = cache8[e]
       ELSE param[e] = Weights!Own /\ cpu[e] = Weights!Own /\ cache8[e] = Weights!Own
  /\ <<e, cache8[e]>> \in holds /\ cache4[e] = Weights!None /\ table8.ptr[e] = cache8[e]

Int8Inv ==
  /\ ~arena4.there /\ \A e \in Owned : target[e] # Weights!File
  /\ arena8.n # 0 => Slots8
  /\ ~Served => /\ arena8.on => weightsEnv.arena8
                /\ arena8.n # 0 => weightsEnv.model
                /\ Slots8 => arena8.on
                /\ ~native.on /\ server = 0
  /\ step = "load" => \A e \in Owned : Raw(e) \/ Loaded8(e)
  /\ step \in {"fp4", "int8"} => \A e \in Owned : Loaded8(e)
  /\ Served => prep8 /\ \A e \in Owned : Prepared8(e)
  /\ native.on => native.int8
  /\ server \in {0, table8.n}
  /\ misread = {}

-----------------------------------------------------------------------------
(***************************************************************************)
(* ExpertWeights: the cells, and what the operators on cells return.       *)
(***************************************************************************)
LEMMA CellFacts ==
  /\ Weights!None \in Cells /\ Weights!Own \in Cells /\ Weights!File \in Cells
  /\ Weights!Slot4 \in Cells
  /\ Packed \in Cells /\ Float \in Cells
  /\ Weights!None.at = "none" /\ Weights!Own.at = "own" /\ Weights!File.at = "file"
  /\ Weights!Slot4.at = "arena4"
  /\ Packed.at = "packed" /\ Float.at = "float"
  /\ Weights!None.n = 0 /\ Weights!Own.n = 0 /\ Weights!File.n = 0 /\ Weights!Slot4.n = 0
  /\ Packed.n = 0 /\ Float.n = 0
  /\ \A n \in Nat : /\ Weights!Slot8(n) \in Cells /\ Weights!Slot8(n).at = "arena8"
                    /\ Weights!Slot8(n).n = n
                    /\ Weights!Cell("private", n) \in Cells
                    /\ Weights!Cell("private", n).at = "private"
                    /\ Weights!Cell("private", n).n = n
BY DEF Cells, Weights!Cell, Weights!None, Weights!Own, Weights!File, Weights!Slot4, Packed, Float,
       Weights!Slot8

LEMMA FormatFacts ==
  \A c :
  /\ c \in Weights!Formats["int8"] <=> c \in {"own", "arena8", "private"}
  /\ c \in Weights!Formats["raw"] <=> c = "arena4"
  /\ c \in Weights!Formats["packed"] <=> c = "packed"
  /\ c \in Weights!Formats["file"] <=> c = "file"
  /\ c \in Weights!Formats.float <=> c \in {"packed", "float"}
BY DEF Weights!Formats

LEMMA PutFacts ==
  ASSUME NEW f \in Held, NEW ids, NEW c \in Cells
  PROVE  /\ Weights!Put(f, ids, c) \in Held
         /\ \A e \in Owned : Weights!Put(f, ids, c)[e] = IF e \in ids THEN c ELSE f[e]
         /\ (\A e \in Owned : e \notin ids) => Weights!Put(f, ids, c) = f
BY DEF Weights!Put, Held

LEMMA CopiedFacts ==
  ASSUME NEW was, was \subseteq Owned \X Cells, NEW ids, ids \subseteq Owned, NEW from,
      NEW to \in Cells
  PROVE  /\ Weights!Copied(was, ids, from, to) \subseteq Owned \X Cells
         /\ \A e \in Owned, c \in Cells :
              <<e, c>> \in Weights!Copied(was, ids, from, to) <=>
                IF e \in ids /\ c = to THEN <<e, from[e]>> \in was ELSE <<e, c>> \in was
<1>1. Weights!Copied(was, ids, from, to) \subseteq Owned \X Cells
  <2>1. \A p \in {<<e, to>> : e \in {d \in ids : <<d, from[d]>> \in was}} : p \in Owned \X Cells
    <3>1. \A e \in ids : <<e, to>> \in Owned \X Cells
      OBVIOUS
    <3> HIDE DEF Cells
    <3> QED  BY <3>1
  <2>2. was \ {<<e, to>> : e \in ids} \subseteq Owned \X Cells
    OBVIOUS
  <2> QED  BY <2>1, <2>2 DEF Weights!Copied
<1>2. ASSUME NEW e \in Owned, NEW c \in Cells
      PROVE  <<e, c>> \in Weights!Copied(was, ids, from, to) <=>
                IF e \in ids /\ c = to THEN <<e, from[e]>> \in was ELSE <<e, c>> \in was
  BY DEF Weights!Copied
<1> QED  BY <1>1, <1>2

-----------------------------------------------------------------------------
(***************************************************************************)
(* ExpertWeights: there is always a number that nothing has, and new       *)
(* arenas, tables and copies get one.                                      *)
(***************************************************************************)
LEMMA FreshFacts ==
  ASSUME WeightsTypeOK, Numbered
  PROVE  Weights!Fresh \in Nat /\ Weights!Fresh # 0
<1> DEFINE f == [e \in Owned |-> cache8[e].n]
           image == {f[e] : e \in Owned}
           few == {arena8.n, table8.n, server}
           used == few \cup image
<1>1. /\ IsFiniteSet(Owned) /\ IsFiniteSet(Times) /\ Times \subseteq Nat /\ 0 \notin Times
      /\ Cardinality(Times) > Cardinality(Owned) + 3
      /\ Cardinality(Owned) \in Nat /\ Cardinality(Times) \in Nat
  BY WeightsAssumption, FS_CardinalityType
<1>2. IsFiniteSet(image) /\ Cardinality(image) <= Cardinality(Owned) /\ Cardinality(image) \in Nat
  <2>1. IsFiniteSet(image) /\ Cardinality(image) <= Cardinality(Owned)
    <3>1. f \in Surjection(Owned, image)
      BY DEF Surjection
    <3> QED  BY <1>1, <3>1, FS_Surjection
  <2> QED  BY <2>1, FS_CardinalityType
<1>3. IsFiniteSet(few) /\ Cardinality(few) <= 3 /\ Cardinality(few) \in Nat
  <2>0. IsFiniteSet({}) /\ Cardinality({}) = 0
    BY FS_EmptySet
  <2>1. IsFiniteSet({server}) /\ Cardinality({server}) <= 1 /\ Cardinality({server}) \in Nat
    <3>1. IsFiniteSet({} \cup {server})
        /\ Cardinality({} \cup {server}) \in {Cardinality({}), Cardinality({}) + 1}
      BY <2>0, FS_AddElement
    <3>2. {} \cup {server} = {server}
      OBVIOUS
    <3> QED  BY <2>0, <3>1, <3>2
  <2>2. /\ IsFiniteSet({table8.n, server}) /\ Cardinality({table8.n, server}) <= 2
        /\ Cardinality({table8.n, server}) \in Nat
    <3>1. /\ IsFiniteSet({server} \cup {table8.n})
          /\ Cardinality({server} \cup {table8.n}) \in {Cardinality({server}),
               Cardinality({server}) + 1}
      BY <2>1, FS_AddElement
    <3>2. Cardinality({server} \cup {table8.n}) <= 2
        /\ Cardinality({server} \cup {table8.n}) \in Nat
      BY <2>1, <3>1
    <3>3. {server} \cup {table8.n} = {table8.n, server}
      OBVIOUS
    <3> QED  BY <3>1, <3>2, <3>3
  <2>3. /\ IsFiniteSet({table8.n, server} \cup {arena8.n})
        /\ Cardinality({table8.n, server} \cup {arena8.n}) \in
             {Cardinality({table8.n, server}), Cardinality({table8.n, server}) + 1}
    BY <2>2, FS_AddElement
  <2>4. {table8.n, server} \cup {arena8.n} = few
    OBVIOUS
  <2> HIDE DEF few
  <2>5. /\ IsFiniteSet(few)
        /\ Cardinality(few) \in {Cardinality({table8.n, server}), Cardinality({table8.n,
             server}) + 1}
    BY <2>3, <2>4
  <2> QED  BY <2>2, <2>5
<1>4. IsFiniteSet(used) /\ Cardinality(used) <= Cardinality(Owned) + 3 /\ Cardinality(used) \in Nat
  <2>1. /\ IsFiniteSet(used)
        /\ Cardinality(used) = Cardinality(few) + Cardinality(image) - Cardinality(few \cap image)
    BY <1>2, <1>3, FS_Union
  <2>2. IsFiniteSet(few \cap image) /\ Cardinality(few \cap image) \in Nat
    BY <1>2, <1>3, FS_Intersection, FS_CardinalityType
  <2>3. Cardinality(used) \in Nat
    BY <2>1, FS_CardinalityType
  <2> HIDE DEF few, image, used
  <2> QED  BY <1>1, <1>2, <1>3, <2>1, <2>2, <2>3
<1>5. PICK t \in Times : t \notin used
  <2>1. ~(Times \subseteq used)
    <3> SUFFICES ASSUME Times \subseteq used PROVE FALSE
      OBVIOUS
    <3>1. Cardinality(Times) <= Cardinality(used)
      BY <1>4, FS_Subset
    <3> HIDE DEF used
    <3> QED  BY <1>1, <1>4, <3>1
  <2> QED  BY <2>1
<1>6. t \notin {arena8.n, table8.n, server} /\ t # 0 /\ \A e \in Owned : cache8[e].n # t
  <2>1. \A e \in Owned : f[e] = cache8[e].n /\ f[e] \in used
    OBVIOUS
  <2> QED  BY <1>1, <1>5, <2>1
<1>7. \A p \in holds : p[2].n # t
  BY <1>6 DEF Numbered, WeightsTypeOK
<1>8. ASSUME NEW e \in Owned, NEW c \in Weights!Living(e) \cup {table8.ptr[e]}
      PROVE  c.n # t
  <2>1. \A d \in {target[e], param[e], cpu[e], cache4[e], table8.ptr[e]} : d.n # t
    BY <1>6 DEF Numbered
  <2>2. Weights!Slot4.n = 0 /\ \A n \in Nat : Weights!Slot8(n).n = n
    BY CellFacts
  <2>3. \/ c \in {target[e], param[e], cpu[e], cache4[e], table8.ptr[e], cache8[e]}
        \/ c = Weights!Slot4 \/ c = Weights!Slot8(arena8.n)
    BY DEF Weights!Living
  <2>4. arena8.n \in Nat
    BY DEF WeightsTypeOK
  <2> QED  BY <1>6, <2>1, <2>2, <2>3, <2>4
<1>9. Weights!Fresh \in Times
  <2> DEFINE Free(u) == /\ u \notin {arena8.n, table8.n, server} \cup {p[2].n : p \in holds}
                        /\ \A e \in Owned : \A c \in Weights!Living(e) \cup {table8.ptr[e]} : c.n # u
  <2>1. Free(t)
    BY <1>6, <1>7, <1>8
  <2>2. Weights!Fresh = CHOOSE u \in Times : Free(u)
    BY DEF Weights!Fresh
  <2> HIDE DEF Free
  <2> QED  BY <2>1, <2>2
<1> QED  BY <1>1, <1>9

LEMMA After8Facts ==
  ASSUME WeightsTypeOK, Numbered
  PROVE  /\ Weights!Allocates8 \in BOOLEAN
         /\ (Weights!Allocates8 <=> arena8.on /\ (arena8.n # 0 \/ weightsEnv.pins))
         /\ Weights!After8 \in [n : Nat, on : BOOLEAN]
         /\ Weights!Allocates8 => /\ Weights!After8.n # 0 /\ Weights!After8.on
                                  /\ arena8.n # 0 => Weights!After8 = arena8
         /\ ~Weights!Allocates8 => Weights!After8.n = arena8.n /\ ~Weights!After8.on
<1>1. Weights!Fresh \in Nat /\ Weights!Fresh # 0
  BY FreshFacts
<1>2. arena8 \in [n : Nat, on : BOOLEAN] /\ weightsEnv.pins \in BOOLEAN
  BY DEF WeightsTypeOK, Weights!AllSettings
<1> HIDE DEF Weights!Fresh
<1> QED  BY <1>1, <1>2 DEF Weights!Allocates8, Weights!After8

LEMMA After4Facts ==
  ASSUME WeightsTypeOK
  PROVE  /\ Weights!Allocates4 \in BOOLEAN
         /\ (Weights!Allocates4 <=> arena4.on /\ (arena4.there \/ weightsEnv.pins))
         /\ Weights!After4 \in [there : BOOLEAN, on : BOOLEAN]
         /\ Weights!After4.there = Weights!Allocates4 /\ Weights!After4.on = Weights!Allocates4
<1>2. arena4 \in [there : BOOLEAN, on : BOOLEAN] /\ weightsEnv.pins \in BOOLEAN
  BY DEF WeightsTypeOK, Weights!AllSettings
<1> QED  BY <1>2 DEF Weights!Allocates4, Weights!After4

LEMMA RefreshedFacts ==
  ASSUME WeightsTypeOK, Numbered, NEW f \in Held
  PROVE  /\ Weights!Refreshed(f) \in [n : Nat, ptr : Held]
         /\ Weights!Refreshed(f).n # 0 /\ (table8.n # 0 => Weights!Refreshed(f).n = table8.n)
         /\ \A e \in Owned : Weights!Refreshed(f).ptr[e] = IF f[e] # Weights!None THEN f[e]
              ELSE table8.ptr[e]
<1>1. Weights!Fresh \in Nat /\ Weights!Fresh # 0
  BY FreshFacts
<1>2. table8 \in [n : Nat, ptr : Held]
  BY DEF WeightsTypeOK
<1> HIDE DEF Weights!Fresh
<1> QED  BY <1>1, <1>2 DEF Weights!Refreshed, Held

LEMMA MaterializedFacts ==
  ASSUME WeightsTypeOK, NEW e \in Owned
  PROVE  /\ Weights!Materialized(e) \in Cells
         /\ cpu[e] # Weights!None => Weights!Materialized(e) = cpu[e]
         /\ cpu[e] = Weights!None /\ weightsEnv.dtype = "int8" => Weights!Materialized(e) = param[e]
         /\ cpu[e] = Weights!None /\ weightsEnv.dtype # "int8" =>
              Weights!Materialized(e) = IF weightsEnv.predequant THEN Float ELSE Packed
<1>1. cpu[e] \in Cells /\ param[e] \in Cells
  BY DEF WeightsTypeOK, Held
<1> QED  BY <1>1, CellFacts DEF Weights!Materialized, Packed, Float
-----------------------------------------------------------------------------
(***************************************************************************)
(* ExpertWeights: every step keeps the types.                              *)
(***************************************************************************)
LEMMA EnvKept ==
  ASSUME Weights!Next
  PROVE  weightsEnv' = weightsEnv
BY DEF Weights!Next, Weights!Loading, Weights!Starting, Weights!Reading, Weights!Loaded,
       Weights!LoadInt8, Weights!LoadFp4, Weights!LoadGguf, Weights!PrepareFp4, Weights!Prepare,
       Weights!StartServer, Weights!EnsureNative, Weights!RunInt8, Weights!RunNative,
           Weights!RunGguf, Weights!RunGgufExperts, Weights!RunReference,
       Weights!StageArena, Weights!StageCache, Weights!Release, Weights!ServerReads

LEMMA MaterializeInt8Types ==
  ASSUME WeightsTypeOK, Numbered, NEW ids, ids \subseteq Owned, Weights!MaterializeInt8(ids)
  PROVE  /\ param' \in Held /\ cpu' \in Held /\ cache8' \in Held /\ cache4' = cache4
         /\ arena8' \in [n : Nat, on : BOOLEAN] /\ arena4' = arena4
         /\ holds' \subseteq Owned \X Cells
<1> DEFINE slot == Weights!Slot8(Weights!After8.n)
           to == [e \in Owned |-> IF Weights!Allocates8 THEN slot ELSE Weights!Materialized(e)]
<1>1. /\ param \in Held /\ cpu \in Held /\ cache8 \in Held /\ arena8 \in [n : Nat, on : BOOLEAN]
      /\ holds \subseteq Owned \X Cells
  BY DEF WeightsTypeOK
<1>2. Weights!After8 \in [n : Nat, on : BOOLEAN] /\ slot \in Cells
  BY After8Facts, CellFacts
<1>3. to \in Held
  BY <1>2, MaterializedFacts DEF Held
<1>4. /\ arena8' = IF ids = {} THEN arena8 ELSE Weights!After8
      /\ cpu' = [e \in Owned |-> IF e \in ids THEN to[e] ELSE cpu[e]]
      /\ param' = IF Weights!Allocates8 THEN Weights!Released(ids) ELSE param
      /\ cache8' = [e \in Owned |-> IF e \in ids THEN to[e] ELSE cache8[e]]
      /\ holds' = IF Weights!Allocates8 THEN Weights!Copied(holds, ids, param, slot) ELSE holds
      /\ arena4' = arena4 /\ cache4' = cache4
  BY DEF Weights!MaterializeInt8
<1>5. Weights!Released(ids) \in Held
  BY <1>1, CellFacts, PutFacts DEF Weights!Released
<1>6. Weights!Copied(holds, ids, param, slot) \subseteq Owned \X Cells
  BY <1>1, <1>2, CopiedFacts
<1>7. cpu' \in Held /\ cache8' \in Held
  <2> HIDE DEF to
  <2> QED  BY <1>1, <1>3, <1>4 DEF Held
<1> QED  BY <1>1, <1>2, <1>4, <1>5, <1>6, <1>7

LEMMA Materialize4Types ==
  ASSUME WeightsTypeOK, NEW ids, ids \subseteq Owned, Weights!Materialize4(ids)
  PROVE  /\ param' \in Held /\ cpu' \in Held /\ cache4' \in Held
         /\ arena4' \in [there : BOOLEAN, on : BOOLEAN]
         /\ Weights!Holds4(ids) \subseteq Owned \X Cells
<1>1. /\ param \in Held /\ cpu \in Held /\ cache4 \in Held
      /\ arena4 \in [there : BOOLEAN, on : BOOLEAN]
      /\ holds \subseteq Owned \X Cells
  BY DEF WeightsTypeOK
<1>2. Weights!After4 \in [there : BOOLEAN, on : BOOLEAN]
  BY After4Facts
<1>3. Weights!Released(ids) \in Held /\ Weights!Put(cpu, ids, Weights!Slot4) \in Held
    /\ Weights!Put(cache4, ids, Weights!Slot4) \in Held
  BY <1>1, CellFacts, PutFacts DEF Weights!Released
<1>4. Weights!Copied(holds, ids, param, Weights!Slot4) \subseteq Owned \X Cells
  BY <1>1, CellFacts, CopiedFacts
<1> QED  BY <1>1, <1>2, <1>3, <1>4 DEF Weights!Materialize4, Weights!Holds4

LEMMA ConvertExpertsTypes ==
  ASSUME WeightsTypeOK, Numbered, NEW ids, ids \subseteq Owned, Weights!ConvertExperts(ids)
  PROVE  /\ param' \in Held /\ cpu' \in Held /\ cache8' \in Held /\ cache4' \in Held
         /\ arena8' \in [n : Nat, on : BOOLEAN] /\ arena4' \in [there : BOOLEAN, on : BOOLEAN]
         /\ holds' \subseteq Owned \X Cells
<1> DEFINE places == Weights!Missing(cache4, ids)
           can == Weights!Allocates4 /\ weightsEnv.cuda /\ ids # {}
           to == IF Weights!Allocates8 THEN Weights!Slot8(Weights!After8.n)
               ELSE Weights!Cell("private", Weights!Fresh)
<1>1. /\ Weights!Materialize4(places)
      /\ arena8' = IF can THEN Weights!After8 ELSE arena8
      /\ cache8' = IF can THEN Weights!Put(cache8, ids, to) ELSE cache8
      /\ holds' = IF can THEN Weights!Copied(Weights!Holds4(places), ids, cache4', to)
           ELSE Weights!Holds4(places)
  BY DEF Weights!ConvertExperts
<1>2. places \subseteq Owned
  BY DEF Weights!Missing
<1>3. /\ param' \in Held /\ cpu' \in Held /\ cache4' \in Held
      /\ arena4' \in [there : BOOLEAN, on : BOOLEAN]
      /\ Weights!Holds4(places) \subseteq Owned \X Cells
  BY <1>1, <1>2, Materialize4Types
<1>4. cache8 \in Held /\ arena8 \in [n : Nat, on : BOOLEAN]
  BY DEF WeightsTypeOK
<1>5. Weights!After8 \in [n : Nat, on : BOOLEAN] /\ to \in Cells
  BY After8Facts, FreshFacts, CellFacts
<1>6. Weights!Put(cache8, ids, to) \in Held
  BY <1>4, <1>5, PutFacts
<1>7. Weights!Copied(Weights!Holds4(places), ids, cache4', to) \subseteq Owned \X Cells
  BY <1>3, <1>5, CopiedFacts
<1> HIDE DEF places, can, to
<1> QED  BY <1>1, <1>3, <1>4, <1>5, <1>6, <1>7

LEMMA ConvertArenaTypes ==
  ASSUME WeightsTypeOK, Numbered, Weights!ConvertArena
  PROVE  /\ param' \in Held /\ cpu' \in Held /\ cache8' \in Held /\ cache4' \in Held
         /\ arena8' \in [n : Nat, on : BOOLEAN] /\ arena4' \in [there : BOOLEAN, on : BOOLEAN]
         /\ holds' \subseteq Owned \X Cells
<1>1. /\ param \in Held /\ cpu \in Held /\ cache8 \in Held /\ cache4 \in Held
      /\ arena4 \in [there : BOOLEAN, on : BOOLEAN] /\ holds \subseteq Owned \X Cells
  BY DEF WeightsTypeOK
<1>2. Weights!Fresh \in Nat /\ Weights!Slot8(Weights!Fresh) \in Cells
  BY FreshFacts, CellFacts
<1>3. Weights!Put(cache8, Owned, Weights!Slot8(Weights!Fresh)) \in Held
  BY <1>1, <1>2, PutFacts
<1>4. Weights!Copied(holds, Owned, cache4, Weights!Slot8(Weights!Fresh)) \subseteq Owned \X Cells
  BY <1>1, <1>2, CopiedFacts
<1>5. [n |-> Weights!Fresh, on |-> TRUE] \in [n : Nat, on : BOOLEAN]
  BY <1>2
<1> QED  BY <1>1, <1>3, <1>4, <1>5 DEF Weights!ConvertArena

LEMMA PrepareInt8Types ==
  ASSUME WeightsTypeOK, Numbered, NEW ids, ids \subseteq Owned, NEW all,
      Weights!PrepareInt8(ids, all)
  PROVE  /\ param' \in Held /\ cpu' \in Held /\ cache8' \in Held /\ cache4' \in Held
         /\ arena8' \in [n : Nat, on : BOOLEAN] /\ arena4' \in [there : BOOLEAN, on : BOOLEAN]
         /\ holds' \subseteq Owned \X Cells /\ prep8' \in BOOLEAN
         /\ table8' \in [n : Nat, ptr : Held]
<1>1. /\ param \in Held /\ cpu \in Held /\ cache8 \in Held /\ cache4 \in Held
      /\ arena8 \in [n : Nat, on : BOOLEAN] /\ arena4 \in [there : BOOLEAN, on : BOOLEAN]
      /\ holds \subseteq Owned \X Cells
  BY DEF WeightsTypeOK
<1>2. Weights!Missing(cache8, ids) \subseteq Owned
  BY DEF Weights!Missing
<1>3. /\ param' \in Held /\ cpu' \in Held /\ cache8' \in Held /\ cache4' \in Held
      /\ arena8' \in [n : Nat, on : BOOLEAN] /\ arena4' \in [there : BOOLEAN, on : BOOLEAN]
      /\ holds' \subseteq Owned \X Cells
  <2>1. CASE UNCHANGED <<arena4, cpu, param, cache4, arena8, cache8, holds>>
    BY <1>1, <2>1
  <2>2. CASE Weights!ConvertArena
    BY <2>2, ConvertArenaTypes
  <2>3. CASE Weights!ConvertExperts(Weights!Missing(cache8, ids))
    BY <1>2, <2>3, ConvertExpertsTypes
  <2>4. CASE Weights!MaterializeInt8(Weights!Missing(cache8, ids))
    BY <1>1, <1>2, <2>4, MaterializeInt8Types
  <2> QED  BY <2>1, <2>2, <2>3, <2>4 DEF Weights!PrepareInt8
<1>4. table8' = Weights!Refreshed(cache8') /\ prep8' = (Weights!Missing(cache8', ids) = {})
  BY DEF Weights!PrepareInt8
<1>5. table8' \in [n : Nat, ptr : Held]
  BY <1>3, <1>4, RefreshedFacts
<1> QED  BY <1>3, <1>4, <1>5

LEMMA MaterializeTypes ==
  ASSUME WeightsTypeOK, Weights!Materialize
  PROVE  cpu' \in Held /\ holds' \subseteq Owned \X Cells
<1>1. \A e \in Owned : Weights!Materialized(e) \in Cells
  BY MaterializedFacts
<1>2. holds \subseteq Owned \X Cells
  BY DEF WeightsTypeOK
<1>3. cpu' = [e \in Owned |-> Weights!Materialized(e)]
  BY DEF Weights!Materialize
<1>4. holds' = holds \cup {<<e, Weights!Materialized(e)>> : e \in {d \in Owned :
                   Weights!Materialized(d).at \in {"float", "packed"} /\ <<d, param[d]>> \in holds}}
  BY DEF Weights!Materialize
<1> HIDE DEF Weights!Materialized, Cells
<1>5. \A e \in Owned : <<e, Weights!Materialized(e)>> \in Owned \X Cells
  BY <1>1
<1>6. {<<e, Weights!Materialized(e)>> : e \in {d \in Owned :
                   Weights!Materialized(d).at \in {"float", "packed"} /\ <<d, param[d]>> \in holds}}
        \subseteq Owned \X Cells
  BY <1>5
<1> QED  BY <1>1, <1>2, <1>3, <1>4, <1>6 DEF Held

LEMMA WeightsTypeStep ==
  ASSUME WeightsTypeOK, Numbered, Weights!Next
  PROVE  WeightsTypeOK'
<1> USE DEF Weights!arenas, Weights!tables
<1>0. weightsEnv' = weightsEnv
  BY EnvKept
<1>1. ASSUME NEW e \in Owned, Weights!LoadInt8(e)  PROVE WeightsTypeOK'
  <2> DEFINE to == IF Weights!Bound8
      THEN Weights!BoundTarget(e, Weights!Slot8(Weights!After8.n)) ELSE Weights!Own
  <2>1. Weights!After8 \in [n : Nat, on : BOOLEAN] /\ Weights!Slot8(Weights!After8.n) \in Cells
      /\ to \in Cells
    BY After8Facts, CellFacts DEF Weights!BoundTarget
  <2>2. /\ arena8' = IF weightsEnv.model THEN Weights!After8 ELSE arena8
        /\ target' = [target EXCEPT ![e] = to]
        /\ param' = IF Weights!Bound8
             THEN [param EXCEPT ![e] = Weights!Slot8(Weights!After8.n)] ELSE param
        /\ cache8' = IF Weights!Bound8
             THEN [cache8 EXCEPT ![e] = Weights!Slot8(Weights!After8.n)] ELSE cache8
        /\ holds' = holds \cup {<<e, to>>}
        /\ UNCHANGED <<weightsEnv, step, cpu, cache4, arena4, prep8, Weights!tables, server>>
    BY <1>1 DEF Weights!LoadInt8
  <2> HIDE DEF to
  <2> QED  BY <2>1, <2>2 DEF WeightsTypeOK, Held
<1>2. ASSUME NEW e \in Owned, Weights!LoadFp4(e)  PROVE WeightsTypeOK'
  <2> DEFINE to == IF Weights!Bound4 THEN Weights!BoundTarget(e, Weights!Slot4) ELSE Weights!Own
  <2>1. Weights!After4 \in [there : BOOLEAN, on : BOOLEAN] /\ Weights!Slot4 \in Cells
      /\ to \in Cells
    BY After4Facts, CellFacts DEF Weights!BoundTarget
  <2>2. /\ arena4' = IF weightsEnv.model THEN Weights!After4 ELSE arena4
        /\ target' = [target EXCEPT ![e] = to]
        /\ param' = IF Weights!Bound4 THEN Weights!Released({e}) ELSE param
        /\ cpu' = IF Weights!Bound4 THEN [cpu EXCEPT ![e] = Weights!Slot4] ELSE cpu
        /\ cache4' = IF Weights!Bound4 THEN [cache4 EXCEPT ![e] = Weights!Slot4] ELSE cache4
        /\ holds' = holds \cup {<<e, to>>}
        /\ UNCHANGED <<weightsEnv, step, cache8, arena8, prep8, Weights!tables, server>>
    BY <1>2 DEF Weights!LoadFp4
  <2>3. Weights!Released({e}) \in Held
    BY CellFacts, PutFacts DEF Weights!Released, WeightsTypeOK
  <2> HIDE DEF to
  <2>4. target' \in Held /\ cpu' \in Held /\ cache4' \in Held
    BY <2>1, <2>2 DEF WeightsTypeOK, Held
  <2>5. holds' \subseteq Owned \X Cells /\ param' \in Held
    BY <2>1, <2>2, <2>3 DEF WeightsTypeOK
  <2> QED  BY <2>1, <2>2, <2>4, <2>5 DEF WeightsTypeOK
<1>3. ASSUME NEW e \in Owned, Weights!LoadGguf(e)  PROVE WeightsTypeOK'
  <2>1. Weights!File \in Cells /\ Weights!None \in Cells
    BY CellFacts
  <2>2. /\ target' = [target EXCEPT ![e] = Weights!File]
        /\ param' = [param EXCEPT ![e] = Weights!None]
        /\ holds' = holds \cup {<<e, Weights!File>>}
        /\ UNCHANGED <<weightsEnv, step, cpu, Weights!arenas, Weights!tables, server>>
    BY <1>3 DEF Weights!LoadGguf
  <2>3. target' \in Held /\ param' \in Held
    BY <2>1, <2>2 DEF WeightsTypeOK, Held
  <2>4. holds' \subseteq Owned \X Cells
    BY <2>1, <2>2 DEF WeightsTypeOK
  <2> QED  BY <2>2, <2>3, <2>4 DEF WeightsTypeOK
<1>4. CASE Weights!Loaded
  BY <1>4 DEF Weights!Loaded, WeightsTypeOK
<1>5. CASE Weights!PrepareFp4
  <2>1. Weights!Missing(cache4, Owned) \subseteq Owned
    BY DEF Weights!Missing
  <2>2. /\ cpu' \in Held /\ param' \in Held /\ cache4' \in Held
        /\ arena4' \in [there : BOOLEAN, on : BOOLEAN] /\ holds' \subseteq Owned \X Cells
    <3>1. CASE Weights!Materialize4(Weights!Missing(cache4, Owned))
        /\ holds' = Weights!Holds4(Weights!Missing(cache4, Owned))
      BY <2>1, <3>1, Materialize4Types
    <3>2. CASE UNCHANGED <<arena4, cpu, param, cache4, holds>>
      BY <3>2 DEF WeightsTypeOK
    <3> QED  BY <1>5, <3>1, <3>2 DEF Weights!PrepareFp4
  <2> QED  BY <1>5, <2>2 DEF Weights!PrepareFp4, WeightsTypeOK
<1>6. CASE Weights!Prepare
  <2>1. CASE weightsEnv.dtype = "gguf"
    BY <1>6, <2>1 DEF Weights!Prepare, WeightsTypeOK
  <2>2. CASE weightsEnv.dtype # "gguf"
    <3>1. Weights!PrepareInt8(Owned, TRUE)
      BY <1>6, <2>2 DEF Weights!Prepare
    <3>2. step' = "server" /\ UNCHANGED <<weightsEnv, target, native, table4, server>>
      BY <1>6 DEF Weights!Prepare
    <3> QED  BY <3>1, <3>2, PrepareInt8Types DEF WeightsTypeOK
  <2> QED  BY <2>1, <2>2
<1>7. CASE Weights!StartServer
  BY <1>7 DEF Weights!StartServer, WeightsTypeOK
<1>8. CASE Weights!EnsureNative
  <2>1. /\ cpu' \in Held /\ holds' \subseteq Owned \X Cells
    <3>1. CASE Weights!Materialize
      BY <3>1, MaterializeTypes
    <3>2. CASE UNCHANGED <<cpu, holds>>
      BY <3>2 DEF WeightsTypeOK
    <3> QED  BY <1>8, <3>1, <3>2 DEF Weights!EnsureNative
  <2>2. \A e \in Owned : Weights!Materialized(e) \in Cells
    BY MaterializedFacts
  <2>3. native' \in [ready : BOOLEAN, on : BOOLEAN, int8 : BOOLEAN]
    <3>1. native \in [ready : BOOLEAN, on : BOOLEAN, int8 : BOOLEAN] /\ weightsEnv.cpu8 \in BOOLEAN
      BY DEF WeightsTypeOK, Weights!AllSettings
    <3>2. CASE native' = [native EXCEPT !.ready = TRUE]
      BY <3>1, <3>2
    <3>3. CASE native' = [ready |-> TRUE, on |-> TRUE, int8 |-> weightsEnv.cpu8
        \/ weightsEnv.dtype = "int8"]
      <4> DEFINE b == weightsEnv.cpu8 \/ weightsEnv.dtype = "int8"
      <4>1. b \in BOOLEAN
        OBVIOUS
      <4> HIDE DEF b
      <4> QED  BY <3>3, <4>1
    <3> QED  BY <1>8, <3>2, <3>3 DEF Weights!EnsureNative
  <2>4. table4' \in Held
    <3>1. CASE table4' = table4
      BY <3>1 DEF WeightsTypeOK
    <3>2. CASE table4' = [e \in Owned |-> IF weightsEnv.dtype = "fp4"
        THEN Weights!Materialized(e) ELSE Weights!None]
      BY <2>2, <3>2, CellFacts DEF Held
    <3> QED  BY <1>8, <3>1, <3>2 DEF Weights!EnsureNative
  <2>5. UNCHANGED <<weightsEnv, step, target, param, Weights!arenas, table8, server>>
    BY <1>8 DEF Weights!EnsureNative
  <2> QED  BY <2>1, <2>3, <2>4, <2>5 DEF WeightsTypeOK
<1>9. ASSUME NEW ids \in Weights!Some, Weights!RunInt8(ids)  PROVE WeightsTypeOK'
  <2>1. cache8 \in Held
    BY DEF WeightsTypeOK
  <2>2. table8' \in [n : Nat, ptr : Held]
    BY <1>9, <2>1, RefreshedFacts DEF Weights!RunInt8
  <2> QED  BY <1>9, <2>2 DEF Weights!RunInt8, WeightsTypeOK
<1>10. ASSUME NEW ids \in Weights!Some, Weights!RunNative(ids) \/ Weights!RunGguf(ids)
    \/ Weights!RunGgufExperts(ids) \/ Weights!ServerReads(ids)
       PROVE  WeightsTypeOK'
  BY <1>10 DEF Weights!RunNative, Weights!RunGguf, Weights!RunGgufExperts, Weights!ServerReads,
               WeightsTypeOK
<1>11. ASSUME NEW ids \in Weights!Some, Weights!RunReference(ids)  PROVE WeightsTypeOK'
  <2>1. Weights!Materialize /\ UNCHANGED <<weightsEnv, step, target, param, Weights!arenas,
                                           Weights!tables, server>>
    BY <1>11 DEF Weights!RunReference
  <2> QED  BY <2>1, MaterializeTypes DEF WeightsTypeOK
<1>12. ASSUME NEW ids \in Weights!Some, NEW fp4 \in BOOLEAN, Weights!StageArena(ids, fp4)
    PROVE WeightsTypeOK'
  BY <1>12 DEF Weights!StageArena, WeightsTypeOK
<1>13. ASSUME NEW ids \in Weights!Some, NEW fp4 \in BOOLEAN, Weights!StageCache(ids, fp4)
    PROVE WeightsTypeOK'
  <2>1. Weights!PrepareInt8(ids, FALSE) /\ UNCHANGED <<weightsEnv, step, target, native, table4,
                                                       server>>
    BY <1>13 DEF Weights!StageCache
  <2>2. ids \subseteq Owned
    BY DEF Weights!Some
  <2> QED  BY <2>1, <2>2, PrepareInt8Types DEF WeightsTypeOK
<1>14. CASE Weights!Release
  <2>1. Weights!NoCells \in Held /\ Weights!NoTable \in [n : Nat, ptr : Held]
    BY CellFacts DEF Weights!NoCells, Weights!NoTable, Held
  <2>2. holds' \subseteq holds
    BY <1>14 DEF Weights!Release
  <2>3. arena8' \in [n : Nat, on : BOOLEAN]
    BY <1>14 DEF Weights!Release, WeightsTypeOK
  <2>4. /\ cache8' = Weights!NoCells /\ prep8' = FALSE /\ table8' = Weights!NoTable
        /\ UNCHANGED <<weightsEnv, step, target, param, cpu, cache4, arena4, native, table4,
                       server>>
    BY <1>14 DEF Weights!Release
  <2> QED  BY <2>1, <2>2, <2>3, <2>4 DEF WeightsTypeOK
<1> QED  BY <1>1, <1>2, <1>3, <1>4, <1>5, <1>6, <1>7, <1>8, <1>9, <1>10, <1>11, <1>12, <1>13, <1>14
         DEF Weights!Next, Weights!Loading, Weights!Starting, Weights!Reading

-----------------------------------------------------------------------------
(***************************************************************************)
(* ExpertWeights: an int8 checkpoint, without releases of its arena.       *)
(***************************************************************************)
LEMMA DifferentCells ==
  /\ Weights!None # Weights!Own /\ Weights!None # Weights!File /\ Weights!None # Weights!Slot4
  /\ Weights!None # Packed /\ Weights!None # Float
  /\ Weights!Own # Weights!File /\ Weights!Own # Weights!Slot4 /\ Weights!Own # Packed
  /\ Weights!Own # Float /\ Weights!File # Weights!Slot4
  /\ Weights!Slot4 # Packed /\ Weights!Slot4 # Float /\ Packed # Float
  /\ \A n \in Nat : /\ Weights!Slot8(n) # Weights!None /\ Weights!Slot8(n) # Weights!Own
                    /\ Weights!Slot8(n) # Weights!File /\ Weights!Slot8(n) # Weights!Slot4
                    /\ Weights!Slot8(n) # Packed /\ Weights!Slot8(n) # Float
                    /\ Weights!Cell("private", n) # Weights!None
                    /\ Weights!Cell("private", n) # Weights!File
BY DEF Weights!Cell, Weights!None, Weights!Own, Weights!File, Weights!Slot4, Packed, Float,
       Weights!Slot8

LEMMA Int8Load ==
  ASSUME WeightsTypeOK, Numbered, Int8Inv, weightsEnv.dtype = "int8", weightsEnv' = weightsEnv,
         NEW e \in Owned, Weights!LoadInt8(e)
  PROVE  Int8Inv' /\ Numbered'
<1>1. /\ step = "load" /\ e \in Weights!Unloaded /\ step' = "load" /\ ~Served /\ ~Served'
      /\ UNCHANGED <<cpu, cache4, arena4, prep8, native, table4, table8, server, misread>>
  BY DEF Weights!LoadInt8, Served, Weights!tables
<1>2. Raw(e)
  BY <1>1 DEF Int8Inv, Weights!Unloaded, Loaded8
<1>3. /\ target \in Held /\ param \in Held /\ cache8 \in Held /\ arena8 \in [n : Nat, on : BOOLEAN]
      /\ weightsEnv.model \in BOOLEAN /\ weightsEnv.pins \in BOOLEAN
      /\ weightsEnv.arena8 \in BOOLEAN
      /\ holds \subseteq Owned \X Cells
  BY DEF WeightsTypeOK, Weights!AllSettings
<1>4. /\ arena8.on => weightsEnv.arena8
      /\ arena8.n # 0 => weightsEnv.model /\ Slots8
      /\ Slots8 => arena8.on
      /\ \A d \in Owned : Raw(d) \/ Loaded8(d)
  BY <1>1 DEF Int8Inv
<1>5. CASE weightsEnv.model /\ Slots8
  <2> DEFINE slot == Weights!Slot8(Weights!After8.n)
  <2>1. /\ Weights!Allocates8 /\ Weights!Bound8 /\ Weights!After8 \in [n : Nat, on : BOOLEAN]
        /\ Weights!After8.n # 0 /\ Weights!After8.on
        /\ arena8.n # 0 => Weights!After8 = arena8
    BY <1>4, <1>5, After8Facts DEF Weights!Bound8, Slots8
  <2>2. slot \in Cells /\ slot.n = Weights!After8.n /\ slot # Weights!File
    BY <2>1, CellFacts, DifferentCells
  <2>3. /\ arena8' = Weights!After8 /\ target' = [target EXCEPT ![e] = slot]
        /\ param' = [param EXCEPT ![e] = slot] /\ cache8' = [cache8 EXCEPT ![e] = slot]
        /\ holds' = holds \cup {<<e, slot>>}
    BY <1>5, <2>1 DEF Weights!LoadInt8, Weights!BoundTarget
  <2> HIDE DEF slot
  <2>4. Loaded8(e)'
    BY <1>1, <1>2, <1>3, <1>5, <2>1, <2>3 DEF Loaded8, Slots8, Held, Raw, Untouched, slot
  <2>5. ASSUME NEW d \in Owned, d # e  PROVE (Raw(d) \/ Loaded8(d))'
    <3>1. target'[d] = target[d] /\ param'[d] = param[d] /\ cache8'[d] = cache8[d]
      BY <1>3, <2>3, <2>5 DEF Held
    <3>2. \A c : <<d, c>> \in holds' <=> <<d, c>> \in holds
      BY <2>3, <2>5
    <3>3. CASE Raw(d)
      BY <1>1, <3>1, <3>2, <3>3 DEF Raw, Untouched
    <3>4. CASE Loaded8(d)
      BY <1>1, <1>5, <2>1, <2>3, <3>1, <3>2, <3>4 DEF Loaded8, Slots8
    <3> QED  BY <1>4, <3>3, <3>4
  <2>6. \A d \in Owned : target'[d] # Weights!File
    BY <1>3, <2>2, <2>3 DEF Int8Inv, Held
  <2>7. Int8Inv'
    BY <1>1, <1>4, <1>5, <2>1, <2>3, <2>4, <2>5, <2>6 DEF Int8Inv, Slots8, Served
  <2>8. Numbered'
    <3>1. ASSUME NEW p \in holds'  PROVE p[2].n \in {0, arena8'.n, cache8'[p[1]].n}
      <4>1. CASE p \in holds
        <5>1. p[2].n \in {0, arena8.n, cache8[p[1]].n} /\ p[1] \in Owned
          BY <1>3, <4>1 DEF Numbered
        <5>2. arena8.n = 0 \/ arena8'.n = arena8.n
          BY <2>1, <2>3
        <5>3. p[1] # e => cache8'[p[1]] = cache8[p[1]]
          BY <1>3, <2>3, <5>1 DEF Held
        <5>4. cache8[e].n = 0
          BY <1>2, CellFacts DEF Raw, Untouched
        <5> QED  BY <5>1, <5>2, <5>3, <5>4
      <4>2. CASE p = <<e, slot>>
        BY <2>2, <2>3, <4>2
      <4> QED  BY <2>3, <3>1, <4>1, <4>2
    <3>2. ASSUME NEW d \in Owned,
        NEW c \in {target'[d], param'[d], cpu'[d], cache4'[d], table8'.ptr[d]}
          PROVE  c.n \in {0, arena8'.n, cache8'[d].n}
      <4>1. CASE d = e
        <5>1. target'[e] = slot /\ param'[e] = slot
          BY <1>3, <2>3 DEF Held
        <5>2. cpu'[e].n = 0 /\ cache4'[e].n = 0
          BY <1>1, <1>2, CellFacts DEF Raw, Untouched
        <5>3. table8'.ptr[e].n \in {0, arena8.n}
          BY <1>1, <1>2, CellFacts DEF Numbered, Raw, Untouched
        <5>4. arena8.n \in {0, arena8'.n}
          BY <2>1, <2>3
        <5> QED  BY <2>2, <2>3, <3>2, <4>1, <5>1, <5>2, <5>3, <5>4
      <4>2. CASE d # e
        <5>1. target'[d] = target[d] /\ param'[d] = param[d] /\ cache8'[d] = cache8[d]
          BY <1>3, <2>3, <4>2 DEF Held
        <5>2. c.n \in {0, arena8.n, cache8[d].n}
          BY <1>1, <3>2, <5>1 DEF Numbered
        <5>3. arena8.n \in {0, arena8'.n}
          BY <2>1, <2>3
        <5> QED  BY <5>1, <5>2, <5>3
      <4> QED  BY <4>1, <4>2
    <3> QED  BY <3>1, <3>2 DEF Numbered
  <2> QED  BY <2>7, <2>8
<1>6. CASE ~(weightsEnv.model /\ Slots8)
  <2>1. ~Weights!Bound8
    BY <1>4, <1>6, After8Facts DEF Weights!Bound8, Slots8
  <2>2. /\ arena8' = IF weightsEnv.model THEN Weights!After8 ELSE arena8
        /\ target' = [target EXCEPT ![e] = Weights!Own] /\ param' = param /\ cache8' = cache8
        /\ holds' = holds \cup {<<e, Weights!Own>>}
    BY <2>1 DEF Weights!LoadInt8
  <2>3. target' = target
    BY <1>2, <1>3, <2>2 DEF Held, Raw
  <2>4. arena8'.n = arena8.n /\ (arena8'.on => arena8.on) /\ (Slots8 => arena8'.on)
    <3>1. CASE weightsEnv.model
      <4>1. ~Slots8 /\ ~Weights!Allocates8
        BY <1>6, <2>1, <3>1 DEF Weights!Bound8
      <4> QED  BY <2>2, <3>1, <4>1, After8Facts
    <3>2. CASE ~weightsEnv.model
      BY <1>4, <2>2, <3>2
    <3> QED  BY <3>1, <3>2
  <2>5. Loaded8(e)'
    BY <1>1, <1>2, <1>6, <2>2, <2>3 DEF Loaded8, Raw, Untouched, Slots8
  <2>6. ASSUME NEW d \in Owned, d # e  PROVE (Raw(d) \/ Loaded8(d))'
    <3>2. \A c : <<d, c>> \in holds' <=> <<d, c>> \in holds
      BY <2>2, <2>6
    <3> QED  BY <1>1, <1>4, <1>6, <2>2, <2>3, <3>2 DEF Loaded8, Raw, Untouched, Slots8
  <2>7. Int8Inv'
    BY <1>1, <1>4, <1>6, <2>2, <2>3, <2>4, <2>5, <2>6 DEF Int8Inv, Slots8, Served
  <2>8. Numbered'
    <3>1. \A p \in holds' : p[2].n \in {0, arena8'.n, cache8'[p[1]].n}
      BY <2>2, <2>4, CellFacts DEF Numbered
    <3> QED  BY <1>1, <2>2, <2>3, <2>4, <3>1 DEF Numbered
  <2> QED  BY <2>7, <2>8
<1> QED  BY <1>5, <1>6

\* Nothing changes but what is noted elsewhere.
LEMMA Int8Loaded ==
  ASSUME WeightsTypeOK, Numbered, Int8Inv, weightsEnv.dtype = "int8", weightsEnv' = weightsEnv,
         Weights!Loaded \/ Weights!PrepareFp4 \/ Weights!StartServer
  PROVE  Int8Inv' /\ Numbered'
<1>1. /\ UNCHANGED <<target, param, cpu, cache8, cache4, arena8, arena4, prep8, native, table8,
                     holds, misread>>
  BY DEF Weights!Loaded, Weights!PrepareFp4, Weights!StartServer, Weights!arenas, Weights!tables
<1>2. Numbered'
  BY <1>1 DEF Numbered
<1>3. CASE Weights!Loaded
  <2>1. step = "load" /\ step' = "fp4" /\ Weights!Unloaded = {} /\ server' = server
    BY <1>3 DEF Weights!Loaded
  <2>2. \A e \in Owned : Loaded8(e)
    BY <2>1 DEF Int8Inv, Weights!Unloaded, Raw
  <2> QED  BY <1>1, <1>2, <2>1, <2>2 DEF Int8Inv, Loaded8, Untouched, Slots8, Served
<1>4. CASE Weights!PrepareFp4
  <2>1. step = "fp4" /\ step' = "int8" /\ server' = server
    BY <1>4 DEF Weights!PrepareFp4
  <2> QED  BY <1>1, <1>2, <2>1 DEF Int8Inv, Loaded8, Untouched, Slots8, Served
<1>5. CASE Weights!StartServer
  <2>1. step = "server" /\ step' = "serve" /\ server' \in {0, table8.n}
    BY <1>5 DEF Weights!StartServer
  <2> QED  BY <1>1, <1>2, <2>1 DEF Int8Inv, Prepared8, Slots8, Served
<1> QED  BY <1>3, <1>4, <1>5

LEMMA Int8Prepare ==
  ASSUME WeightsTypeOK, Numbered, Int8Inv, weightsEnv.dtype = "int8", weightsEnv' = weightsEnv,
      Weights!Prepare
  PROVE  Int8Inv' /\ Numbered'
<1>1. /\ step = "int8" /\ step' = "server" /\ ~Served /\ Served'
      /\ UNCHANGED <<target, native, table4, server, misread>>
      /\ Weights!PrepareInt8(Owned, TRUE)
  BY DEF Weights!Prepare, Served
<1>2. /\ ~arena4.there
      /\ arena8.n # 0 => weightsEnv.model /\ Slots8
      /\ arena8.on => weightsEnv.arena8
      /\ Slots8 => arena8.on
      /\ ~native.on /\ server = 0 /\ misread = {}
      /\ \A e \in Owned : Loaded8(e) /\ target[e] # Weights!File
  BY <1>1 DEF Int8Inv
<1>3. /\ param \in Held /\ cpu \in Held /\ cache8 \in Held /\ arena8 \in [n : Nat, on : BOOLEAN]
      /\ target \in Held /\ cache4 \in Held /\ table8 \in [n : Nat, ptr : Held]
      /\ weightsEnv.model \in BOOLEAN /\ weightsEnv.pins \in BOOLEAN
      /\ weightsEnv.arena8 \in BOOLEAN
      /\ holds \subseteq Owned \X Cells
  BY DEF WeightsTypeOK, Weights!AllSettings
<1>4. table8' = Weights!Refreshed(cache8') /\ prep8' = (Weights!Missing(cache8', Owned) = {})
    /\ cache8' \in Held
  BY <1>1, PrepareInt8Types DEF Weights!PrepareInt8
<1>5. /\ table8' \in [n : Nat, ptr : Held]
      /\ \A e \in Owned : cache8'[e] # Weights!None => table8'.ptr[e] = cache8'[e]
  BY <1>4, RefreshedFacts
<1>6. ~Weights!FullArena4
  BY <1>2 DEF Weights!FullArena4
<1>7. UNCHANGED <<arena4, cache4>>
  BY <1>1, <1>6 DEF Weights!PrepareInt8, Weights!MaterializeInt8
<1>8. /\ arena8'.n # 0 => Slots8
      /\ \A e \in Owned : Prepared8(e)'
      /\ arena8'.n = arena8.n \/ arena8.n = 0
      /\ \A p \in holds' : p \in holds \/ p[2].n = arena8'.n
  <2>1. CASE Weights!FullArena8
    <3>1. UNCHANGED <<arena4, cpu, param, cache4, arena8, cache8, holds>>
      BY <1>1, <2>1 DEF Weights!PrepareInt8
    <3>2. ASSUME NEW e \in Owned  PROVE Prepared8(e)'
      <4>1. cache8[e] # Weights!None
        BY <2>1 DEF Weights!FullArena8, Weights!Missing
      <4>2. weightsEnv.model /\ Slots8
        BY <1>2, <4>1 DEF Loaded8, Untouched
      <4> QED  BY <1>2, <1>5, <3>1, <4>1, <4>2 DEF Loaded8, Prepared8, Slots8
    <3> QED  BY <1>2, <3>1, <3>2
  <2>2. CASE ~Weights!FullArena8
    <3> DEFINE new == Weights!Missing(cache8, Owned)
               slot == Weights!Slot8(Weights!After8.n)
    <3>1. Weights!MaterializeInt8(new)
      BY <1>1, <1>6, <2>2 DEF Weights!PrepareInt8
    <3>2. CASE weightsEnv.model /\ Slots8
      <4>1. \A e \in Owned : cache8[e] # Weights!None /\ arena8.n # 0 /\ arena8.on
        BY <1>2, <1>3, <3>2, DifferentCells DEF Loaded8
      <4>2. Owned = {}
        BY <2>2, <4>1 DEF Weights!FullArena8, Weights!Missing
      <4>3. new = {}
        BY <4>2 DEF Weights!Missing
      <4>4. arena8' = arena8
        BY <3>1, <4>3 DEF Weights!MaterializeInt8
      <4>5. holds' \subseteq Owned \X Cells
        BY <1>1, PrepareInt8Types
      <4> QED  BY <1>2, <4>2, <4>4, <4>5
    <3>3. CASE ~(weightsEnv.model /\ Slots8)
      <4>1. \A e \in Owned : /\ target[e] = Weights!Own /\ param[e] = Weights!Own
                             /\ cpu[e] = Weights!None
                             /\ cache8[e] = Weights!None /\ cache4[e] = Weights!None
                             /\ <<e, Weights!Own>> \in holds
        BY <1>2, <3>3 DEF Loaded8, Untouched
      <4>2. new = Owned /\ arena8.n = 0
        BY <1>2, <3>3, <4>1 DEF Weights!Missing
      <4>3. CASE Slots8
        <5>1. Weights!Allocates8 /\ Weights!After8 \in [n : Nat, on : BOOLEAN]
            /\ Weights!After8.n # 0 /\ Weights!After8.on
          BY <1>2, <4>3, After8Facts DEF Slots8
        <5>2. slot \in Cells /\ slot.n = Weights!After8.n /\ slot # Weights!None
            /\ slot # Weights!Own
          BY <5>1, CellFacts, DifferentCells
        <5>3. /\ arena8' = IF Owned = {} THEN arena8 ELSE Weights!After8
              /\ param' = Weights!Put(param, Owned, Weights!None)
              /\ holds' = Weights!Copied(holds, Owned, param, slot)
          BY <3>1, <4>2, <5>1 DEF Weights!MaterializeInt8, Weights!Released
        <5>4. \A e \in Owned : cpu'[e] = slot /\ cache8'[e] = slot
          BY <3>1, <4>2, <5>1 DEF Weights!MaterializeInt8
        <5>5. \A e \in Owned : param'[e] = Weights!None
          BY <1>3, <5>3, CellFacts, PutFacts
        <5>6. \A e \in Owned : <<e, slot>> \in holds'
          BY <1>3, <4>1, <5>2, <5>3, CopiedFacts
        <5>7. \A e \in Owned : Prepared8(e)'
          BY <1>5, <1>7, <4>1, <4>3, <5>1, <5>2, <5>3, <5>4, <5>5, <5>6 DEF Prepared8, Slots8
        <5>9. holds' \subseteq Owned \X Cells
          BY <1>1, PrepareInt8Types
        <5>10. \A e \in Owned, c \in Cells : <<e, c>> \in holds' => <<e, c>> \in holds \/ c = slot
          <6>1. \A e \in Owned, c \in Cells :
                  <<e, c>> \in Weights!Copied(holds, Owned, param, slot) <=>
                    IF e \in Owned /\ c = slot THEN <<e, param[e]>> \in holds
                        ELSE <<e, c>> \in holds
            <7>1. holds \subseteq Owned \X Cells /\ Owned \subseteq Owned /\ slot \in Cells
              BY <1>3, <5>2
            <7> HIDE DEF slot
            <7> QED  BY <7>1, CopiedFacts, Zenon
          <6> HIDE DEF slot
          <6> QED  BY <5>3, <6>1
        <5>8. ASSUME NEW p \in holds'  PROVE p \in holds \/ p[2] = slot
          <6>1. p = <<p[1], p[2]>> /\ p[1] \in Owned /\ p[2] \in Cells
            BY <5>9
          <6> QED  BY <5>8, <5>10, <6>1
        <5> QED  BY <4>2, <4>3, <5>2, <5>3, <5>7, <5>8, <5>9
      <4>4. CASE ~Slots8
        <5>1. ~Weights!Allocates8 /\ Weights!After8.n = 0
          BY <1>2, <4>2, <4>4, After8Facts DEF Slots8
        <5>2. arena8'.n = 0 /\ param' = param /\ holds' = holds
          BY <3>1, <4>2, <5>1 DEF Weights!MaterializeInt8
        <5>3. \A e \in Owned : Weights!Materialized(e) = Weights!Own
          BY <4>1, MaterializedFacts
        <5>4. \A e \in Owned : cpu'[e] = Weights!Own /\ cache8'[e] = Weights!Own
          BY <3>1, <4>2, <5>1, <5>3 DEF Weights!MaterializeInt8
        <5>5. \A e \in Owned : Prepared8(e)'
          BY <1>5, <1>7, <4>1, <4>4, <5>2, <5>4, DifferentCells DEF Prepared8, Slots8
        <5> QED  BY <4>2, <5>2, <5>5
      <4> QED  BY <4>3, <4>4
    <3> QED  BY <3>2, <3>3
  <2> QED  BY <2>1, <2>2
<1>9. prep8'
  <2>1. \A e \in Owned : cache8'[e] # Weights!None
    <3>1. \A e \in Owned : arena8'.n \in Nat
      BY <1>1, PrepareInt8Types
    <3> QED  BY <1>8, <3>1, DifferentCells DEF Prepared8
  <2> QED  BY <1>4, <2>1 DEF Weights!Missing
<1>10. Int8Inv'
  <2>1. Slots8' = Slots8
    BY DEF Slots8
  <2> QED  BY <1>1, <1>2, <1>7, <1>8, <1>9, <2>1 DEF Int8Inv, Served
<1>11. Numbered'
  <2>1. \A e \in Owned : cache8[e].n \in {0, arena8.n} /\ target[e].n \in {0, arena8.n}
    <3>1. arena8.n \in Nat /\ Weights!Slot8(arena8.n).n = arena8.n
      BY <1>3, CellFacts
    <3>2. Weights!Own.n = 0 /\ Weights!None.n = 0
      BY CellFacts
    <3>3. ASSUME NEW e \in Owned  PROVE cache8[e].n \in {0, arena8.n}
        /\ target[e].n \in {0, arena8.n}
      <4>1. \/ target[e] = Weights!Slot8(arena8.n) /\ cache8[e] = target[e]
            \/ target[e] = Weights!Own /\ cache8[e] = Weights!None
        BY <1>2 DEF Loaded8, Untouched
      <4> QED  BY <3>1, <3>2, <4>1
    <3> QED  BY <3>3
  <2>2. \A p \in holds' : p[2].n \in {0, arena8'.n, cache8'[p[1]].n}
    <3>1. \A p \in holds : p[2].n \in {0, arena8.n} /\ p[1] \in Owned
      BY <1>3, <2>1 DEF Numbered
    <3> QED  BY <1>8, <3>1
  <2>3. ASSUME NEW e \in Owned,
               NEW c \in {target'[e], param'[e], cpu'[e], cache4'[e], table8'.ptr[e]}
        PROVE  c.n \in {0, arena8'.n, cache8'[e].n}
    <3>1. /\ param'[e] \in {Weights!None, Weights!Own, cache8'[e]}
          /\ cpu'[e] \in {Weights!None, Weights!Own, cache8'[e]}
          /\ cache4'[e] = Weights!None /\ table8'.ptr[e] = cache8'[e]
      BY <1>8 DEF Prepared8
    <3>2. target'[e].n \in {0, arena8'.n}
      BY <1>1, <1>8, <2>1
    <3> QED  BY <2>3, <3>1, <3>2, CellFacts
  <2> QED  BY <2>2, <2>3 DEF Numbered
<1> QED  BY <1>10, <1>11

\* What materializing adds are copies of weights that the parameters held.
LEMMA MaterializeFacts ==
  ASSUME WeightsTypeOK, Weights!Materialize
  PROVE  /\ \A e \in Owned : cpu'[e] = Weights!Materialized(e)
         /\ holds \subseteq holds'
         /\ \A p \in holds' : p \in holds \/ (p[1] \in Owned /\ p[2] = Weights!Materialized(p[1]))
         /\ \A e \in Owned : /\ Weights!Materialized(e).at \in {"float", "packed"}
                             /\ <<e, param[e]>> \in holds
                             => <<e, Weights!Materialized(e)>> \in holds'
<1>1. cpu' = [e \in Owned |-> Weights!Materialized(e)]
  BY DEF Weights!Materialize
<1>2. holds' = holds \cup {<<e, Weights!Materialized(e)>> : e \in {d \in Owned :
                   Weights!Materialized(d).at \in {"float", "packed"} /\ <<d, param[d]>> \in holds}}
  BY DEF Weights!Materialize
<1> HIDE DEF Weights!Materialized
<1>3. ASSUME NEW p \in holds'  PROVE p \in holds
    \/ (p[1] \in Owned /\ p[2] = Weights!Materialized(p[1]))
  <2>1. CASE p \in {<<e, Weights!Materialized(e)>> : e \in {d \in Owned :
                   Weights!Materialized(d).at \in {"float", "packed"} /\ <<d, param[d]>> \in holds}}
    <3>1. PICK e \in {d \in Owned : Weights!Materialized(d).at \in {"float", "packed"}
                                      /\ <<d, param[d]>> \in holds} : p = <<e,
                                           Weights!Materialized(e)>>
      BY <2>1
    <3>2. e \in Owned /\ p[1] = e /\ p[2] = Weights!Materialized(e)
      BY <3>1
    <3> QED  BY <3>2
  <2> QED  BY <1>2, <1>3, <2>1
<1>4. \A e \in Owned : /\ Weights!Materialized(e).at \in {"float", "packed"}
                       /\ <<e, param[e]>> \in holds
                       => <<e, Weights!Materialized(e)>> \in holds'
  BY <1>2
<1> QED  BY <1>1, <1>2, <1>3, <1>4

LEMMA Int8Native ==
  ASSUME WeightsTypeOK, Numbered, Int8Inv, weightsEnv.dtype = "int8", weightsEnv' = weightsEnv,
      Weights!EnsureNative
  PROVE  Int8Inv' /\ Numbered'
<1>1. /\ step = "serve" /\ step' = step /\ Served
      /\ UNCHANGED <<target, param, cache8, cache4, arena8, arena4, prep8, table8, server, misread>>
  BY DEF Weights!EnsureNative, Served, Weights!arenas
<1>2. CASE UNCHANGED <<cpu, holds>> /\ native' = [native EXCEPT !.ready = TRUE]
  <2>1. native'.on = native.on /\ native'.int8 = native.int8
    BY <1>2 DEF WeightsTypeOK
  <2>2. Int8Inv'
    BY <1>1, <1>2, <2>1 DEF Int8Inv, Prepared8, Slots8, Served
  <2> QED  BY <1>1, <1>2, <2>2 DEF Numbered
<1>3. CASE Weights!Materialize
  <2>1. \A e \in Owned : Weights!Materialized(e) = IF cpu[e] # Weights!None THEN cpu[e]
      ELSE param[e]
    BY MaterializedFacts
  <2>2. /\ \A e \in Owned : cpu'[e] = Weights!Materialized(e)
        /\ holds \subseteq holds'
        /\ \A p \in holds' : p \in holds \/ (p[1] \in Owned /\ p[2] = Weights!Materialized(p[1]))
    BY <1>3, MaterializeFacts
  <2>3. native'.on => native'.int8
    <3>1. CASE native' = [native EXCEPT !.ready = TRUE]
      <4>1. native'.on = native.on /\ native'.int8 = native.int8
        BY <3>1 DEF WeightsTypeOK
      <4> QED  BY <4>1 DEF Int8Inv
    <3>2. CASE native' = [ready |-> TRUE, on |-> TRUE, int8 |-> weightsEnv.cpu8
        \/ weightsEnv.dtype = "int8"]
      BY <3>2
    <3> QED  BY <3>1, <3>2 DEF Weights!EnsureNative
  <2>4. ASSUME NEW e \in Owned  PROVE Prepared8(e)'
    <3>1. Prepared8(e)
      BY <1>1 DEF Int8Inv
    <3>2. Weights!Own # Weights!None
      BY DifferentCells
    <3> QED  BY <1>1, <2>1, <2>2, <3>1, <3>2 DEF Prepared8, Slots8
  <2>5. Int8Inv'
    BY <1>1, <2>3, <2>4 DEF Int8Inv, Slots8, Served
  <2>6. ASSUME NEW e \in Owned  PROVE Weights!Materialized(e).n \in {0, arena8.n, cache8[e].n}
    BY <2>1 DEF Numbered
  <2>7. \A p \in holds' : p[2].n \in {0, arena8.n, cache8[p[1]].n}
    BY <2>2, <2>6 DEF Numbered
  <2> QED  BY <1>1, <2>2, <2>5, <2>6, <2>7 DEF Numbered
<1> QED  BY <1>2, <1>3 DEF Weights!EnsureNative

\* A prepared expert is got from the cell that the cache has.
LEMMA Int8Gets ==
  ASSUME WeightsTypeOK, Int8Inv, Served, NEW e \in Owned
  PROVE  /\ Prepared8(e) /\ cache8[e] # Weights!None /\ Weights!Gets(e, cache8[e], "int8")
         /\ cache8[e].at \in {"own", "arena8"}
<1>1. Prepared8(e) /\ arena8.n \in Nat
  BY DEF Int8Inv, WeightsTypeOK
<1>2. cache8[e] = Weights!Own \/ cache8[e] = Weights!Slot8(arena8.n)
  BY <1>1 DEF Prepared8
<1>3. cache8[e] # Weights!None /\ cache8[e].at \in {"own", "arena8"}
  BY <1>1, <1>2, CellFacts, DifferentCells
<1>4. cache8[e] \in Weights!Living(e)
  BY <1>3 DEF Weights!Living
<1> QED  BY <1>1, <1>3, <1>4, FormatFacts DEF Prepared8, Weights!Gets

LEMMA Int8Reads ==
  ASSUME WeightsTypeOK, Numbered, Int8Inv, weightsEnv.dtype = "int8", ~weightsEnv.drops,
      weightsEnv' = weightsEnv,
         NEW ids \in Weights!Some, NEW fp4 \in BOOLEAN,
         \/ Weights!RunInt8(ids) \/ Weights!RunNative(ids) \/ Weights!RunGguf(ids)
              \/ Weights!RunGgufExperts(ids)
         \/ Weights!RunReference(ids) \/ Weights!StageArena(ids, fp4)
              \/ Weights!StageCache(ids, fp4) \/ Weights!ServerReads(ids)
  PROVE  Int8Inv' /\ Numbered'
<1>1. ids \subseteq Owned /\ ids # {}
  BY DEF Weights!Some
<1>2. step = "serve" /\ Served
  BY DEF Weights!RunInt8, Weights!RunNative, Weights!RunGguf, Weights!RunGgufExperts,
         Weights!RunReference, Weights!StageArena, Weights!StageCache, Weights!ServerReads,
         Weights!Forward, Served
<1>3. /\ prep8 /\ (native.on => native.int8) /\ server \in {0, table8.n} /\ misread = {}
      /\ ~arena4.there /\ (arena8.n # 0 => Slots8)
      /\ \A e \in Owned : Prepared8(e) /\ cache8[e] # Weights!None
           /\ Weights!Gets(e, cache8[e], "int8")
  BY <1>2, Int8Gets DEF Int8Inv
<1>4. cache8 \in Held /\ table8 \in [n : Nat, ptr : Held] /\ arena8 \in [n : Nat, on : BOOLEAN]
      /\ param \in Held /\ cpu \in Held /\ holds \subseteq Owned \X Cells
  BY DEF WeightsTypeOK
<1>5. Weights!Missing(cache8, Owned) = {} /\ Weights!Missing(cache8, ids) = {}
  BY <1>1, <1>3 DEF Weights!Missing
<1>6. ASSUME UNCHANGED <<step, target, param, cpu, cache8, cache4, arena8, arena4, prep8, native,
                         server, holds, misread>>,
             \A e \in Owned : table8'.ptr[e] = table8.ptr[e],
             table8.n # 0 => table8'.n = table8.n
      PROVE  Int8Inv' /\ Numbered'
  <2>1. \A e \in Owned : Prepared8(e)'
    BY <1>3, <1>6 DEF Prepared8, Slots8
  <2>2. Int8Inv'
    BY <1>2, <1>3, <1>6, <2>1 DEF Int8Inv, Slots8, Served
  <2> QED  BY <1>6, <2>2 DEF Numbered
<1>7. CASE Weights!RunInt8(ids)
  <2>1. table8' = Weights!Refreshed(cache8)
        /\ UNCHANGED <<step, target, param, cpu, cache8, cache4, arena8, arena4, prep8, native,
                       server, holds>>
    BY <1>7 DEF Weights!RunInt8, Weights!arenas
  <2>2. /\ \A e \in Owned : table8'.ptr[e] = cache8[e]
        /\ table8.n # 0 => table8'.n = table8.n
    BY <1>3, <1>4, <2>1, RefreshedFacts
  <2>3. \A e \in ids : Weights!Gets(e, table8'.ptr[e], "int8")
    BY <1>1, <1>3, <2>2
  <2>4. misread' = misread
    BY <1>7, <2>3 DEF Weights!RunInt8, Weights!Reads
  <2>5. \A e \in Owned : table8'.ptr[e] = table8.ptr[e]
    BY <1>3, <2>2 DEF Prepared8
  <2> QED  BY <1>6, <2>1, <2>2, <2>4, <2>5
<1>8. CASE Weights!RunNative(ids) \/ Weights!RunGguf(ids) \/ Weights!RunGgufExperts(ids)
  BY <1>3, <1>8 DEF Weights!RunNative, Weights!RunGguf, Weights!RunGgufExperts
<1>9. CASE Weights!RunReference(ids)
  <2>1. PICK e \in ids : TRUE
    BY <1>1
  <2>2. e \in Owned /\ Weights!Materialized(e).at \in {"packed", "float"}
    BY <1>1, <1>9, <2>1, FormatFacts DEF Weights!RunReference
  <2>3. Prepared8(e) /\ cache8[e].at \in {"own", "arena8"}
    BY <1>2, <2>2, Int8Gets
  <2>4. Weights!Materialized(e) = cache8[e]
    BY <2>2, <2>3, MaterializedFacts, DifferentCells DEF Prepared8
  <2> QED  BY <2>2, <2>3, <2>4
<1>10. CASE Weights!StageArena(ids, fp4)
  <2>1. Weights!FullArena8 /\ arena8.n # 0 /\ Slots8
    BY <1>3, <1>10 DEF Weights!StageArena, Weights!FullArena4, Weights!FullArena8
  <2>2. Weights!Reads("staging", ids, [e \in Owned |-> Weights!Slot8(arena8.n)], "int8")
    BY <1>3, <1>10 DEF Weights!StageArena, Weights!FullArena4
  <2>3. \A e \in ids : Weights!Gets(e, [d \in Owned |-> Weights!Slot8(arena8.n)][e], "int8")
    BY <1>1, <1>3, <2>1 DEF Prepared8
  <2>4. misread' = misread
    BY <2>2, <2>3 DEF Weights!Reads
  <2> QED  BY <1>6, <1>10, <2>4 DEF Weights!StageArena, Weights!arenas, Weights!tables
<1>11. CASE Weights!StageCache(ids, fp4)
  <2>1. /\ Weights!PrepareInt8(ids, FALSE)
        /\ UNCHANGED <<weightsEnv, step, target, native, table4, server>>
    BY <1>11 DEF Weights!StageCache
  <2>2. Weights!MaterializeInt8({}) /\ prep8' = (Weights!Missing(cache8', ids) = {})
      /\ table8' = Weights!Refreshed(cache8')
    BY <1>5, <2>1 DEF Weights!PrepareInt8
  <2>3. arena8' = arena8 /\ arena4' = arena4 /\ cache4' = cache4
    BY <2>2 DEF Weights!MaterializeInt8
  <2>4. cpu' = cpu /\ cache8' = cache8
    <3>1. cpu' = [e \in Owned |-> cpu[e]] /\ cache8' = [e \in Owned |-> cache8[e]]
      BY <2>2 DEF Weights!MaterializeInt8
    <3> QED  BY <1>4, <3>1 DEF Held
  <2>5. param' = param
    <3>1. Weights!Released({}) = param
      BY <1>4, CellFacts, PutFacts DEF Weights!Released
    <3> QED  BY <2>2, <3>1 DEF Weights!MaterializeInt8
  <2>6. holds' = holds
    <3>1. \A was, from, to : Weights!Copied(was, {}, from, to) = was
      BY DEF Weights!Copied
    <3> QED  BY <2>2, <3>1 DEF Weights!MaterializeInt8
  <2>7. prep8' = prep8
    BY <1>3, <1>4, <1>5, <2>2, <2>4 DEF WeightsTypeOK
  <2>8. /\ \A e \in Owned : table8'.ptr[e] = cache8[e]
        /\ table8.n # 0 => table8'.n = table8.n
    BY <1>3, <1>4, <2>2, <2>4, RefreshedFacts
  <2>9. misread' = misread
    <3>1. \A e \in ids : <<e, cache8'[e]>> \in holds'
      BY <1>1, <1>3, <2>4, <2>6 DEF Prepared8
    <3> QED  BY <1>11, <3>1 DEF Weights!StageCache
  <2>10. \A e \in Owned : table8'.ptr[e] = table8.ptr[e]
    BY <1>3, <2>8 DEF Prepared8
  <2> QED  BY <1>6, <2>1, <2>3, <2>4, <2>5, <2>6, <2>7, <2>8, <2>9, <2>10
<1>12. CASE Weights!ServerReads(ids)
  <2>1. Weights!Reads("server", ids, table8.ptr, "int8")
    BY <1>3, <1>12 DEF Weights!ServerReads
  <2>2. \A e \in ids : Weights!Gets(e, table8.ptr[e], "int8")
    BY <1>1, <1>3 DEF Prepared8
  <2>3. misread' = misread
    BY <2>1, <2>2 DEF Weights!Reads
  <2> QED  BY <1>6, <1>12, <2>3 DEF Weights!ServerReads, Weights!arenas, Weights!tables
<1> QED  BY <1>7, <1>8, <1>9, <1>10, <1>11, <1>12

LEMMA Int8Step ==
  ASSUME WeightsTypeOK, Numbered, Int8Inv, weightsEnv.dtype = "int8", ~weightsEnv.drops,
      Weights!Next
  PROVE  Int8Inv' /\ Numbered'
<1>1. weightsEnv' = weightsEnv
  BY EnvKept
<1>2. ASSUME NEW e \in Owned, Weights!LoadInt8(e)  PROVE Int8Inv' /\ Numbered'
  BY <1>1, <1>2, Int8Load
<1>3. ASSUME NEW e \in Owned, Weights!LoadFp4(e) \/ Weights!LoadGguf(e)  PROVE FALSE
  BY <1>3 DEF Weights!LoadFp4, Weights!LoadGguf
<1>4. CASE Weights!Loaded \/ Weights!PrepareFp4 \/ Weights!StartServer
  BY <1>1, <1>4, Int8Loaded
<1>5. CASE Weights!Prepare
  BY <1>1, <1>5, Int8Prepare
<1>6. CASE Weights!EnsureNative
  BY <1>1, <1>6, Int8Native
<1>7. ASSUME NEW ids \in Weights!Some, NEW fp4 \in BOOLEAN,
             \/ Weights!RunInt8(ids) \/ Weights!RunNative(ids) \/ Weights!RunGguf(ids)
                  \/ Weights!RunGgufExperts(ids)
             \/ Weights!RunReference(ids) \/ Weights!StageArena(ids, fp4)
                  \/ Weights!StageCache(ids, fp4) \/ Weights!ServerReads(ids)
      PROVE  Int8Inv' /\ Numbered'
  BY <1>1, <1>7, Int8Reads
<1>8. ~Weights!Release
  BY DEF Weights!Release
<1> QED  BY <1>2, <1>3, <1>4, <1>5, <1>6, <1>7, <1>8 DEF Weights!Next, Weights!Loading,
                                        Weights!Starting, Weights!Reading

-----------------------------------------------------------------------------
(***************************************************************************)
(* ExpertWeights: a GGUF checkpoint, whose weights stay in the file.       *)
(***************************************************************************)
GgufInv ==
  /\ \A e \in Owned : \/ target[e] = Weights!File /\ <<e, Weights!File>> \in holds
                      \/ target[e] = Weights!Own /\ <<e, Weights!Own>> \notin holds /\ step = "load"
  /\ cache8 = Weights!NoCells /\ arena8.n = 0 /\ table8 = Weights!NoTable /\ ~arena4.there
  /\ ~native.on /\ server = 0 /\ misread = {}

LEMMA GgufStep ==
  ASSUME WeightsTypeOK, Numbered, GgufInv, weightsEnv.dtype = "gguf", Weights!Next
  PROVE  GgufInv' /\ Numbered'
<1> USE DEF Weights!arenas, Weights!tables
<1>1. /\ target \in Held /\ param \in Held /\ holds \subseteq Owned \X Cells
      /\ native \in [ready : BOOLEAN, on : BOOLEAN, int8 : BOOLEAN]
      /\ arena8 \in [n : Nat, on : BOOLEAN]
  BY DEF WeightsTypeOK
<1>2. ASSUME NEW e \in Owned, Weights!LoadGguf(e)  PROVE GgufInv' /\ Numbered'
  <2>1. /\ target' = [target EXCEPT ![e] = Weights!File]
        /\ param' = [param EXCEPT ![e] = Weights!None]
        /\ holds' = holds \cup {<<e, Weights!File>>} /\ step' = "load" /\ step = "load"
        /\ UNCHANGED <<cpu, cache8, cache4, arena8, arena4, prep8, native, table4, table8, server,
                       misread>>
    BY <1>2 DEF Weights!LoadGguf
  <2>2. Weights!File.n = 0 /\ Weights!None.n = 0 /\ Weights!File # Weights!Own
    BY CellFacts, DifferentCells
  <2>3. GgufInv'
    <3>1. ASSUME NEW d \in Owned
          PROVE  \/ target'[d] = Weights!File /\ <<d, Weights!File>> \in holds'
                 \/ target'[d] = Weights!Own /\ <<d, Weights!Own>> \notin holds' /\ step' = "load"
      BY <1>1, <2>1, <2>2 DEF GgufInv, Held
    <3> QED  BY <2>1, <3>1 DEF GgufInv
  <2>4. \A p \in holds' : p[2].n \in {0, arena8'.n, cache8'[p[1]].n}
    BY <2>1, <2>2 DEF Numbered
  <2>5. ASSUME NEW d \in Owned,
      NEW c \in {target'[d], param'[d], cpu'[d], cache4'[d], table8'.ptr[d]}
        PROVE  c.n \in {0, arena8'.n, cache8'[d].n}
    <3>1. target'[d] \in {target[d], Weights!File} /\ param'[d] \in {param[d], Weights!None}
      BY <1>1, <2>1 DEF Held
    <3> QED  BY <2>1, <2>2, <2>5, <3>1 DEF Numbered
  <2> QED  BY <2>3, <2>4, <2>5 DEF Numbered
<1>3. ASSUME NEW e \in Owned, Weights!LoadInt8(e) \/ Weights!LoadFp4(e)  PROVE FALSE
  BY <1>3 DEF Weights!LoadInt8, Weights!LoadFp4
<1>4. CASE Weights!Loaded
  <2>1. /\ Weights!Unloaded = {} /\ step' = "fp4"
        /\ UNCHANGED <<target, param, cpu, cache8, cache4, arena8, arena4, prep8, native, table4,
                       table8,
                       server, holds, misread>>
    BY <1>4 DEF Weights!Loaded
  <2>2. \A e \in Owned : target[e] = Weights!File /\ <<e, Weights!File>> \in holds
    BY <2>1 DEF Weights!Unloaded, GgufInv
  <2> QED  BY <2>1, <2>2 DEF GgufInv, Numbered
<1>5. CASE Weights!PrepareFp4
  BY <1>5 DEF Weights!PrepareFp4, GgufInv, Numbered
<1>6. CASE Weights!Prepare
  BY <1>6 DEF Weights!Prepare, GgufInv, Numbered
<1>7. CASE Weights!StartServer
  BY <1>7 DEF Weights!StartServer, GgufInv, Numbered
<1>8. CASE Weights!EnsureNative
  <2>1. /\ native' = [native EXCEPT !.ready = TRUE] /\ step = "serve" /\ step' = step
        /\ UNCHANGED <<target, param, cpu, cache8, cache4, arena8, arena4, prep8, table4, table8,
                       server, holds, misread>>
    BY <1>8 DEF Weights!EnsureNative
  <2>2. native'.on = native.on
    BY <1>1, <2>1
  <2> QED  BY <2>1, <2>2 DEF GgufInv, Numbered
<1>9. ASSUME NEW ids \in Weights!Some,
             Weights!RunInt8(ids) \/ Weights!RunNative(ids) \/ Weights!RunReference(ids)
                 \/ Weights!ServerReads(ids)
      PROVE  FALSE
  BY <1>9 DEF Weights!RunInt8, Weights!RunNative, Weights!RunReference, Weights!ServerReads, GgufInv
<1>10. ASSUME NEW ids \in Weights!Some, NEW fp4 \in BOOLEAN, Weights!StageArena(ids, fp4)
    \/ Weights!StageCache(ids, fp4)
       PROVE  FALSE
  BY <1>10 DEF Weights!StageArena, Weights!StageCache, Weights!FullArena4, Weights!FullArena8,
               GgufInv
<1>11. ASSUME NEW ids \in Weights!Some, Weights!RunGguf(ids) \/ Weights!RunGgufExperts(ids)
    PROVE GgufInv' /\ Numbered'
  <2>1. step = "serve"
    BY <1>11 DEF Weights!RunGguf, Weights!RunGgufExperts, Weights!Forward
  <2>2. ASSUME NEW e \in ids  PROVE Weights!Gets(e, target[e], "file")
    <3>1. e \in Owned
      BY DEF Weights!Some
    <3>2. target[e] = Weights!File /\ <<e, Weights!File>> \in holds
      BY <2>1, <3>1 DEF GgufInv
    <3>3. Weights!File \in Weights!Living(e)
      BY <3>2, DifferentCells DEF Weights!Living
    <3> QED  BY <3>2, <3>3, CellFacts, FormatFacts DEF Weights!Gets
  <2>3. misread' = misread
    BY <1>11, <2>2 DEF Weights!RunGguf, Weights!RunGgufExperts, Weights!Reads
  <2> QED  BY <1>11, <2>3 DEF Weights!RunGguf, Weights!RunGgufExperts, GgufInv, Numbered
<1>12. CASE Weights!Release
  <2>1. /\ cache8' = Weights!NoCells /\ arena8' = [arena8 EXCEPT !.n = 0]
        /\ table8' = Weights!NoTable
        /\ step' = step /\ step = "serve"
        /\ UNCHANGED <<target, param, cpu, cache4, arena4, native, table4, server, misread>>
        /\ holds' = {p \in holds : p[2] \in Weights!Living(p[1])'}
    BY <1>12 DEF Weights!Release
  <2>2. arena8'.n = 0
    BY <1>1, <2>1
  <2>3. ASSUME NEW e \in Owned  PROVE target'[e] = Weights!File /\ <<e, Weights!File>> \in holds'
    <3>1. target[e] = Weights!File /\ <<e, Weights!File>> \in holds
      BY <2>1 DEF GgufInv
    <3>2. Weights!File \in Weights!Living(e)'
      BY <2>1, <3>1, DifferentCells DEF Weights!Living
    <3> QED  BY <2>1, <3>1, <3>2
  <2>4. GgufInv'
    BY <2>1, <2>2, <2>3 DEF GgufInv
  <2>5. cache8 = cache8' /\ table8 = table8' /\ arena8'.n = arena8.n /\ holds' \subseteq holds
    BY <2>1, <2>2 DEF GgufInv
  <2> QED  BY <2>1, <2>4, <2>5 DEF Numbered
<1> QED  BY <1>2, <1>3, <1>4, <1>5, <1>6, <1>7, <1>8, <1>9, <1>10, <1>11, <1>12
         DEF Weights!Next, Weights!Loading, Weights!Starting, Weights!Reading

-----------------------------------------------------------------------------
(***************************************************************************)
(* ExpertWeights: an fp4 checkpoint, whose int8 copies come and go.        *)
(***************************************************************************)
Loaded4(e) ==
  /\ IF weightsEnv.model /\ Slots4
       THEN /\ arena4.there /\ target[e] = Weights!Slot4 /\ param[e] = Weights!None
            /\ cpu[e] = Weights!Slot4 /\ cache4[e] = Weights!Slot4 /\ cache8[e] = Weights!None
       ELSE target[e] = Weights!Own /\ Untouched(e)
  /\ <<e, target[e]>> \in holds

\* The slot is all that is left of the parameters, or they are where they were.
Stored4(e) ==
  IF Slots4
    THEN /\ arena4.there /\ param[e] = Weights!None /\ cpu[e] = Weights!Slot4
         /\ cache4[e] = Weights!Slot4
         /\ <<e, Weights!Slot4>> \in holds
    ELSE /\ param[e] = Weights!Own /\ cache4[e] = Weights!None /\ <<e, Weights!Own>> \in holds
         /\ cpu[e] \in {Weights!None, IF weightsEnv.predequant THEN Float ELSE Packed}
         /\ cpu[e] # Weights!None => <<e, cpu[e]>> \in holds

\* The int8 copy of an expert, if there is one, is in the arena or private, and has its weights.
Copy8(e) ==
  /\ \/ cache8[e] = Weights!None
     \/ arena8.n # 0 /\ arena8.on /\ cache8[e] = Weights!Slot8(arena8.n)
     \/ ~arena8.on /\ cache8[e].at = "private"
  /\ cache8[e] # Weights!None => Converts /\ <<e, cache8[e]>> \in holds
  /\ table8.ptr[e] = cache8[e]
Cached8(e) ==
  /\ Copy8(e)
  /\ Converts /\ ~weightsEnv.drops => cache8[e] # Weights!None
  /\ prep8 => Converts

Arena4Kept ==
  /\ Slots4 => arena4.on
  /\ arena4.on => weightsEnv.arena4
  /\ arena4.there => Slots4

Fp4Inv ==
  /\ \A e \in Owned : target[e] \in {Weights!Own, Weights!Slot4}
  /\ Arena4Kept
  /\ ~Served => /\ arena4.there => weightsEnv.model
                /\ cache8 = Weights!NoCells /\ arena8.n = 0 /\ table8 = Weights!NoTable
                /\ ~native.on /\ server = 0
  /\ step = "load" => \A e \in Owned : Raw(e) \/ Loaded4(e)
  /\ step \in {"fp4", "int8"} => \A e \in Owned : Loaded4(e)
  /\ Served => \A e \in Owned : Stored4(e) /\ Cached8(e)
  /\ arena8.n # 0 => arena8.on
  /\ native.on => /\ native.int8 = weightsEnv.cpu8
                  /\ \A e \in Owned : table4[e] = cpu[e] /\ cpu[e] \in {Packed, Weights!Slot4}
  /\ server # 0 => weightsEnv.loop
  /\ ~weightsEnv.drops => server \in {0, table8.n}
  /\ Weights!ReleaseBreaks \/ Weights!NothingPrepared \/ misread = {}

LEMMA Arena4Facts ==
  ASSUME WeightsTypeOK, Arena4Kept
  PROVE  /\ Weights!Allocates4 = Slots4 /\ Weights!After4.there = Slots4
         /\ Weights!After4.on = Slots4
         /\ Slots4 \in BOOLEAN /\ Weights!After4 \in [there : BOOLEAN, on : BOOLEAN]
<1>1. weightsEnv.arena4 \in BOOLEAN /\ weightsEnv.pins \in BOOLEAN
    /\ arena4 \in [there : BOOLEAN, on : BOOLEAN]
  BY DEF WeightsTypeOK, Weights!AllSettings
<1>2. Weights!Allocates4 <=> Slots4
  BY <1>1, After4Facts DEF Slots4, Arena4Kept
<1> QED  BY <1>1, <1>2, After4Facts DEF Slots4

LEMMA Fp4Load ==
  ASSUME WeightsTypeOK, Numbered, Fp4Inv, weightsEnv.dtype = "fp4", weightsEnv' = weightsEnv,
         NEW e \in Owned, Weights!LoadFp4(e)
  PROVE  Fp4Inv' /\ Numbered'
<1>1. /\ step = "load" /\ e \in Weights!Unloaded /\ step' = "load" /\ ~Served /\ ~Served'
      /\ UNCHANGED <<cache8, arena8, prep8, native, table4, table8, server, misread>>
  BY DEF Weights!LoadFp4, Served, Weights!tables
<1>2. Raw(e)
  BY <1>1 DEF Fp4Inv, Weights!Unloaded, Loaded4
<1>3. /\ target \in Held /\ param \in Held /\ cpu \in Held /\ cache4 \in Held
      /\ arena4 \in [there : BOOLEAN, on : BOOLEAN]
      /\ weightsEnv.model \in BOOLEAN /\ holds \subseteq Owned \X Cells
  BY DEF WeightsTypeOK, Weights!AllSettings
<1>4. /\ Arena4Kept /\ (arena4.there => weightsEnv.model)
      /\ cache8 = Weights!NoCells /\ arena8.n = 0 /\ table8 = Weights!NoTable /\ ~native.on
      /\ server = 0
      /\ \A d \in Owned : Raw(d) \/ Loaded4(d)
      /\ \A d \in Owned : target[d] \in {Weights!Own, Weights!Slot4}
      /\ Weights!ReleaseBreaks \/ Weights!NothingPrepared \/ misread = {}
  BY <1>1 DEF Fp4Inv
<1>5. /\ Weights!Allocates4 = Slots4 /\ Weights!After4.there = Slots4
      /\ Weights!After4.on = Slots4 /\ Slots4 \in BOOLEAN
      /\ Slots4' = Slots4
  BY <1>4, Arena4Facts DEF Slots4
<1>6. Weights!Slot4.n = 0 /\ Weights!Own.n = 0 /\ Weights!None.n = 0 /\ Weights!Slot4 \in Cells
    /\ Weights!None \in Cells /\ Weights!Own # Weights!Slot4
  BY CellFacts, DifferentCells
<1>7. /\ arena4' = (IF weightsEnv.model THEN Weights!After4 ELSE arena4)
      /\ holds' = holds \cup {<<e, target'[e]>>}
      /\ target'[e] = (IF weightsEnv.model /\ Slots4 THEN Weights!Slot4 ELSE Weights!Own)
      /\ \A d \in Owned : d # e => target'[d] = target[d]
      /\ IF weightsEnv.model /\ Slots4
           THEN /\ param'[e] = Weights!None /\ cpu'[e] = Weights!Slot4 /\ cache4'[e] = Weights!Slot4
                /\ \A d \in Owned : d # e => /\ param'[d] = param[d] /\ cpu'[d] = cpu[d]
                                             /\ cache4'[d] = cache4[d]
           ELSE UNCHANGED <<param, cpu, cache4>>
  <2> DEFINE to == IF Weights!Bound4 THEN Weights!BoundTarget(e, Weights!Slot4) ELSE Weights!Own
  <2>1. Weights!Bound4 <=> weightsEnv.model /\ Slots4
    BY <1>5 DEF Weights!Bound4
  <2>2. /\ arena4' = (IF weightsEnv.model THEN Weights!After4 ELSE arena4)
        /\ target' = [target EXCEPT ![e] = to]
        /\ param' = IF Weights!Bound4 THEN Weights!Released({e}) ELSE param
        /\ cpu' = IF Weights!Bound4 THEN [cpu EXCEPT ![e] = Weights!Slot4] ELSE cpu
        /\ cache4' = IF Weights!Bound4 THEN [cache4 EXCEPT ![e] = Weights!Slot4] ELSE cache4
        /\ holds' = holds \cup {<<e, to>>}
    BY DEF Weights!LoadFp4
  <2>3. \A d \in Owned : Weights!Released({e})[d] = IF d = e THEN Weights!None ELSE param[d]
    BY <1>3, <1>6, PutFacts DEF Weights!Released
  <2>4. to = IF weightsEnv.model /\ Slots4 THEN Weights!Slot4 ELSE Weights!Own
    BY <2>1 DEF Weights!BoundTarget
  <2> HIDE DEF to
  <2> QED  BY <1>3, <2>1, <2>2, <2>3, <2>4 DEF Held
<1>8. Loaded4(e)'
  BY <1>1, <1>2, <1>5, <1>7 DEF Loaded4, Raw, Untouched
<1>9. ASSUME NEW d \in Owned, d # e  PROVE (Raw(d) \/ Loaded4(d))'
  <2>1. \A c : <<d, c>> \in holds' <=> <<d, c>> \in holds
    BY <1>7, <1>9
  <2>2. target'[d] = target[d] /\ param'[d] = param[d] /\ cpu'[d] = cpu[d] /\ cache4'[d] = cache4[d]
    BY <1>7, <1>9
  <2>3. CASE Raw(d)
    BY <1>1, <2>1, <2>2, <2>3 DEF Raw, Untouched
  <2>4. CASE Loaded4(d)
    <3>1. arena4'.there \/ ~arena4.there
      BY <1>4, <1>5, <1>7 DEF Arena4Kept
    <3> QED  BY <1>1, <1>5, <2>1, <2>2, <2>4, <3>1 DEF Loaded4, Untouched
  <2> QED  BY <1>4, <2>3, <2>4
<1>10. Arena4Kept' /\ (arena4'.there => weightsEnv.model)
  BY <1>4, <1>5, <1>7 DEF Arena4Kept, Slots4
<1>11. Fp4Inv'
  <2>1. \A d \in Owned : target'[d] \in {Weights!Own, Weights!Slot4}
    BY <1>4, <1>7
  <2>2. Weights!NoCells' = Weights!NoCells /\ Weights!NoTable' = Weights!NoTable
    BY DEF Weights!NoCells, Weights!NoTable
  <2>3. (Weights!ReleaseBreaks \/ Weights!NothingPrepared \/ misread = {})'
    BY <1>1, <1>4 DEF Weights!ReleaseBreaks, Weights!NothingPrepared
  <2> QED  BY <1>1, <1>4, <1>8, <1>9, <1>10, <2>1, <2>3 DEF Fp4Inv
<1>12. Numbered'
  <2>1. \A p \in holds' : p[2].n \in {0, arena8'.n, cache8'[p[1]].n}
    BY <1>1, <1>6, <1>7 DEF Numbered
  <2>2. ASSUME NEW d \in Owned,
      NEW c \in {target'[d], param'[d], cpu'[d], cache4'[d], table8'.ptr[d]}
        PROVE  c.n \in {0, arena8'.n, cache8'[d].n}
    <3>1. /\ target'[d] \in {target[d], Weights!Slot4, Weights!Own}
          /\ param'[d] \in {param[d], Weights!None}
          /\ cpu'[d] \in {cpu[d], Weights!Slot4} /\ cache4'[d] \in {cache4[d], Weights!Slot4}
      BY <1>7
    <3> QED  BY <1>1, <1>6, <2>2, <3>1 DEF Numbered
  <2> QED  BY <2>1, <2>2 DEF Numbered
<1> QED  BY <1>11, <1>12

LEMMA Fp4Stages ==
  ASSUME WeightsTypeOK, Numbered, Fp4Inv, weightsEnv.dtype = "fp4", weightsEnv' = weightsEnv,
      Weights!Loaded \/ Weights!StartServer
  PROVE  Fp4Inv' /\ Numbered'
<1>1. UNCHANGED <<target, param, cpu, cache8, cache4, arena8, arena4, prep8, native, table4,
                  table8, holds, misread>>
  BY DEF Weights!Loaded, Weights!StartServer, Weights!arenas, Weights!tables
<1>2. Numbered'
  BY <1>1 DEF Numbered
<1>3. /\ Weights!NoCells' = Weights!NoCells /\ Weights!NoTable' = Weights!NoTable
      /\ (Weights!ReleaseBreaks \/ Weights!NothingPrepared \/ misread = {})'
      /\ Arena4Kept' /\ \A e \in Owned : target'[e] \in {Weights!Own, Weights!Slot4}
      /\ arena8'.n # 0 => arena8'.on
      /\ native'.on => /\ native'.int8 = weightsEnv.cpu8
                       /\ \A e \in Owned : table4'[e] = cpu'[e]
                            /\ cpu'[e] \in {Packed, Weights!Slot4}
  BY <1>1 DEF Fp4Inv, Weights!NoCells, Weights!NoTable, Weights!ReleaseBreaks,
              Weights!NothingPrepared, Arena4Kept, Slots4
<1>4. CASE Weights!Loaded
  <2>1. step = "load" /\ step' = "fp4" /\ Weights!Unloaded = {} /\ server' = server
    BY <1>4 DEF Weights!Loaded
  <2>2. \A e \in Owned : Loaded4(e)
    BY <2>1 DEF Fp4Inv, Weights!Unloaded, Raw
  <2>3. \A e \in Owned : Loaded4(e)'
    BY <1>1, <2>2 DEF Loaded4, Untouched, Slots4
  <2> QED  BY <1>1, <1>2, <1>3, <2>1, <2>3 DEF Fp4Inv, Served
<1>5. CASE Weights!StartServer
  <2>1. /\ step = "server" /\ step' = "serve" /\ Served
        /\ server' \in {0, table8.n} /\ (server' # 0 => weightsEnv.loop)
    BY <1>5 DEF Weights!StartServer, Served
  <2>2. \A e \in Owned : Stored4(e)' /\ Cached8(e)'
    BY <1>1, <2>1 DEF Fp4Inv, Stored4, Cached8, Copy8, Slots4, Converts
  <2> QED  BY <1>1, <1>2, <1>3, <2>1, <2>2 DEF Fp4Inv, Served
<1> QED  BY <1>4, <1>5

LEMMA Fp4PrepareFp4 ==
  ASSUME WeightsTypeOK, Numbered, Fp4Inv, weightsEnv.dtype = "fp4", weightsEnv' = weightsEnv,
      Weights!PrepareFp4
  PROVE  Fp4Inv' /\ Numbered'
<1>1. /\ step = "fp4" /\ step' = "int8" /\ ~Served /\ ~Served'
      /\ UNCHANGED <<target, cache8, arena8, prep8, native, table4, table8, server, misread>>
  BY DEF Weights!PrepareFp4, Served, Weights!tables
<1>2. /\ Arena4Kept /\ (arena4.there => weightsEnv.model) /\ \A e \in Owned : Loaded4(e)
      /\ cache8 = Weights!NoCells /\ arena8.n = 0 /\ table8 = Weights!NoTable /\ ~native.on
      /\ server = 0
      /\ \A e \in Owned : target[e] \in {Weights!Own, Weights!Slot4}
      /\ Weights!ReleaseBreaks \/ Weights!NothingPrepared \/ misread = {}
  BY <1>1 DEF Fp4Inv
<1>3. /\ Weights!Allocates4 = Slots4 /\ Weights!After4.there = Slots4
      /\ Weights!After4.on = Slots4 /\ Slots4 \in BOOLEAN
      /\ Slots4' = Slots4
  BY <1>2, Arena4Facts DEF Slots4
<1>4. /\ UNCHANGED <<cpu, param, cache4, holds>>
      /\ arena4' = arena4 \/ (~Slots4 /\ arena4' = Weights!After4)
  <2>1. CASE weightsEnv.model /\ arena4.on
    <3> DEFINE new == Weights!Missing(cache4, Owned)
    <3>1. Weights!Materialize4(new) /\ holds' = Weights!Holds4(new)
      BY <2>1 DEF Weights!PrepareFp4
    <3>2. CASE Slots4
      <4>1. \A e \in Owned : cache4[e] # Weights!None
        BY <1>2, <2>1, <3>2, DifferentCells DEF Loaded4
      <4>2. new = {}
        BY <4>1 DEF Weights!Missing
      <4>3. \A f \in Held, c \in Cells : Weights!Put(f, {}, c) = f
        BY PutFacts
      <4>4. Weights!Released({}) = param /\ Weights!Put(cpu, {}, Weights!Slot4) = cpu
          /\ Weights!Put(cache4, {}, Weights!Slot4) = cache4
        BY <4>3, CellFacts DEF Weights!Released, WeightsTypeOK
      <4>5. Weights!Copied(holds, {}, param, Weights!Slot4) = holds
        BY DEF Weights!Copied
      <4> QED  BY <3>1, <4>2, <4>4, <4>5 DEF Weights!Materialize4, Weights!Holds4
    <3>3. CASE ~Slots4
      BY <1>3, <3>1, <3>3 DEF Weights!Materialize4, Weights!Holds4
    <3> QED  BY <1>3, <3>2, <3>3
  <2>2. CASE ~(weightsEnv.model /\ arena4.on)
    BY <2>2 DEF Weights!PrepareFp4
  <2> QED  BY <2>1, <2>2
<1>5. Arena4Kept' /\ (arena4'.there => weightsEnv.model) /\ (arena4.there => arena4'.there)
  BY <1>2, <1>3, <1>4 DEF Arena4Kept, Slots4
<1>6. \A e \in Owned : Loaded4(e)'
  BY <1>1, <1>2, <1>3, <1>4, <1>5 DEF Loaded4, Untouched
<1>7. (Weights!ReleaseBreaks \/ Weights!NothingPrepared \/ misread = {})'
    /\ Weights!NoCells' = Weights!NoCells /\ Weights!NoTable' = Weights!NoTable
  BY <1>1, <1>2 DEF Weights!ReleaseBreaks, Weights!NothingPrepared, Weights!NoCells, Weights!NoTable
<1>8. Fp4Inv'
  BY <1>1, <1>2, <1>5, <1>6, <1>7 DEF Fp4Inv
<1>9. Numbered'
  BY <1>1, <1>4 DEF Numbered
<1> QED  BY <1>8, <1>9

\* The conversion of experts that have no int8 copy, whether they have a slot yet or not.
Unslotted(e) ==
  Slots4 /\ param[e] = Weights!Own /\ cpu[e] = Weights!None /\ cache4[e] = Weights!None
      /\ <<e, Weights!Own>> \in holds

LEMMA Fp4Slots ==
  ASSUME WeightsTypeOK, Arena4Kept, weightsEnv' = weightsEnv, NEW new, new \subseteq Owned,
         \A e \in Owned : Stored4(e) \/ Unslotted(e),
         Weights!Materialize4(Weights!Missing(cache4, new))
  PROVE  /\ Arena4Kept'
         /\ \A e \in Owned : Stored4(e) \/ e \in new =>
              IF Slots4
                THEN /\ arena4'.there /\ param'[e] = Weights!None /\ cpu'[e] = Weights!Slot4
                     /\ cache4'[e] = Weights!Slot4
                     /\ <<e, Weights!Slot4>> \in Weights!Holds4(Weights!Missing(cache4, new))
                ELSE /\ param'[e] = param[e] /\ cpu'[e] = cpu[e] /\ cache4'[e] = cache4[e]
                     /\ Stored4(e)
         /\ ~Slots4 => Weights!Holds4(Weights!Missing(cache4, new)) = holds
         /\ \A e \in Owned : Stored4(e) => cpu'[e] = cpu[e]
         /\ \A e \in Owned : /\ param'[e] \in {Weights!None, param[e]}
                             /\ cpu'[e] \in {Weights!Slot4, cpu[e]}
                             /\ cache4'[e] \in {Weights!Slot4, cache4[e]}
         /\ \A e \in Owned, c \in Cells :
              c # Weights!Slot4 => (<<e, c>> \in Weights!Holds4(Weights!Missing(cache4, new))
                  <=> <<e, c>> \in holds)
<1> DEFINE places == Weights!Missing(cache4, new)
<1>1. /\ Weights!Allocates4 = Slots4 /\ Weights!After4.there = Slots4
      /\ Weights!After4.on = Slots4 /\ Slots4 \in BOOLEAN
  BY Arena4Facts
<1>2. places \subseteq Owned /\ \A e \in Owned : e \in places <=> e \in new
    /\ cache4[e] = Weights!None
  BY DEF Weights!Missing
<1>3. /\ param \in Held /\ cpu \in Held /\ cache4 \in Held /\ holds \subseteq Owned \X Cells
  BY DEF WeightsTypeOK
<1>4. /\ arena4' = (IF places = {} THEN arena4 ELSE Weights!After4)
      /\ cpu' = IF Slots4 THEN Weights!Put(cpu, places, Weights!Slot4) ELSE cpu
      /\ param' = IF Slots4 THEN Weights!Released(places) ELSE param
      /\ cache4' = IF Slots4 THEN Weights!Put(cache4, places, Weights!Slot4) ELSE cache4
      /\ Weights!Holds4(places) = IF Slots4
           THEN Weights!Copied(holds, places, param, Weights!Slot4) ELSE holds
  BY <1>1 DEF Weights!Materialize4, Weights!Holds4
<1>5. \A e \in Owned :
        /\ Weights!Put(cpu, places, Weights!Slot4)[e] = IF e \in places THEN Weights!Slot4
             ELSE cpu[e]
        /\ Weights!Released(places)[e] = IF e \in places THEN Weights!None ELSE param[e]
        /\ Weights!Put(cache4, places, Weights!Slot4)[e] = IF e \in places THEN Weights!Slot4
             ELSE cache4[e]
  <2>1. Weights!Slot4 \in Cells /\ Weights!None \in Cells
    BY CellFacts
  <2> HIDE DEF places
  <2> QED  BY <1>3, <2>1, PutFacts DEF Weights!Released
<1>6. \A e \in Owned, c \in Cells :
        <<e, c>> \in Weights!Copied(holds, places, param, Weights!Slot4) <=>
          IF e \in places /\ c = Weights!Slot4 THEN <<e, param[e]>> \in holds
              ELSE <<e, c>> \in holds
  <2>1. holds \subseteq Owned \X Cells /\ places \subseteq Owned /\ Weights!Slot4 \in Cells
    BY <1>2, <1>3, CellFacts
  <2> HIDE DEF places
  <2> QED  BY <2>1, CopiedFacts, Zenon
<1>7. Weights!Slot4 \in Cells /\ Weights!Slot4 # Weights!None
  BY CellFacts, DifferentCells
<1> HIDE DEF places
<1>8. Arena4Kept'
  BY <1>1, <1>4 DEF Arena4Kept, Slots4
<1>9. ASSUME NEW e \in Owned, Stored4(e) \/ e \in new, Slots4
      PROVE  /\ arena4'.there /\ param'[e] = Weights!None /\ cpu'[e] = Weights!Slot4
             /\ cache4'[e] = Weights!Slot4
             /\ <<e, Weights!Slot4>> \in Weights!Holds4(places)
  <2>1. CASE e \in places
    <3>1. Unslotted(e)
      BY <1>2, <1>7, <1>9, <2>1 DEF Stored4
    <3> QED  BY <1>1, <1>4, <1>5, <1>6, <1>7, <1>9, <2>1, <3>1 DEF Unslotted
  <2>2. CASE e \notin places
    <3>1. Stored4(e)
      BY <1>2, <1>9, <2>2 DEF Unslotted
    <3> QED  BY <1>1, <1>4, <1>5, <1>6, <1>7, <1>9, <2>2, <3>1 DEF Stored4
  <2> QED  BY <2>1, <2>2
<1>10. ~Slots4 => \A e \in Owned : /\ param'[e] = param[e] /\ cpu'[e] = cpu[e]
                                   /\ cache4'[e] = cache4[e] /\ Stored4(e)
  BY <1>4 DEF Unslotted
<1>11. \A e \in Owned : Stored4(e) => cpu'[e] = cpu[e]
  BY <1>4, <1>9 DEF Stored4
<1>12. \A e \in Owned : /\ param'[e] \in {Weights!None, param[e]}
                        /\ cpu'[e] \in {Weights!Slot4, cpu[e]}
                        /\ cache4'[e] \in {Weights!Slot4, cache4[e]}
  BY <1>4, <1>5
<1>13. \A e \in Owned, c \in Cells :
         c # Weights!Slot4 => (<<e, c>> \in Weights!Holds4(places) <=> <<e, c>> \in holds)
  BY <1>4, <1>6
<1>14. ~Slots4 => Weights!Holds4(places) = holds
  BY <1>4
<1> QED  BY <1>8, <1>9, <1>10, <1>11, <1>12, <1>13, <1>14 DEF places

LEMMA Fp4Convert ==
  ASSUME WeightsTypeOK, Numbered, Arena4Kept, weightsEnv' = weightsEnv, arena8.n # 0 => arena8.on,
         \A e \in Owned : target[e] \in {Weights!Own, Weights!Slot4},
         NEW new, new \subseteq Owned, \A e \in new : cache8[e] = Weights!None,
         \A e \in Owned : Copy8(e) /\ (Stored4(e) \/ Unslotted(e)),
         Weights!ConvertExperts(new), target' = target, table8' = Weights!Refreshed(cache8')
  PROVE  /\ Arena4Kept' /\ Numbered' /\ (arena8'.n # 0 => arena8'.on)
         /\ \A e \in Owned : Copy8(e)' /\ (Stored4(e) \/ e \in new => Stored4(e)')
         /\ \A e \in Owned : Stored4(e) => cpu'[e] = cpu[e]
         /\ \A e \in Owned : cache8[e] # Weights!None => cache8'[e] = cache8[e]
         /\ Converts => \A e \in new : cache8'[e] # Weights!None
<1> DEFINE places == Weights!Missing(cache4, new)
           can == Slots4 /\ weightsEnv.cuda /\ new # {}
           to == IF Weights!Allocates8 THEN Weights!Slot8(Weights!After8.n)
               ELSE Weights!Cell("private", Weights!Fresh)
           putIn == Weights!Holds4(places)
<1>1. Weights!Materialize4(places)
  BY DEF Weights!ConvertExperts
<1>2. /\ Arena4Kept'
      /\ \A e \in Owned : Stored4(e) \/ e \in new =>
           IF Slots4
             THEN /\ arena4'.there /\ param'[e] = Weights!None /\ cpu'[e] = Weights!Slot4
                  /\ cache4'[e] = Weights!Slot4
                  /\ <<e, Weights!Slot4>> \in putIn
             ELSE /\ param'[e] = param[e] /\ cpu'[e] = cpu[e] /\ cache4'[e] = cache4[e]
                  /\ Stored4(e)
      /\ ~Slots4 => putIn = holds
      /\ \A e \in Owned : Stored4(e) => cpu'[e] = cpu[e]
      /\ \A e \in Owned : /\ param'[e] \in {Weights!None, param[e]}
                          /\ cpu'[e] \in {Weights!Slot4, cpu[e]}
                          /\ cache4'[e] \in {Weights!Slot4, cache4[e]}
      /\ \A e \in Owned,
           c \in Cells : c # Weights!Slot4 => (<<e, c>> \in putIn <=> <<e, c>> \in holds)
  BY <1>1, Fp4Slots
<1>3. /\ Weights!Allocates4 = Slots4 /\ Slots4 \in BOOLEAN /\ Slots4' = Slots4
      /\ Converts' = Converts
  BY Arena4Facts DEF Slots4, Converts
<1>4. /\ arena8' = (IF can THEN Weights!After8 ELSE arena8)
      /\ cache8' = IF can THEN Weights!Put(cache8, new, to) ELSE cache8
      /\ holds' = IF can THEN Weights!Copied(putIn, new, cache4', to) ELSE putIn
  BY <1>3 DEF Weights!ConvertExperts
<1>5. /\ cache8 \in Held /\ arena8 \in [n : Nat, on : BOOLEAN] /\ holds \subseteq Owned \X Cells
      /\ table8 \in [n : Nat, ptr : Held]
  BY DEF WeightsTypeOK
<1>6. /\ cache8' \in Held /\ holds' \subseteq Owned \X Cells
  BY ConvertExpertsTypes
<1>7. putIn \subseteq Owned \X Cells
  <2>1. places \subseteq Owned
    BY DEF Weights!Missing
  <2> QED  BY <1>1, <2>1, Materialize4Types
<1>8. /\ Weights!Allocates8 = (arena8.on /\ (arena8.n # 0 \/ weightsEnv.pins))
      /\ Weights!After8 \in [n : Nat, on : BOOLEAN]
      /\ Weights!Allocates8 => /\ Weights!After8.n # 0 /\ Weights!After8.on
                               /\ (arena8.n # 0 => Weights!After8 = arena8)
      /\ ~Weights!Allocates8 => Weights!After8.n = arena8.n /\ ~Weights!After8.on
      /\ Weights!Fresh \in Nat
  BY After8Facts, FreshFacts
<1>9. /\ to \in Cells /\ to.at \in {"arena8", "private"}
      /\ Weights!Allocates8 => to = Weights!Slot8(Weights!After8.n) /\ to.n = Weights!After8.n
      /\ ~Weights!Allocates8 => to.at = "private"
  BY <1>8, CellFacts
<1>10. /\ to # Weights!None /\ to # Weights!Slot4 /\ to # Weights!Own /\ to # Packed /\ to # Float
       /\ Weights!None.at = "none" /\ Weights!None.n = 0 /\ Weights!Slot4.n = 0
       /\ Weights!Own.n = 0 /\ Weights!Own \in Cells
       /\ Weights!Slot4 \in Cells /\ Packed \in Cells /\ Float \in Cells
       /\ Weights!Own # Weights!Slot4 /\ Packed # Weights!Slot4 /\ Float # Weights!Slot4
       /\ Weights!Slot4.at = "arena4"
  BY <1>9, CellFacts, DifferentCells
<1>11. \A e \in Owned : cache8'[e] = IF can /\ e \in new THEN to ELSE cache8[e]
  <2>1. \A e \in Owned : Weights!Put(cache8, new, to)[e] = IF e \in new THEN to ELSE cache8[e]
    <3> HIDE DEF to
    <3> QED  BY <1>5, <1>9, PutFacts
  <2> HIDE DEF to, can
  <2> QED  BY <1>4, <2>1
<1>12. \A e \in Owned, c \in Cells :
         <<e, c>> \in holds' <=>
           IF can /\ e \in new /\ c = to THEN <<e, cache4'[e]>> \in putIn ELSE <<e, c>> \in putIn
  <2>1. \A e \in Owned, c \in Cells :
         <<e, c>> \in Weights!Copied(putIn, new, cache4', to) <=>
           IF e \in new /\ c = to THEN <<e, cache4'[e]>> \in putIn ELSE <<e, c>> \in putIn
    <3>1. putIn \subseteq Owned \X Cells /\ new \subseteq Owned /\ to \in Cells
      BY <1>7, <1>9
    <3> HIDE DEF to, putIn
    <3> QED  BY <3>1, CopiedFacts, Zenon
  <2> HIDE DEF to, putIn, can
  <2> QED  BY <1>4, <2>1
<1>13. \A e \in Owned : /\ table8'.ptr[e] = (IF cache8'[e] # Weights!None THEN cache8'[e]
                             ELSE table8.ptr[e])
                        /\ table8.ptr[e] = cache8[e]
  BY <1>6, RefreshedFacts DEF Copy8
<1> HIDE DEF to, putIn, can, places
<1>14. ASSUME NEW e \in Owned, Stored4(e) \/ e \in new  PROVE Stored4(e)'
  <2>1. CASE Slots4
    BY <1>2, <1>3, <1>10, <1>12, <1>14, <2>1 DEF Stored4
  <2>2. CASE ~Slots4
    <3>1. /\ param'[e] = param[e] /\ cpu'[e] = cpu[e] /\ cache4'[e] = cache4[e]
          /\ Stored4(e) /\ putIn = holds /\ ~can
      BY <1>2, <1>14, <2>2 DEF can
    <3>2. holds' = holds
      BY <1>4, <3>1
    <3> QED  BY <1>3, <2>2, <3>1, <3>2 DEF Stored4
  <2> QED  BY <2>1, <2>2
<1>15. ASSUME NEW e \in Owned  PROVE Copy8(e)'
  <2>1. table8'.ptr[e] = cache8'[e]
    BY <1>11, <1>13
  <2>2. CASE can /\ e \in new
    <3>1. cache8'[e] = to /\ Converts
      BY <1>11, <2>2 DEF can, Converts
    <3>2. cache4'[e] = Weights!Slot4 /\ <<e, Weights!Slot4>> \in putIn
      BY <1>2, <2>2 DEF can
    <3>3. <<e, to>> \in holds'
      BY <1>9, <1>12, <2>2, <3>2
    <3>4. arena8' = Weights!After8
      BY <1>4, <2>2
    <3> QED  BY <1>3, <1>8, <1>9, <2>1, <3>1, <3>3, <3>4 DEF Copy8
  <2>3. CASE ~(can /\ e \in new)
    <3>1. cache8'[e] = cache8[e] /\ Copy8(e) /\ cache8[e] \in Cells
      BY <1>5, <1>11, <2>3 DEF Held
    <3>2. cache8[e] # Weights!None => cache8[e] # Weights!Slot4
      BY <1>5, <1>10, <3>1, DifferentCells DEF Copy8
    <3>3. cache8[e] # Weights!None => <<e, cache8[e]>> \in holds'
      BY <1>2, <1>12, <2>3, <3>1, <3>2 DEF Copy8
    <3>4. cache8[e] # Weights!None /\ arena8.n # 0 /\ arena8.on => arena8' = arena8
      BY <1>4, <1>8
    <3>5. ~arena8.on => ~arena8'.on
      BY <1>4, <1>8
    <3> QED  BY <1>3, <2>1, <3>1, <3>3, <3>4, <3>5 DEF Copy8
  <2> QED  BY <2>2, <2>3
<1>16. arena8'.n # 0 => arena8'.on
  BY <1>4, <1>8
<1>17. arena8.n \in {0, arena8'.n}
  BY <1>4, <1>8
<1>18. \A e \in Owned : cache8[e].n \in {0, cache8'[e].n}
  BY <1>10, <1>11
<1>19. Numbered'
  <2>1. ASSUME NEW p \in holds'  PROVE p[2].n \in {0, arena8'.n, cache8'[p[1]].n}
    <3>1. p = <<p[1], p[2]>> /\ p[1] \in Owned /\ p[2] \in Cells
      BY <1>6, <2>1
    <3>2. CASE can /\ p[1] \in new /\ p[2] = to
      BY <1>11, <3>1, <3>2
    <3>3. CASE ~(can /\ p[1] \in new /\ p[2] = to)
      <4>1. <<p[1], p[2]>> \in putIn
        BY <1>12, <2>1, <3>1, <3>3
      <4>2. CASE p[2] = Weights!Slot4
        BY <1>10, <4>2
      <4>3. CASE p[2] # Weights!Slot4
        <5>1. p \in holds
          BY <1>2, <3>1, <4>1, <4>3
        <5>2. p[2].n \in {0, arena8.n, cache8[p[1]].n}
          BY <5>1 DEF Numbered
        <5> QED  BY <1>17, <1>18, <3>1, <5>2
      <4> QED  BY <4>2, <4>3
    <3> QED  BY <3>2, <3>3
  <2>2. ASSUME NEW e \in Owned,
      NEW c \in {target'[e], param'[e], cpu'[e], cache4'[e], table8'.ptr[e]}
        PROVE  c.n \in {0, arena8'.n, cache8'[e].n}
    <3>1. \/ c \in {target[e], param[e], cpu[e], cache4[e]} \/ c \in {Weights!None, Weights!Slot4}
          \/ c = cache8'[e]
      BY <1>2, <1>15, <2>2 DEF Copy8
    <3>2. CASE c \in {target[e], param[e], cpu[e], cache4[e]}
      <4>1. c.n \in {0, arena8.n, cache8[e].n}
        BY <3>2 DEF Numbered
      <4> QED  BY <1>17, <1>18, <4>1
    <3> QED  BY <1>10, <3>1, <3>2
  <2> QED  BY <2>1, <2>2 DEF Numbered
<1>20. Converts => \A e \in new : cache8'[e] # Weights!None
  BY <1>10, <1>11 DEF can, Converts
<1>21. \A e \in Owned : cache8[e] # Weights!None => cache8'[e] = cache8[e]
  BY <1>11
<1> QED  BY <1>2, <1>14, <1>15, <1>16, <1>19, <1>20, <1>21

\* A new arena for the int8 copies of all experts.
LEMMA Fp4ConvertArena ==
  ASSUME WeightsTypeOK, Numbered, Arena4Kept, weightsEnv' = weightsEnv,
         \A e \in Owned : target[e] \in {Weights!Own, Weights!Slot4},
         \A e \in Owned : Stored4(e) /\ cache4[e] # Weights!None, arena4.there, weightsEnv.cuda,
         cache8 = Weights!NoCells, arena8.n = 0,
         Weights!ConvertArena, target' = target, table8' = Weights!Refreshed(cache8')
  PROVE  /\ Arena4Kept' /\ Numbered' /\ arena8'.on
         /\ \A e \in Owned : Copy8(e)' /\ Stored4(e)' /\ cache8'[e] # Weights!None
<1> DEFINE to == Weights!Slot8(Weights!Fresh)
<1>1. Slots4 /\ Slots4' = Slots4 /\ Converts /\ Converts' = Converts
  BY DEF Arena4Kept, Slots4, Converts
<1>2. /\ Weights!Fresh \in Nat /\ Weights!Fresh # 0 /\ to \in Cells /\ to.n = Weights!Fresh
      /\ to # Weights!None /\ to # Weights!Slot4 /\ Weights!Slot4 \in Cells
      /\ Weights!None.n = 0 /\ Weights!Own.n = 0 /\ Weights!Slot4.n = 0
  BY FreshFacts, CellFacts, DifferentCells
<1>3. /\ cache8 \in Held /\ holds \subseteq Owned \X Cells
  BY DEF WeightsTypeOK
<1>4. /\ arena8' = [n |-> Weights!Fresh, on |-> TRUE]
      /\ cache8' = Weights!Put(cache8, Owned, to)
      /\ holds' = Weights!Copied(holds, Owned, cache4, to)
      /\ UNCHANGED <<arena4, cpu, param, cache4>>
  BY DEF Weights!ConvertArena
<1>5. cache8' \in Held /\ holds' \subseteq Owned \X Cells
  BY ConvertArenaTypes
<1>6. arena8'.n = Weights!Fresh /\ arena8'.on
  BY <1>4
<1>7. \A e \in Owned : cache8'[e] = to
  <2> HIDE DEF to
  <2> QED  BY <1>2, <1>3, <1>4, PutFacts
<1>8. \A e \in Owned, c \in Cells :
        <<e, c>> \in holds' <=> IF e \in Owned /\ c = to THEN <<e, cache4[e]>> \in holds
                                                          ELSE <<e, c>> \in holds
  <2>1. \A e \in Owned, c \in Cells :
          <<e, c>> \in Weights!Copied(holds, Owned, cache4, to) <=>
            IF e \in Owned /\ c = to THEN <<e, cache4[e]>> \in holds ELSE <<e, c>> \in holds
    <3>1. holds \subseteq Owned \X Cells /\ Owned \subseteq Owned /\ to \in Cells
      BY <1>2, <1>3
    <3> HIDE DEF to
    <3> QED  BY <3>1, CopiedFacts, Zenon
  <2> HIDE DEF to
  <2> QED  BY <1>4, <2>1
<1>9. \A e \in Owned : table8'.ptr[e] = to
  <2> HIDE DEF to
  <2> QED  BY <1>2, <1>5, <1>7, RefreshedFacts
<1>10. Arena4Kept'
  BY <1>4 DEF Arena4Kept, Slots4
<1>11. ASSUME NEW e \in Owned  PROVE Copy8(e)' /\ Stored4(e)' /\ cache8'[e] # Weights!None
  <2>1. /\ arena4.there /\ param[e] = Weights!None /\ cpu[e] = Weights!Slot4
        /\ cache4[e] = Weights!Slot4
        /\ <<e, Weights!Slot4>> \in holds
    BY <1>1 DEF Stored4
  <2>2. <<e, to>> \in holds' /\ <<e, Weights!Slot4>> \in holds'
    <3> HIDE DEF to
    <3> QED  BY <1>2, <1>8, <2>1
  <2>3. Stored4(e)'
    BY <1>1, <1>4, <2>1, <2>2 DEF Stored4
  <2>4. cache8'[e] = Weights!Slot8(arena8'.n) /\ arena8'.n # 0
    BY <1>2, <1>6, <1>7
  <2> HIDE DEF to
  <2> QED  BY <1>1, <1>2, <1>6, <1>7, <1>9, <2>2, <2>3, <2>4 DEF Copy8
<1> HIDE DEF to
<1>12. \A e \in Owned : cache8[e].n = 0
  BY <1>2 DEF Weights!NoCells
<1>13. Numbered'
  <2>1. ASSUME NEW p \in holds'  PROVE p[2].n \in {0, arena8'.n, cache8'[p[1]].n}
    <3>1. p = <<p[1], p[2]>> /\ p[1] \in Owned /\ p[2] \in Cells
      BY <1>5, <2>1
    <3>2. p[2] = to \/ p \in holds
      BY <1>8, <2>1, <3>1
    <3>3. p \in holds => p[2].n = 0
      BY <1>12, <3>1 DEF Numbered
    <3> QED  BY <1>2, <1>6, <3>2, <3>3
  <2>2. ASSUME NEW e \in Owned,
      NEW c \in {target'[e], param'[e], cpu'[e], cache4'[e], table8'.ptr[e]}
        PROVE  c.n \in {0, arena8'.n, cache8'[e].n}
    <3>1. c \in {target[e], param[e], cpu[e], cache4[e]} \/ c = to
      BY <1>4, <1>9, <2>2
    <3>2. c \in {target[e], param[e], cpu[e], cache4[e]} => c.n = 0
      BY <1>12 DEF Numbered
    <3> QED  BY <1>2, <1>6, <3>1, <3>2
  <2> QED  BY <2>1, <2>2 DEF Numbered
<1> QED  BY <1>6, <1>10, <1>11, <1>13

LEMMA Fp4Prepare ==
  ASSUME WeightsTypeOK, Numbered, Fp4Inv, weightsEnv.dtype = "fp4", weightsEnv' = weightsEnv,
      Weights!Prepare
  PROVE  Fp4Inv' /\ Numbered'
<1>1. /\ step = "int8" /\ step' = "server" /\ ~Served /\ Served'
      /\ UNCHANGED <<target, native, table4, server, misread>>
      /\ Weights!PrepareInt8(Owned, TRUE)
      /\ table8' = Weights!Refreshed(cache8') /\ prep8' = (Weights!Missing(cache8', Owned) = {})
  BY DEF Weights!Prepare, Weights!PrepareInt8, Served
<1>2. /\ Arena4Kept /\ (arena4.there => weightsEnv.model) /\ \A e \in Owned : Loaded4(e)
      /\ cache8 = Weights!NoCells /\ arena8.n = 0 /\ table8 = Weights!NoTable /\ ~native.on
      /\ server = 0
      /\ \A e \in Owned : target[e] \in {Weights!Own, Weights!Slot4}
      /\ Weights!ReleaseBreaks \/ Weights!NothingPrepared \/ misread = {}
  BY <1>1 DEF Fp4Inv
<1>3. \A e \in Owned : /\ cache8[e] = Weights!None /\ table8.ptr[e] = Weights!None
                       /\ Copy8(e) /\ (Stored4(e) \/ Unslotted(e))
                       /\ (cache4[e] # Weights!None => Stored4(e))
  BY <1>2 DEF Weights!NoCells, Weights!NoTable, Copy8, Stored4, Unslotted, Loaded4, Untouched
<1>4. ~Weights!FullArena8 /\ Weights!Missing(cache8, Owned) = Owned
  BY <1>2, <1>3 DEF Weights!FullArena8, Weights!Missing
<1>5. /\ Arena4Kept' /\ Numbered' /\ (arena8'.n # 0 => arena8'.on)
      /\ \A e \in Owned : Copy8(e)' /\ Stored4(e)'
      /\ Converts => \A e \in Owned : cache8'[e] # Weights!None
  <2>1. CASE Weights!FullArena4 /\ weightsEnv.cuda
    <3>1. Weights!ConvertArena /\ arena4.there
      BY <1>1, <1>4, <2>1 DEF Weights!PrepareInt8, Weights!FullArena4
    <3>2. \A e \in Owned : Stored4(e) /\ cache4[e] # Weights!None
      BY <1>3, <2>1 DEF Weights!FullArena4, Weights!Missing
    <3> QED  BY <1>1, <1>2, <2>1, <3>1, <3>2, Fp4ConvertArena
  <2>2. CASE ~(Weights!FullArena4 /\ weightsEnv.cuda)
    <3>1. Weights!ConvertExperts(Owned)
      BY <1>1, <1>4, <2>2 DEF Weights!PrepareInt8
    <3>2. Owned \subseteq Owned
      OBVIOUS
    <3>3. /\ Arena4Kept' /\ Numbered' /\ (arena8'.n # 0 => arena8'.on)
          /\ \A e \in Owned : Copy8(e)' /\ (Stored4(e) \/ e \in Owned => Stored4(e)')
          /\ Converts => \A e \in Owned : cache8'[e] # Weights!None
      BY <1>1, <1>2, <1>3, <3>1, <3>2, Fp4Convert
    <3> QED  BY <3>3
  <2> QED  BY <2>1, <2>2
<1>6. Converts' = Converts
  BY DEF Converts, Slots4
<1>7. ASSUME NEW e \in Owned  PROVE Cached8(e)'
  <2>1. prep8' => cache8'[e] # Weights!None
    BY <1>1 DEF Weights!Missing
  <2> QED  BY <1>5, <1>6, <2>1 DEF Cached8, Copy8
<1>8. (Weights!ReleaseBreaks \/ Weights!NothingPrepared \/ misread = {})'
  BY <1>1, <1>2 DEF Weights!ReleaseBreaks, Weights!NothingPrepared
<1>9. Fp4Inv'
  BY <1>1, <1>2, <1>5, <1>7, <1>8 DEF Fp4Inv
<1> QED  BY <1>5, <1>9

\* Materializing leaves a slot as it is and makes tensors of the others.
LEMMA Fp4Materialize ==
  ASSUME WeightsTypeOK, Numbered, Fp4Inv, Served, weightsEnv.dtype = "fp4",
      weightsEnv' = weightsEnv, Weights!Materialize,
         UNCHANGED <<target, param, cache8, cache4, arena8, arena4, prep8, table8>>
  PROVE  /\ Numbered'
         /\ \A e \in Owned : Stored4(e)' /\ Cached8(e)'
         /\ \A e \in Owned : cpu[e] # Weights!None => cpu'[e] = cpu[e]
         /\ \A e \in Owned : /\ cpu'[e] = Weights!Materialized(e) /\ <<e, cpu'[e]>> \in holds'
                             /\ cpu'[e] = IF Slots4 THEN Weights!Slot4
                                          ELSE IF weightsEnv.predequant THEN Float ELSE Packed
         /\ holds \subseteq holds'
<1>1. /\ \A e \in Owned : cpu'[e] = Weights!Materialized(e)
      /\ holds \subseteq holds'
      /\ \A p \in holds' : p \in holds \/ (p[1] \in Owned /\ p[2] = Weights!Materialized(p[1]))
      /\ \A e \in Owned : /\ Weights!Materialized(e).at \in {"float", "packed"}
                          /\ <<e, param[e]>> \in holds
                          => <<e, Weights!Materialized(e)>> \in holds'
  BY MaterializeFacts
<1>2. /\ Weights!Slot4 # Weights!None /\ Packed # Weights!None /\ Float # Weights!None
      /\ Packed.at = "packed" /\ Float.at = "float"
      /\ Packed.n = 0 /\ Float.n = 0 /\ Weights!Slot4.n = 0
  BY CellFacts, DifferentCells
<1>3. Slots4' = Slots4 /\ Converts' = Converts
  BY DEF Slots4, Converts
<1>4. ASSUME NEW e \in Owned
      PROVE  /\ Stored4(e)' /\ Cached8(e)'
             /\ cpu[e] # Weights!None => cpu'[e] = cpu[e]
             /\ <<e, cpu'[e]>> \in holds'
             /\ cpu'[e] = IF Slots4 THEN Weights!Slot4 ELSE IF weightsEnv.predequant
                  THEN Float ELSE Packed
  <2>1. Stored4(e) /\ Cached8(e)
    BY DEF Fp4Inv
  <2>2. cpu[e] # Weights!None => Weights!Materialized(e) = cpu[e]
    BY MaterializedFacts
  <2>3. cpu[e] = Weights!None => Weights!Materialized(e) = IF weightsEnv.predequant THEN Float
      ELSE Packed
    BY MaterializedFacts
  <2>4. Cached8(e)'
    BY <1>1, <1>3, <2>1 DEF Cached8, Copy8
  <2>5. CASE Slots4
    <3>1. cpu'[e] = Weights!Slot4 /\ <<e, Weights!Slot4>> \in holds'
      BY <1>1, <1>2, <2>1, <2>2, <2>5 DEF Stored4
    <3>2. Stored4(e)'
      BY <1>3, <2>1, <2>5, <3>1 DEF Stored4
    <3> QED  BY <1>1, <2>2, <2>4, <2>5, <3>1, <3>2
  <2>6. CASE ~Slots4
    <3>1. cpu'[e] = IF weightsEnv.predequant THEN Float ELSE Packed
      BY <1>1, <2>1, <2>2, <2>3, <2>6 DEF Stored4
    <3>2. <<e, cpu'[e]>> \in holds'
      BY <1>1, <1>2, <2>1, <2>6, <3>1 DEF Stored4
    <3>3. Stored4(e)'
      BY <1>1, <1>3, <2>1, <2>6, <3>1, <3>2 DEF Stored4
    <3> QED  BY <1>1, <2>2, <2>4, <2>6, <3>1, <3>2, <3>3
  <2> QED  BY <2>5, <2>6
<1>5. ASSUME NEW e \in Owned  PROVE cpu'[e].n = 0
  BY <1>2, <1>4
<1>6. Numbered'
  <2>1. \A p \in holds' : p[2].n \in {0, arena8.n, cache8[p[1]].n}
    BY <1>1, <1>5 DEF Numbered
  <2> QED  BY <1>5, <2>1 DEF Numbered
<1> QED  BY <1>1, <1>4, <1>6

LEMMA Fp4Native ==
  ASSUME WeightsTypeOK, Numbered, Fp4Inv, weightsEnv.dtype = "fp4", weightsEnv' = weightsEnv,
      Weights!EnsureNative
  PROVE  Fp4Inv' /\ Numbered'
<1>1. /\ step = "serve" /\ step' = step /\ Served /\ Served'
      /\ UNCHANGED <<target, param, cache8, cache4, arena8, arena4, prep8, table8, server, misread>>
  BY DEF Weights!EnsureNative, Served, Weights!arenas
<1>2. /\ Arena4Kept' /\ (Weights!ReleaseBreaks \/ Weights!NothingPrepared \/ misread = {})'
      /\ \A e \in Owned : target'[e] \in {Weights!Own, Weights!Slot4}
      /\ arena8'.n # 0 => arena8'.on
      /\ server' # 0 => weightsEnv.loop
      /\ ~weightsEnv.drops => server' \in {0, table8'.n}
  BY <1>1 DEF Fp4Inv, Arena4Kept, Slots4, Weights!ReleaseBreaks, Weights!NothingPrepared
<1>3. /\ native.on => /\ native.int8 = weightsEnv.cpu8
                      /\ \A e \in Owned : table4[e] = cpu[e] /\ cpu[e] \in {Packed, Weights!Slot4}
      /\ \A e \in Owned : Stored4(e) /\ Cached8(e)
      /\ native \in [ready : BOOLEAN, on : BOOLEAN, int8 : BOOLEAN] /\ weightsEnv.cpu8 \in BOOLEAN
  BY <1>1 DEF Fp4Inv, WeightsTypeOK, Weights!AllSettings
<1>4. CASE native' = [native EXCEPT !.ready = TRUE] /\ UNCHANGED <<cpu, holds, table4>>
  <2>1. native'.on = native.on /\ native'.int8 = native.int8
    BY <1>3, <1>4
  <2>2. \A e \in Owned : Stored4(e)' /\ Cached8(e)'
    BY <1>1, <1>3, <1>4 DEF Stored4, Cached8, Copy8, Slots4, Converts
  <2>3. Numbered'
    BY <1>1, <1>4 DEF Numbered
  <2> QED  BY <1>1, <1>2, <1>3, <1>4, <2>1, <2>2, <2>3 DEF Fp4Inv
<1>5. CASE Weights!Materialize
  <2>1. /\ Numbered'
        /\ \A e \in Owned : Stored4(e)' /\ Cached8(e)'
        /\ \A e \in Owned : cpu[e] # Weights!None => cpu'[e] = cpu[e]
        /\ \A e \in Owned : /\ cpu'[e] = Weights!Materialized(e)
                            /\ cpu'[e] = IF Slots4 THEN Weights!Slot4
                                         ELSE IF weightsEnv.predequant THEN Float ELSE Packed
    BY <1>1, <1>5, Fp4Materialize
  <2>2. Packed # Weights!None /\ Weights!Slot4 # Weights!None /\ Float.at = "float"
    BY CellFacts, DifferentCells
  <2>3. native'.on => /\ native'.int8 = weightsEnv.cpu8
                      /\ \A e \in Owned : table4'[e] = cpu'[e]
                           /\ cpu'[e] \in {Packed, Weights!Slot4}
    <3>1. CASE native' = [native EXCEPT !.ready = TRUE] /\ table4' = table4
      <4>1. native'.on = native.on /\ native'.int8 = native.int8
        BY <1>3, <3>1
      <4> QED  BY <1>3, <2>1, <2>2, <3>1, <4>1
    <3>2. CASE /\ native' = [ready |-> TRUE, on |-> TRUE, int8 |-> weightsEnv.cpu8
                    \/ weightsEnv.dtype = "int8"]
               /\ table4' = [e \in Owned |-> IF weightsEnv.dtype = "fp4"
                    THEN Weights!Materialized(e) ELSE Weights!None]
               /\ \A e \in Owned : Weights!Materialized(e).at # "float"
      <4>1. native'.int8 = weightsEnv.cpu8
        BY <1>3, <3>2
      <4>2. \A e \in Owned : table4'[e] = cpu'[e] /\ cpu'[e] \in {Packed, Weights!Slot4}
        BY <2>1, <2>2, <3>2
      <4> QED  BY <4>1, <4>2
    <3>3. CASE native' = [native EXCEPT !.ready = TRUE] /\ UNCHANGED <<cpu, holds, table4>>
      BY <3>1, <3>3
    <3> QED  BY <3>1, <3>2, <3>3 DEF Weights!EnsureNative
  <2> QED  BY <1>1, <1>2, <2>1, <2>3 DEF Fp4Inv
<1> QED  BY <1>4, <1>5 DEF Weights!EnsureNative

LEMMA Fp4Gets ==
  ASSUME WeightsTypeOK, Fp4Inv, Served, NEW e \in Owned
  PROVE  /\ cache8[e] # Weights!None => Weights!Gets(e, cache8[e], "int8")
         /\ Slots4 => Weights!Gets(e, Weights!Slot4, "raw")
         /\ cpu[e] = Packed => Weights!Gets(e, cpu[e], "packed")
<1>1. Stored4(e) /\ Copy8(e) /\ arena8.n \in Nat
  BY DEF Fp4Inv, Cached8, WeightsTypeOK
<1>2. /\ Weights!Slot4.at = "arena4" /\ Weights!Slot4 # Weights!None /\ Packed.at = "packed"
      /\ Packed # Weights!None /\ Packed # Weights!Slot4
      /\ Weights!Slot8(arena8.n).at = "arena8"
  BY <1>1, CellFacts, DifferentCells
<1>3. ASSUME cache8[e] # Weights!None  PROVE Weights!Gets(e, cache8[e], "int8")
  <2>1. cache8[e].at \in {"arena8", "private"} /\ <<e, cache8[e]>> \in holds
    BY <1>1, <1>2, <1>3 DEF Copy8
  <2>2. cache8[e] \in Weights!Living(e)
    BY <1>3 DEF Weights!Living
  <2> QED  BY <2>1, <2>2, FormatFacts DEF Weights!Gets
<1>4. ASSUME Slots4  PROVE Weights!Gets(e, Weights!Slot4, "raw")
  <2>1. cpu[e] = Weights!Slot4 /\ <<e, Weights!Slot4>> \in holds
    BY <1>1, <1>4 DEF Stored4
  <2>2. Weights!Slot4 \in Weights!Living(e)
    BY <1>2, <2>1 DEF Weights!Living
  <2> QED  BY <1>2, <2>1, <2>2, FormatFacts DEF Weights!Gets
<1>5. ASSUME cpu[e] = Packed  PROVE Weights!Gets(e, cpu[e], "packed")
  <2>1. <<e, cpu[e]>> \in holds
    BY <1>1, <1>2, <1>5 DEF Stored4
  <2>2. cpu[e] \in Weights!Living(e)
    BY <1>2, <1>5 DEF Weights!Living
  <2> QED  BY <1>2, <1>5, <2>1, <2>2, FormatFacts DEF Weights!Gets
<1> QED  BY <1>3, <1>4, <1>5

\* A reader changes nothing but the number of an empty table.
LEMMA Fp4Same ==
  ASSUME WeightsTypeOK, Numbered, Fp4Inv, step = "serve", weightsEnv' = weightsEnv,
         UNCHANGED <<step, target, param, cpu, cache8, cache4, arena8, arena4, prep8, native,
                     table4,
                     server, holds>>,
         \A e \in Owned : table8'.ptr[e] = table8.ptr[e],
         table8.n # 0 => table8'.n = table8.n,
         Weights!ReleaseBreaks \/ Weights!NothingPrepared \/ misread' = misread
  PROVE  Fp4Inv' /\ Numbered'
<1>1. Served
  BY DEF Served
<1>2. \A e \in Owned : Stored4(e)' /\ Cached8(e)'
  BY <1>1 DEF Fp4Inv, Stored4, Cached8, Copy8, Slots4, Converts
<1>3. Arena4Kept' /\ (Weights!ReleaseBreaks \/ Weights!NothingPrepared \/ misread = {})'
  BY DEF Fp4Inv, Arena4Kept, Slots4, Weights!ReleaseBreaks, Weights!NothingPrepared
<1>4. Fp4Inv'
  BY <1>1, <1>2, <1>3 DEF Fp4Inv, Served
<1> QED  BY <1>4 DEF Numbered

LEMMA Fp4Stage ==
  ASSUME WeightsTypeOK, Numbered, Fp4Inv, weightsEnv.dtype = "fp4", weightsEnv' = weightsEnv,
         NEW ids \in Weights!Some, NEW fp4 \in BOOLEAN, Weights!StageCache(ids, fp4)
  PROVE  Fp4Inv' /\ Numbered'
<1> DEFINE new == Weights!Missing(cache8, ids)
<1>1. /\ step = "serve" /\ step' = step /\ Served /\ Served'
      /\ UNCHANGED <<target, native, table4, server>>
      /\ Weights!ConvertExperts(new) /\ table8' = Weights!Refreshed(cache8')
      /\ prep8' = (Weights!Missing(cache8', ids) = {})
      /\ misread' = IF prep8' => \A e \in ids : <<e, cache8'[e]>> \in holds'
                      THEN misread ELSE misread \cup {"staging"}
  BY DEF Weights!StageCache, Weights!PrepareInt8, Served
<1>2. /\ ids \subseteq Owned /\ ids # {} /\ new \subseteq Owned
      /\ \A e \in new : cache8[e] = Weights!None
  BY DEF Weights!Some, Weights!Missing
<1>3. /\ Arena4Kept /\ (arena8.n # 0 => arena8.on)
      /\ \A e \in Owned : Stored4(e) /\ Cached8(e) /\ Copy8(e)
      /\ \A e \in Owned : target[e] \in {Weights!Own, Weights!Slot4}
      /\ native.on => /\ native.int8 = weightsEnv.cpu8
                      /\ \A e \in Owned : table4[e] = cpu[e] /\ cpu[e] \in {Packed, Weights!Slot4}
      /\ server # 0 => weightsEnv.loop
      /\ ~weightsEnv.drops => server \in {0, table8.n}
      /\ Weights!ReleaseBreaks \/ Weights!NothingPrepared \/ misread = {}
  BY <1>1 DEF Fp4Inv, Cached8
<1>4. cache8' \in Held /\ table8 \in [n : Nat, ptr : Held]
  BY <1>1, <1>2, ConvertExpertsTypes DEF WeightsTypeOK
<1> HIDE DEF new
<1>5. /\ Arena4Kept' /\ Numbered' /\ (arena8'.n # 0 => arena8'.on)
      /\ \A e \in Owned : Copy8(e)' /\ (Stored4(e) \/ e \in new => Stored4(e)')
      /\ \A e \in Owned : Stored4(e) => cpu'[e] = cpu[e]
      /\ \A e \in Owned : cache8[e] # Weights!None => cache8'[e] = cache8[e]
  BY <1>1, <1>2, <1>3, Fp4Convert
<1>6. Converts' = Converts
  BY DEF Converts, Slots4
<1>7. prep8' => Converts /\ \A e \in ids : <<e, cache8'[e]>> \in holds'
  <2>1. prep8' => \A e \in ids : cache8'[e] # Weights!None
    BY <1>1 DEF Weights!Missing
  <2>2. \A e \in ids : cache8'[e] # Weights!None => Converts /\ <<e, cache8'[e]>> \in holds'
    BY <1>2, <1>5, <1>6 DEF Copy8
  <2> QED  BY <1>2, <2>1, <2>2
<1>8. misread' = misread
  BY <1>1, <1>7
<1>9. \A e \in Owned : Cached8(e)'
  BY <1>3, <1>5, <1>6, <1>7 DEF Cached8
<1>10. table8.n # 0 => table8'.n = table8.n
  BY <1>1, <1>4, RefreshedFacts
<1>11. (Weights!ReleaseBreaks \/ Weights!NothingPrepared \/ misread = {})'
  BY <1>3, <1>8 DEF Weights!ReleaseBreaks, Weights!NothingPrepared
<1>12. ~weightsEnv.drops => server' \in {0, table8'.n}
  BY <1>1, <1>3, <1>10
<1>13. native'.on => /\ native'.int8 = weightsEnv.cpu8
                     /\ \A e \in Owned : table4'[e] = cpu'[e] /\ cpu'[e] \in {Packed, Weights!Slot4}
  BY <1>1, <1>3, <1>5
<1>14. Fp4Inv'
  BY <1>1, <1>3, <1>5, <1>9, <1>11, <1>12, <1>13 DEF Fp4Inv
<1> QED  BY <1>5, <1>14

LEMMA Fp4Reads ==
  ASSUME WeightsTypeOK, Numbered, Fp4Inv, weightsEnv.dtype = "fp4", weightsEnv' = weightsEnv,
         NEW ids \in Weights!Some, NEW fp4 \in BOOLEAN,
         \/ Weights!RunInt8(ids) \/ Weights!RunNative(ids) \/ Weights!RunGguf(ids)
              \/ Weights!RunGgufExperts(ids)
         \/ Weights!RunReference(ids) \/ Weights!StageArena(ids, fp4) \/ Weights!ServerReads(ids)
  PROVE  Fp4Inv' /\ Numbered'
<1>1. ids \subseteq Owned /\ ids # {}
  BY DEF Weights!Some
<1>2. step = "serve" /\ Served
  BY DEF Weights!RunInt8, Weights!RunNative, Weights!RunGguf, Weights!RunGgufExperts,
         Weights!RunReference, Weights!StageArena, Weights!ServerReads, Weights!Forward, Served
<1>3. /\ \A e \in Owned : Stored4(e) /\ Cached8(e) /\ Copy8(e)
      /\ \A e \in Owned : cache8[e] # Weights!None => Weights!Gets(e, cache8[e], "int8")
      /\ \A e \in Owned : Slots4 => Weights!Gets(e, Weights!Slot4, "raw")
      /\ \A e \in Owned : cpu[e] = Packed => Weights!Gets(e, cpu[e], "packed")
  BY <1>2, Fp4Gets DEF Fp4Inv, Cached8
<1>4. /\ Arena4Kept
      /\ native.on => /\ native.int8 = weightsEnv.cpu8
                      /\ \A e \in Owned : table4[e] = cpu[e] /\ cpu[e] \in {Packed, Weights!Slot4}
      /\ server # 0 => weightsEnv.loop
      /\ ~weightsEnv.drops => server \in {0, table8.n}
      /\ Weights!ReleaseBreaks \/ Weights!NothingPrepared \/ misread = {}
  BY DEF Fp4Inv
<1>5. cache8 \in Held /\ table8 \in [n : Nat, ptr : Held]
  BY DEF WeightsTypeOK
<1>6. Weights!Slot4 # Weights!None /\ Packed # Weights!Slot4 /\ Float # Weights!Slot4
  BY DifferentCells
<1>7. CASE Weights!RunInt8(ids)
  <2>1. /\ prep8 /\ native.on /\ native.int8 /\ table8' = Weights!Refreshed(cache8)
        /\ Weights!Reads("int8 runner", ids, table8'.ptr, "int8")
        /\ UNCHANGED <<step, target, param, cpu, cache8, cache4, arena8, arena4, prep8, native,
                       table4, server, holds>>
    BY <1>7 DEF Weights!RunInt8, Weights!arenas
  <2>2. /\ \A e \in Owned : table8'.ptr[e] = cache8[e]
        /\ table8.n # 0 => table8'.n = table8.n
    BY <1>3, <1>5, <2>1, RefreshedFacts DEF Copy8
  <2>3. ASSUME ~Weights!ReleaseBreaks  PROVE misread' = misread
    <3>1. ~weightsEnv.drops
      BY <1>4, <2>1, <2>3 DEF Weights!ReleaseBreaks
    <3>2. \A e \in ids : cache8[e] # Weights!None
      BY <1>1, <1>3, <2>1, <3>1 DEF Cached8
    <3> QED  BY <1>1, <1>3, <2>1, <2>2, <3>2 DEF Weights!Reads
  <2>4. \A e \in Owned : table8'.ptr[e] = table8.ptr[e]
    BY <1>3, <2>2 DEF Copy8
  <2> QED  BY <1>2, <2>1, <2>2, <2>3, <2>4, Fp4Same
<1>8. CASE Weights!RunNative(ids)
  <2>1. native.on /\ \A e \in Owned : table4[e] = cpu[e] /\ cpu[e] \in {Packed, Weights!Slot4}
    BY <1>4, <1>8 DEF Weights!RunNative
  <2>2. ASSUME NEW e \in Owned
        PROVE  (Slots4 => cpu[e] = Weights!Slot4) /\ (~Slots4 => cpu[e] # Weights!Slot4)
    <3>1. Stored4(e)
      BY <1>3
    <3>2. Slots4 => cpu[e] = Weights!Slot4
      BY <3>1 DEF Stored4
    <3>3. ~Slots4 => cpu[e] \in {Weights!None, Float, Packed}
      BY <3>1 DEF Stored4
    <3> QED  BY <1>6, <3>2, <3>3
  <2>3. CASE Slots4
    <3>1. \E e \in Owned : table4[e] = Weights!Slot4
      BY <1>1, <2>1, <2>2, <2>3
    <3>2. Weights!Reads("fp4 runner", ids, table4, "raw")
      BY <1>8, <3>1 DEF Weights!RunNative
    <3>3. misread' = misread
      BY <1>1, <1>3, <2>1, <2>2, <2>3, <3>2 DEF Weights!Reads
    <3> QED  BY <1>2, <1>8, <3>3, Fp4Same DEF Weights!RunNative, Weights!arenas, Weights!tables
  <2>4. CASE ~Slots4
    <3>1. ~\E e \in Owned : table4[e] = Weights!Slot4
      BY <2>1, <2>2, <2>4
    <3>2. Weights!Reads("fp4 runner", ids, table4, "packed")
      BY <1>8, <3>1 DEF Weights!RunNative
    <3>3. misread' = misread
      BY <1>1, <1>3, <2>1, <2>2, <2>4, <3>2 DEF Weights!Reads
    <3> QED  BY <1>2, <1>8, <3>3, Fp4Same DEF Weights!RunNative, Weights!arenas, Weights!tables
  <2> QED  BY <2>3, <2>4
<1>9. CASE Weights!RunGguf(ids) \/ Weights!RunGgufExperts(ids)
  BY <1>9 DEF Weights!RunGguf, Weights!RunGgufExperts
<1>10. CASE Weights!RunReference(ids)
  <2>1. /\ ~native.on /\ Weights!Materialize
        /\ UNCHANGED <<step, target, param, cache8, cache4, arena8, arena4, prep8, native, table4,
                       table8, server>>
    BY <1>10 DEF Weights!RunReference, Weights!arenas, Weights!tables
  <2>2. /\ Numbered'
        /\ \A e \in Owned : Stored4(e)' /\ Cached8(e)'
        /\ \A e \in Owned : <<e, cpu'[e]>> \in holds'
    BY <1>2, <2>1, Fp4Materialize
  <2>3. misread' = misread
    BY <1>1, <1>10, <2>2 DEF Weights!RunReference
  <2>4. Arena4Kept' /\ (Weights!ReleaseBreaks \/ Weights!NothingPrepared \/ misread = {})'
    BY <1>4, <2>1, <2>3 DEF Arena4Kept, Slots4, Weights!ReleaseBreaks, Weights!NothingPrepared
  <2>5. Fp4Inv'
    BY <1>2, <2>1, <2>2, <2>4 DEF Fp4Inv, Served
  <2> QED  BY <2>2, <2>5
<1>11. CASE Weights!StageArena(ids, fp4)
  <2>1. CASE fp4 /\ Weights!FullArena4
    <3>1. Slots4
      BY <1>4, <2>1 DEF Weights!FullArena4, Arena4Kept
    <3>2. Weights!Reads("staging", ids, [e \in Owned |-> Weights!Slot4], "raw")
      BY <1>11, <2>1 DEF Weights!StageArena
    <3>3. \A e \in ids : Weights!Gets(e, [d \in Owned |-> Weights!Slot4][e], "raw")
      BY <1>1, <1>3, <3>1
    <3>4. misread' = misread
      BY <3>2, <3>3 DEF Weights!Reads
    <3> QED  BY <1>2, <1>11, <3>4, Fp4Same DEF Weights!StageArena, Weights!arenas, Weights!tables
  <2>2. CASE ~(fp4 /\ Weights!FullArena4)
    <3>1. Weights!FullArena8
        /\ Weights!Reads("staging", ids, [e \in Owned |-> Weights!Slot8(arena8.n)], "int8")
      BY <1>11, <2>2 DEF Weights!StageArena
    <3>2. \A e \in Owned : cache8[e] = Weights!Slot8(arena8.n) /\ cache8[e] # Weights!None
      BY <1>3, <3>1 DEF Weights!FullArena8, Weights!Missing, Copy8
    <3>3. \A e \in ids : Weights!Gets(e, [d \in Owned |-> Weights!Slot8(arena8.n)][e], "int8")
      BY <1>1, <1>3, <3>2
    <3>4. misread' = misread
      BY <3>1, <3>3 DEF Weights!Reads
    <3> QED  BY <1>2, <1>11, <3>4, Fp4Same DEF Weights!StageArena, Weights!arenas, Weights!tables
  <2> QED  BY <2>1, <2>2
<1>12. CASE Weights!ServerReads(ids)
  <2>1. ASSUME ~Weights!ReleaseBreaks, ~Weights!NothingPrepared  PROVE misread' = misread
    <3>1. server # 0 /\ weightsEnv.loop
      BY <1>4, <1>12 DEF Weights!ServerReads
    <3>2. ~weightsEnv.drops /\ Converts /\ table8.n = server
      BY <1>4, <2>1, <3>1 DEF Weights!ReleaseBreaks, Weights!NothingPrepared, Converts, Slots4
    <3>3. \A e \in ids : Weights!Gets(e, table8.ptr[e], "int8")
      BY <1>1, <1>3, <3>2 DEF Cached8, Copy8
    <3> QED  BY <1>12, <3>2, <3>3 DEF Weights!ServerReads, Weights!Reads
  <2> QED  BY <1>2, <1>12, <2>1, Fp4Same DEF Weights!ServerReads, Weights!arenas, Weights!tables
<1> QED  BY <1>7, <1>8, <1>9, <1>10, <1>11, <1>12

LEMMA Fp4Release ==
  ASSUME WeightsTypeOK, Numbered, Fp4Inv, weightsEnv' = weightsEnv, Weights!Release
  PROVE  Fp4Inv' /\ Numbered'
<1>1. /\ step = "serve" /\ step' = step /\ Served /\ Served' /\ weightsEnv.drops
      /\ cache8' = Weights!NoCells /\ arena8' = [arena8 EXCEPT !.n = 0] /\ prep8' = FALSE
      /\ table8' = Weights!NoTable
      /\ UNCHANGED <<target, param, cpu, cache4, arena4, native, table4, server, misread>>
      /\ holds' = {p \in holds : p[2] \in Weights!Living(p[1])'}
  BY DEF Weights!Release, Served
<1>2. /\ Weights!None.n = 0 /\ Weights!Own.n = 0 /\ Weights!Slot4.n = 0 /\ Packed.n = 0
      /\ Float.n = 0
      /\ Weights!None # Weights!Slot4 /\ Weights!None # Weights!Own
  BY CellFacts, DifferentCells
<1>3. arena8'.n = 0 /\ \A e \in Owned : cache8'[e] = Weights!None /\ table8'.ptr[e] = Weights!None
  BY <1>1 DEF Weights!NoCells, Weights!NoTable, WeightsTypeOK
<1>4. \A e \in Owned : Stored4(e) /\ target[e] \in {Weights!Own, Weights!Slot4}
  BY <1>1 DEF Fp4Inv
<1>5. ASSUME NEW e \in Owned
      PROVE  /\ param[e] # Weights!None => param[e] \in Weights!Living(e)'
             /\ cpu[e] # Weights!None => cpu[e] \in Weights!Living(e)'
  BY <1>1 DEF Weights!Living
<1>6. ASSUME NEW e \in Owned  PROVE Stored4(e)'
  <2>1. Slots4' = Slots4
    BY DEF Slots4
  <2>2. CASE Slots4
    <3>1. <<e, Weights!Slot4>> \in holds'
      BY <1>1, <1>2, <1>4, <1>5, <2>2 DEF Stored4
    <3> QED  BY <1>1, <1>4, <2>1, <2>2, <3>1 DEF Stored4
  <2>3. CASE ~Slots4
    <3>1. <<e, Weights!Own>> \in holds'
      BY <1>1, <1>2, <1>4, <1>5, <2>3 DEF Stored4
    <3>2. cpu[e] # Weights!None => <<e, cpu[e]>> \in holds'
      BY <1>1, <1>4, <1>5, <2>3 DEF Stored4
    <3> QED  BY <1>1, <1>4, <2>1, <2>3, <3>1, <3>2 DEF Stored4
  <2> QED  BY <2>2, <2>3
<1>7. \A e \in Owned : Cached8(e)'
  BY <1>1, <1>3 DEF Cached8, Copy8
<1>8. Arena4Kept' /\ (Weights!ReleaseBreaks \/ Weights!NothingPrepared \/ misread = {})'
  BY <1>1 DEF Fp4Inv, Arena4Kept, Slots4, Weights!ReleaseBreaks, Weights!NothingPrepared
<1>9. Fp4Inv'
  BY <1>1, <1>3, <1>6, <1>7, <1>8 DEF Fp4Inv
<1>10. ASSUME NEW e \in Owned
       PROVE  /\ param[e].n = 0 /\ cpu[e].n = 0 /\ cache4[e].n = 0 /\ target[e].n = 0
  <2>1. Stored4(e) /\ target[e] \in {Weights!Own, Weights!Slot4}
    BY <1>4
  <2>2. param[e] \in {Weights!None, Weights!Own} /\ cache4[e] \in {Weights!None, Weights!Slot4}
    BY <2>1 DEF Stored4
  <2>3. cpu[e] \in {Weights!None, Weights!Slot4, Float, Packed}
    BY <2>1 DEF Stored4
  <2> QED  BY <1>2, <2>1, <2>2, <2>3
<1>11. Numbered'
  <2>1. ASSUME NEW p \in holds'  PROVE p[2].n = 0
    <3>1. p[1] \in Owned /\ p[2] \in Weights!Living(p[1])'
      BY <1>1 DEF WeightsTypeOK
    <3>2. p[2] \in {param[p[1]], cpu[p[1]], cache4[p[1]], target[p[1]], Weights!None, Weights!Slot4}
      BY <1>1, <1>3, <3>1 DEF Weights!Living
    <3> QED  BY <1>2, <1>10, <3>1, <3>2
  <2> QED  BY <1>1, <1>2, <1>3, <1>10, <2>1 DEF Numbered
<1> QED  BY <1>9, <1>11

LEMMA Fp4Step ==
  ASSUME WeightsTypeOK, Numbered, Fp4Inv, weightsEnv.dtype = "fp4", Weights!Next
  PROVE  Fp4Inv' /\ Numbered'
<1>1. weightsEnv' = weightsEnv
  BY EnvKept
<1>2. ASSUME NEW e \in Owned, Weights!LoadFp4(e)  PROVE Fp4Inv' /\ Numbered'
  BY <1>1, <1>2, Fp4Load
<1>3. ASSUME NEW e \in Owned, Weights!LoadInt8(e) \/ Weights!LoadGguf(e)  PROVE FALSE
  BY <1>3 DEF Weights!LoadInt8, Weights!LoadGguf
<1>4. CASE Weights!Loaded \/ Weights!StartServer
  BY <1>1, <1>4, Fp4Stages
<1>5. CASE Weights!PrepareFp4
  BY <1>1, <1>5, Fp4PrepareFp4
<1>6. CASE Weights!Prepare
  BY <1>1, <1>6, Fp4Prepare
<1>7. CASE Weights!EnsureNative
  BY <1>1, <1>7, Fp4Native
<1>8. ASSUME NEW ids \in Weights!Some, NEW fp4 \in BOOLEAN,
             \/ Weights!RunInt8(ids) \/ Weights!RunNative(ids) \/ Weights!RunGguf(ids)
                  \/ Weights!RunGgufExperts(ids)
             \/ Weights!RunReference(ids) \/ Weights!StageArena(ids, fp4)
                  \/ Weights!ServerReads(ids)
      PROVE  Fp4Inv' /\ Numbered'
  BY <1>1, <1>8, Fp4Reads
<1>9. ASSUME NEW ids \in Weights!Some, NEW fp4 \in BOOLEAN, Weights!StageCache(ids, fp4)
    PROVE Fp4Inv' /\ Numbered'
  BY <1>1, <1>9, Fp4Stage
<1>10. CASE Weights!Release
  BY <1>1, <1>10, Fp4Release
<1> QED  BY <1>2, <1>3, <1>4, <1>5, <1>6, <1>7, <1>8, <1>9, <1>10 DEF Weights!Next,
                                        Weights!Loading, Weights!Starting, Weights!Reading

-----------------------------------------------------------------------------
(***************************************************************************)
(* ExpertWeights: the invariant, and what follows from it.                 *)
(***************************************************************************)

\* A release of an int8 arena breaks it, as ReleaseBreaks says: nothing is said of those settings.
WeightsInv ==
  \/ weightsEnv.dtype = "int8" /\ weightsEnv.drops
  \/ /\ WeightsTypeOK /\ Numbered
     /\ weightsEnv.dtype = "int8" => Int8Inv
     /\ weightsEnv.dtype = "fp4" => Fp4Inv
     /\ weightsEnv.dtype = "gguf" => GgufInv

LEMMA WeightsStart ==
  ASSUME Weights!Init
  PROVE  WeightsInv
<1>1. /\ weightsEnv \in Weights!AllSettings /\ weightsEnv.arena8 \in BOOLEAN
      /\ weightsEnv.arena4 \in BOOLEAN
      /\ weightsEnv.pins \in BOOLEAN /\ step = "load"
      /\ target = [e \in Owned |-> Weights!Own] /\ param = [e \in Owned |-> Weights!Own]
      /\ cpu = Weights!NoCells /\ cache8 = Weights!NoCells /\ cache4 = Weights!NoCells
      /\ arena8 = [n |-> 0, on |-> weightsEnv.arena8]
      /\ arena4 = [there |-> FALSE, on |-> weightsEnv.arena4]
      /\ prep8 = FALSE /\ native = [ready |-> FALSE, on |-> FALSE, int8 |-> FALSE]
      /\ table4 = Weights!NoCells /\ table8 = Weights!NoTable /\ server = 0 /\ holds = {}
      /\ misread = {}
  BY DEF Weights!Init, Weights!AllSettings
<1>2. /\ Weights!Own \in Cells /\ Weights!None \in Cells /\ Weights!Own.n = 0
      /\ Weights!None.n = 0 /\ Weights!Own # Weights!File
  BY CellFacts, DifferentCells
<1>3. Weights!NoCells \in Held /\ Weights!NoTable \in [n : Nat, ptr : Held]
    /\ [e \in Owned |-> Weights!Own] \in Held
  BY <1>2 DEF Weights!NoCells, Weights!NoTable, Held
<1>4. WeightsTypeOK
  BY <1>1, <1>3 DEF WeightsTypeOK
<1>5. Numbered
  BY <1>1, <1>2 DEF Numbered, Weights!NoCells, Weights!NoTable
<1>6. ~Served /\ \A e \in Owned : Raw(e)
  BY <1>1 DEF Served, Raw, Untouched, Weights!NoCells
<1>7. Int8Inv
  BY <1>1, <1>2, <1>6 DEF Int8Inv, Slots8
<1>8. Fp4Inv
  BY <1>1, <1>6 DEF Fp4Inv, Arena4Kept, Slots4
<1>9. GgufInv
  BY <1>1, <1>2 DEF GgufInv
<1> QED  BY <1>4, <1>5, <1>7, <1>8, <1>9 DEF WeightsInv

LEMMA WeightsNext ==
  ASSUME WeightsInv, [Weights!Next]_Weights!vars
  PROVE  WeightsInv'
<1>1. CASE Weights!Next
  <2>1. weightsEnv' = weightsEnv
    BY <1>1, EnvKept
  <2>2. CASE weightsEnv.dtype = "int8" /\ weightsEnv.drops
    BY <2>1, <2>2 DEF WeightsInv
  <2>3. CASE ~(weightsEnv.dtype = "int8" /\ weightsEnv.drops)
    <3>1. /\ WeightsTypeOK /\ Numbered
          /\ weightsEnv.dtype = "int8" => Int8Inv
          /\ weightsEnv.dtype = "fp4" => Fp4Inv
          /\ weightsEnv.dtype = "gguf" => GgufInv
          /\ weightsEnv.dtype \in {"int8", "fp4", "gguf"}
      BY <2>3 DEF WeightsInv, WeightsTypeOK, Weights!AllSettings
    <3>2. WeightsTypeOK'
      BY <1>1, <3>1, WeightsTypeStep
    <3>3. CASE weightsEnv.dtype = "int8"
      BY <1>1, <2>1, <2>3, <3>1, <3>2, <3>3, Int8Step DEF WeightsInv
    <3>4. CASE weightsEnv.dtype = "fp4"
      BY <1>1, <2>1, <3>1, <3>2, <3>4, Fp4Step DEF WeightsInv
    <3>5. CASE weightsEnv.dtype = "gguf"
      BY <1>1, <2>1, <3>1, <3>2, <3>5, GgufStep DEF WeightsInv
    <3> QED  BY <3>1, <3>3, <3>4, <3>5
  <2> QED  BY <2>2, <2>3
<1>2. CASE UNCHANGED Weights!vars
  <2>1. UNCHANGED <<weightsEnv, step, target, param, cpu, cache8, cache4, arena8, arena4, prep8,
                    native,
                    table4, table8, server, holds, misread>>
    BY <1>2 DEF Weights!vars, Weights!arenas, Weights!tables
  <2>2. WeightsTypeOK => WeightsTypeOK'
    BY <2>1 DEF WeightsTypeOK
  <2>3. Numbered => Numbered'
    BY <2>1 DEF Numbered
  <2>4. Slots8' = Slots8 /\ Slots4' = Slots4 /\ Converts' = Converts /\ Served' = Served
    BY <2>1 DEF Slots8, Slots4, Converts, Served
  <2>5. ASSUME NEW e \in Owned
        PROVE  /\ Raw(e)' = Raw(e) /\ Loaded8(e)' = Loaded8(e) /\ Prepared8(e)' = Prepared8(e)
               /\ Loaded4(e)' = Loaded4(e) /\ Stored4(e)' = Stored4(e) /\ Cached8(e)' = Cached8(e)
    BY <2>1, <2>4 DEF Raw, Untouched, Loaded8, Prepared8, Loaded4, Stored4, Cached8, Copy8
  <2>6. Int8Inv => Int8Inv'
    BY <2>1, <2>4, <2>5 DEF Int8Inv
  <2>7. Weights!NoCells' = Weights!NoCells /\ Weights!NoTable' = Weights!NoTable
    BY DEF Weights!NoCells, Weights!NoTable
  <2>8. /\ Arena4Kept => Arena4Kept'
        /\ (Weights!ReleaseBreaks \/ Weights!NothingPrepared \/ misread = {})'
             = (Weights!ReleaseBreaks \/ Weights!NothingPrepared \/ misread = {})
    BY <2>1, <2>4 DEF Arena4Kept, Weights!ReleaseBreaks, Weights!NothingPrepared
  <2>9. Fp4Inv => Fp4Inv'
    BY <2>1, <2>4, <2>5, <2>7, <2>8 DEF Fp4Inv
  <2>10. GgufInv => GgufInv'
    BY <2>1 DEF GgufInv
  <2>11. weightsEnv' = weightsEnv
    BY <2>1
  <2> QED  BY <2>2, <2>3, <2>6, <2>9, <2>10, <2>11 DEF WeightsInv
<1> QED  BY <1>1, <1>2

LEMMA WeightsRead ==
  ASSUME WeightsInv
  PROVE  Weights!ReadersGetLoadedWeights
<1>1. CASE weightsEnv.dtype = "int8" /\ weightsEnv.drops
  BY <1>1 DEF Weights!ReadersGetLoadedWeights, Weights!ReleaseBreaks
<1>2. CASE ~(weightsEnv.dtype = "int8" /\ weightsEnv.drops)
  BY <1>2 DEF WeightsInv, Weights!ReadersGetLoadedWeights, Int8Inv, Fp4Inv, GgufInv, WeightsTypeOK,
              Weights!AllSettings
<1> QED  BY <1>1, <1>2

\* Where a prepared expert lives, no other cell holds its weights in the format of the checkpoint.
LEMMA WeightsStored ==
  ASSUME WeightsInv
  PROVE  Weights!ArenaIsOnlyStore
<1>0. \A S : Weights!Cardinality(S) = Cardinality(S)
  BY DEF Weights!Cardinality, Cardinality
<1> SUFFICES ASSUME step = "serve", weightsEnv.pins, NEW e \in Owned
             PROVE  /\ weightsEnv.dtype = "int8" /\ weightsEnv.arena8 /\ ~weightsEnv.drops =>
                         Cardinality(Weights!Stores(e, Weights!Formats.int8)) = 1
                    /\ weightsEnv.dtype = "fp4" /\ weightsEnv.arena4 =>
                         Weights!Stores(e, {"own", "arena4", "packed", "float"}) = {Weights!Slot4}
  BY <1>0 DEF Weights!ArenaIsOnlyStore
<1>1. Served
  BY DEF Served
<1>2. ASSUME weightsEnv.dtype = "int8", weightsEnv.arena8, ~weightsEnv.drops
      PROVE  Cardinality(Weights!Stores(e, Weights!Formats.int8)) = 1
  <2>1. /\ Slots8 /\ Prepared8(e) /\ ~arena4.there /\ target[e] # Weights!File /\ arena8.n \in Nat
    BY <1>1, <1>2 DEF WeightsInv, Int8Inv, Slots8, WeightsTypeOK
  <2>2. /\ cache8[e] = Weights!Slot8(arena8.n) /\ arena8.n # 0 /\ cache4[e] = Weights!None
        /\ param[e] \in {Weights!None, cache8[e]} /\ cpu[e] \in {Weights!None, cache8[e]}
        /\ <<e, cache8[e]>> \in holds
    BY <2>1 DEF Prepared8
  <2>3. cache8[e] # Weights!None /\ cache8[e].at = "arena8"
    BY <2>1, <2>2, CellFacts, DifferentCells
  <2>4. Weights!Living(e) = {cache8[e]}
    BY <2>1, <2>2, <2>3 DEF Weights!Living
  <2>5. Weights!Stores(e, Weights!Formats.int8) = {cache8[e]}
    BY <2>2, <2>3, <2>4 DEF Weights!Stores, Weights!Formats
  <2> QED  BY <2>5, FS_Singleton
<1>3. ASSUME weightsEnv.dtype = "fp4", weightsEnv.arena4
      PROVE  Weights!Stores(e, {"own", "arena4", "packed", "float"}) = {Weights!Slot4}
  <2>1. /\ Slots4 /\ Stored4(e) /\ Copy8(e) /\ target[e] \in {Weights!Own, Weights!Slot4}
        /\ arena8.n \in Nat
    BY <1>1, <1>3 DEF WeightsInv, Fp4Inv, Cached8, Slots4, WeightsTypeOK
  <2>2. /\ param[e] = Weights!None /\ cpu[e] = Weights!Slot4 /\ cache4[e] = Weights!Slot4
        /\ <<e, Weights!Slot4>> \in holds
        /\ target[e] # Weights!File
    BY <2>1, DifferentCells DEF Stored4
  <2>3. cache8[e] = Weights!None \/ cache8[e].at \in {"arena8", "private"}
    BY <2>1, CellFacts DEF Copy8
  <2>4. Weights!Slot8(arena8.n).at = "arena8" /\ Weights!Slot4.at = "arena4"
      /\ Weights!Slot4 # Weights!None
    BY <2>1, CellFacts, DifferentCells
  <2>5. ASSUME NEW c \in Weights!Living(e), c # Weights!Slot4  PROVE c.at \in {"arena8", "private"}
    BY <2>2, <2>3, <2>4, <2>5 DEF Weights!Living
  <2>6. Weights!Slot4 \in Weights!Living(e)
    BY <2>2, <2>4 DEF Weights!Living
  <2> QED  BY <2>2, <2>4, <2>5, <2>6 DEF Weights!Stores
<1> QED  BY <1>2, <1>3

(***************************************************************************)
(* The invariant, for any number of experts and any way they are loaded,   *)
(* converted, released and read (loader.py and cpu_backend.py).            *)
(***************************************************************************)
THEOREM WeightsInvariant == Weights!Spec => []WeightsInv
<1>1. Weights!Init => WeightsInv
  BY WeightsStart
<1>2. WeightsInv /\ [Weights!Next]_Weights!vars => WeightsInv'
  BY WeightsNext
<1> QED  BY <1>1, <1>2, PTL DEF Weights!Spec

-----------------------------------------------------------------------------
(***************************************************************************)
(* The behaviours of MCExpertMemory: each is one of a part.                *)
(***************************************************************************)
LEMMA PartsOfBehaviours ==
  MCSpec => Spec /\ Weights!Spec
<1>1. MCInit => Init /\ Weights!Init
  BY DEF MCInit
<1>2. [MCNext]_<<part, vars, weightsVars, ggufVars>> => [Next]_vars
  BY DEF MCNext
<1>3. [MCNext]_<<part, vars, weightsVars, ggufVars>> => [Weights!Next]_Weights!vars
  <2>1. weightsVars' = weightsVars => Weights!vars' = Weights!vars
    BY DEF weightsVars, Weights!vars, Weights!arenas, Weights!tables
  <2> QED  BY <2>1 DEF MCNext
<1> QED  BY <1>1, <1>2, <1>3, PTL DEF MCSpec, Spec, Weights!Spec

(***************************************************************************)
(* Whatever way a checkpoint came into memory and was converted, moved,    *)
(* released and converted again, every runner, staging and native server   *)
(* reads living memory with the weights that were loaded for the expert,   *)
(* in the format it expects (_materialize_cpu_weights, prepare_fp4_weights *)
(* and prepare_int8_weights of cpu_backend.py), but for the settings that  *)
(* ReleaseBreaks and NothingPrepared name.                                 *)
(***************************************************************************)
THEOREM ReadersGetLoadedWeightsHolds == MCSpec => []ReadersGetLoadedWeights
<1>1. WeightsInv => ReadersGetLoadedWeights
  BY WeightsRead DEF ReadersGetLoadedWeights
<1> QED  BY <1>1, PartsOfBehaviours, WeightsInvariant, PTL

(***************************************************************************)
(* While serving, the arena has the only copy of the weights in the format *)
(* of the checkpoint (cpu_backend.py:410-413 and 417-419).                 *)
(***************************************************************************)
THEOREM ArenaIsOnlyStoreHolds == MCSpec => []ArenaIsOnlyStore
<1>1. WeightsInv => ArenaIsOnlyStore
  BY WeightsStored DEF ArenaIsOnlyStore
<1> QED  BY <1>1, PartsOfBehaviours, WeightsInvariant, PTL

(***************************************************************************)
(* CallsGetTheirOwn in the behaviours of this module (submit_forward and   *)
(* sync_forward of cpu_backend.py).                                        *)
(***************************************************************************)
THEOREM CallsOfBehaviours == MCSpec => []CallsGetTheirOwn
  BY PartsOfBehaviours, CallsGetTheirOwnHolds, PTL
=============================================================================
