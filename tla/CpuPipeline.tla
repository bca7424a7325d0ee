----------------------------- MODULE CpuPipeline -----------------------------
(***************************************************************************)
(* One forward pass after another through the routed experts on the CPU:   *)
(* submit_forward and sync_forward of CPURoutedExpertsBackend              *)
(* (components/moe/cpu_backend.py) as MoE.forward calls them, the worker   *)
(* thread, and the CUDA streams, which execute what the main thread gave   *)
(* them later and in their own order.  The pinned buffers are shared by    *)
(* all layers: a layer uses the slot layer_idx % buffer_depth of them, and *)
(* a pass with another number of tokens replaces them.                     *)
(*                                                                         *)
(* Data is represented by the call it belongs to: <<pass, layer>>.         *)
(***************************************************************************)
EXTENDS Naturals, Sequences

CONSTANTS
  NLayers,    \* layers of the model
  Depth,      \* buffer_depth
  Batches,    \* numbers of tokens in a pass
  Threshold,  \* DEEPSEEK_CPU_DECODE_INLINE_THRESHOLD
  MaxPasses,  \* bound: forward passes
  MaxFaults   \* bound: exceptions

ASSUME PipelineAssumption ==
  NLayers \in Nat \ {0} /\ Depth \in Nat \ {0} /\ MaxPasses \in Nat

VARIABLES
  conf,     \* how = "executor" or "worker" (DEEPSEEK_CPU_PERSISTENT_WORKER);
            \* async: the all-reduce has a stream of its own;
            \* routes: the runner is _run_gguf_routes_native_forward
  pass, batch, layer,  \* where the main thread is
  single,   \* this pass computes expert by expert, with dispatch_forward
  pc,       \* "begin", "gate", "submit", "inline", "shared", "sync"
  pending,  \* pending[l]: _pending of the backend of layer l
  temp,     \* temp_bs and temp_buffer
  host,     \* host[b]: the buffers of number b; 0 are the buffers of single items
  x, y,     \* GPU memory: the hidden states, which those of the next call replace,
            \* and the result of the all-reduce
  stream,   \* stream[s]: the operations that s has not executed
  ran,      \* ran[s]: how many it has executed
  tasks,    \* what the worker thread has to do, the first one at hand
  running,  \* the worker is in the runner
  failed,   \* the calls whose runner has raised
  left,     \* the calls of submit_forward whose runner has left the output as it was
  faults

worker == <<tasks, running, failed, left>>
vars == <<conf, pass, batch, single, layer, pc, pending, temp, host, x, y, stream, ran, worker, faults>>
gpu == <<host, x, y, ran>>

Layers == 0 .. NLayers - 1
Main == <<"main", 0>>
Copying(l) == <<"copy", l>>  \* _copy_stream of a backend
Reduce == <<"reduce", 0>>    \* _allreduce_stream
Streams == {Main, Reduce} \cup {Copying(l) : l \in Layers}
Slot == layer % Depth
Call == <<pass, layer>>
Nobody == <<0, 0>>
Zeros == [s \in 0 .. Depth - 1 |-> Nobody]
Buffers == [in |-> Zeros, out |-> Zeros, gpu |-> Zeros]

Init ==
  /\ conf \in [how : {"executor", "worker"}, async : BOOLEAN, routes : BOOLEAN]
  /\ pass = 0 /\ batch = 0 /\ single = FALSE /\ layer = 0 /\ pc = "begin"
  /\ pending = [l \in Layers |-> Nobody]
  /\ temp = [bs |-> 0, n |-> 0]
  /\ host = [b \in 0 .. MaxPasses |-> Buffers]
  /\ x = Nobody /\ y = Nobody
  /\ stream = [s \in Streams |-> <<>>] /\ ran = [s \in Streams |-> 0]
  /\ tasks = <<>> /\ running = FALSE /\ failed = {} /\ left = {}
  /\ faults = 0

-----------------------------------------------------------------------------
(***************************************************************************)
(* Streams.  Wait(s) is wait_stream(s): what follows is executed after     *)
(* what s has been given so far.                                           *)
(***************************************************************************)
Sent(s) == ran[s] + Len(stream[s])
Wait(s) == [op |-> "wait", for |-> s, upto |-> Sent(s)]
Op(op, b, slot) == [op |-> op, call |-> Call, buf |-> b, slot |-> slot]

Execute(s) ==
  /\ stream[s] # <<>>
  /\ LET o == Head(stream[s]) IN
       /\ o.op = "wait" => ran[o.for] >= o.upto
       /\ x' = IF o.op = "gate" THEN o.call ELSE x
       /\ y' = IF o.op = "reduce" THEN host[o.buf].gpu[o.slot] ELSE y
       /\ host' = CASE o.op = "in" -> [host EXCEPT ![o.buf].in[o.slot] = IF x = o.call THEN x ELSE Nobody]
                    [] o.op = "out" -> [host EXCEPT ![o.buf].gpu[o.slot] = host[o.buf].out[o.slot]]
                    [] OTHER -> host
  /\ stream' = [stream EXCEPT ![s] = Tail(@)]
  /\ ran' = [ran EXCEPT ![s] = @ + 1]
  /\ UNCHANGED <<conf, pass, batch, single, layer, pc, pending, temp, worker, faults>>

-----------------------------------------------------------------------------
\* The thread of _PersistentCPUWorker or of the executor: _run_cpu_task.
WorkerStart ==
  /\ tasks # <<>> /\ ~running
  /\ ran[Copying(Head(tasks).call[2])] >= Head(tasks).ready
  /\ running' = TRUE
  /\ UNCHANGED <<conf, pass, batch, single, layer, pc, pending, temp, gpu, stream, tasks, failed, left, faults>>

(***************************************************************************)
(* The runner.  Without a local route _run_gguf_routes_native_forward      *)
(* returns before it writes to the output; the others fill it with zeros.  *)
(***************************************************************************)
Run(c, b, s) ==
  \/ host' = [host EXCEPT ![b].out[s] = host[b].in[s]] /\ UNCHANGED left
  \/ conf.routes /\ left' = left \cup {c} /\ UNCHANGED host

WorkerEnd ==
  /\ running
  /\ running' = FALSE
  /\ Run(Head(tasks).call, Head(tasks).buf, Head(tasks).slot)
  /\ tasks' = Tail(tasks)
  /\ UNCHANGED <<conf, pass, batch, single, layer, pc, pending, temp, x, y, stream, ran, failed, faults>>

-----------------------------------------------------------------------------
(***************************************************************************)
(* The main thread.                                                        *)
(***************************************************************************)
Begin ==
  /\ pc = "begin" /\ pass < MaxPasses
  /\ pass' = pass + 1 /\ batch' \in Batches /\ single' \in BOOLEAN /\ layer' = 0
  /\ pc' = "gate"
  /\ UNCHANGED <<conf, pending, temp, gpu, stream, worker, faults>>

\* The attention and the gate of the layer give the hidden states and the routes.
Gate ==
  /\ pc = "gate"
  /\ stream' = [stream EXCEPT ![Main] = Append(@, Op("gate", 0, 0))]
  /\ pc' = "submit"
  /\ UNCHANGED <<conf, pass, batch, single, layer, pending, temp, gpu, worker, faults>>

\* CPURoutedExpertsBuffer.get_buffer.
Buffer == IF temp.bs = batch THEN temp ELSE [bs |-> batch, n |-> temp.n + 1]

\* A mutant of CopyInputs: the copy does not wait for the kernels before it.
CopyInputsAtOnce(b) == <<Op("in", b, Slot)>>

\* _copy_inputs_to_cpu, on the copy stream of the layer.
CopyInputs(b) == <<Wait(Main), Op("in", b, Slot)>>

\* What is in flight cannot be submitted again.
Refused ==
  /\ pc = "submit" /\ ~single /\ pending[layer] # Nobody
  /\ pc' = "begin"
  /\ UNCHANGED <<conf, pass, batch, single, layer, pending, temp, gpu, stream, worker, faults>>

Submit ==
  /\ pc = "submit" /\ ~single /\ pending[layer] = Nobody
  /\ temp' = Buffer
  /\ LET s == Copying(layer)
         ops == CopyInputs(Buffer.n)
     IN /\ stream' = [stream EXCEPT ![s] = @ \o ops]
        /\ IF batch <= Threshold
             THEN /\ pc' = "inline"
                  /\ UNCHANGED <<pending, tasks>>
             ELSE /\ conf.how = "worker" => tasks = <<>>
                  /\ tasks' = Append(tasks, [call |-> Call, buf |-> Buffer.n, slot |-> Slot,
                                             ready |-> Sent(s) + Len(ops)])
                  /\ pending' = [pending EXCEPT ![layer] = Call]
                  /\ pc' = "shared"
  /\ UNCHANGED <<conf, pass, batch, single, layer, gpu, running, failed, left, faults>>

\* A short pass is computed by the main thread itself.
Inline ==
  /\ pc = "inline" /\ stream[Copying(layer)] = <<>>
  /\ Run(Call, temp.n, Slot)
  /\ pending' = [pending EXCEPT ![layer] = Call]
  /\ pc' = "shared"
  /\ UNCHANGED <<conf, pass, batch, single, layer, temp, x, y, stream, ran, tasks, running, failed, faults>>

\* The shared experts are launched meanwhile.
Shared ==
  /\ pc = "shared"
  /\ pc' = "sync"
  /\ UNCHANGED <<conf, pass, batch, single, layer, pending, temp, gpu, stream, worker, faults>>

Advance ==
  IF layer = NLayers - 1 THEN pc' = "begin" /\ layer' = layer ELSE pc' = "gate" /\ layer' = layer + 1

\* The sum with the shared experts; "leftover" if it adds what the runner has left.
Use(b) == Op(IF Call \in left THEN "leftover" ELSE "use", b, Slot)

\* A mutant of Returned: the current stream does not wait for the all-reduce.
ReturnedAtOnce(b) ==
  IF conf.async
    THEN [stream EXCEPT ![Reduce] = @ \o <<Op("out", b, Slot), Op("reduce", b, Slot)>>,
                        ![Main] = Append(@, Use(b))]
    ELSE [stream EXCEPT ![Main] = @ \o <<Op("out", b, Slot), Use(b)>>]

(***************************************************************************)
(* copy_cpu_output_to_device, and what reads its result: the sum with the  *)
(* shared experts, after the all-reduce if that has a stream of its own.   *)
(***************************************************************************)
Returned(b) ==
  IF conf.async
    THEN LET ops == <<Op("out", b, Slot), Op("reduce", b, Slot)>> IN
         [stream EXCEPT
           ![Reduce] = @ \o ops,
           ![Main] = @ \o <<[op |-> "wait", for |-> Reduce, upto |-> Sent(Reduce) + Len(ops)],
                            Use(b)>>]
    ELSE [stream EXCEPT ![Main] = @ \o <<Op("out", b, Slot), Use(b)>>]

\* sync_forward: the buffer is looked up again; an exception of the runner is raised here.
Finished == pending[layer] # Nobody /\ \A i \in 1 .. Len(tasks) : tasks[i].call # pending[layer]
Sync ==
  /\ pc = "sync" /\ Finished
  /\ pending' = [pending EXCEPT ![layer] = Nobody]
  /\ IF pending[layer] \in failed
       THEN pc' = "begin" /\ UNCHANGED <<layer, temp, stream>>
       ELSE Advance /\ temp' = Buffer /\ stream' = Returned(Buffer.n)
  /\ left' = left \ {pending[layer]}
  /\ UNCHANGED <<conf, pass, batch, single, gpu, tasks, running, failed, faults>>

\* dispatch_forward copies, computes and copies again without any overlap.
Dispatch ==
  /\ pc = "submit" /\ single /\ stream[Main] = <<>>
  /\ host' = [host EXCEPT ![0].in[Slot] = x, ![0].out[Slot] = x, ![0].gpu[Slot] = x]
  /\ stream' = [stream EXCEPT ![Main] = Append(@, Op("dispatched", 0, Slot))]
  /\ Advance
  /\ UNCHANGED <<conf, pass, batch, single, pending, temp, x, y, ran, worker, faults>>

\* An exception of the main thread; between two calls of the backend it leaves _pending set.
Raise ==
  /\ pc \in {"gate", "shared"} \/ (pc = "inline" /\ stream[Copying(layer)] = <<>>)
  /\ faults < MaxFaults
  /\ faults' = faults + 1
  /\ pc' = "begin"
  /\ UNCHANGED <<conf, pass, batch, single, layer, pending, temp, gpu, stream, worker>>

RunnerRaises ==
  /\ running /\ faults < MaxFaults
  /\ faults' = faults + 1
  /\ running' = FALSE /\ tasks' = Tail(tasks) /\ failed' = failed \cup {Head(tasks).call}
  /\ UNCHANGED <<conf, pass, batch, single, layer, pc, pending, temp, gpu, stream, left>>

Next ==
  \/ \E s \in Streams : Execute(s)
  \/ WorkerStart \/ WorkerEnd \/ RunnerRaises
  \/ Begin \/ Gate \/ Refused \/ Submit \/ Inline \/ Shared \/ Sync \/ Dispatch \/ Raise

Spec == Init /\ [][Next]_vars

-----------------------------------------------------------------------------
(***************************************************************************)
(* Whatever the streams and the worker do late, the runner reads the       *)
(* hidden states of its own call, as long as the pass of the call is not   *)
(* given up, and what is added to the shared experts is the result of the  *)
(* same call, unless a GGUF runner has left there that of an earlier one.  *)
(* A pass that was given up between submit_forward and sync_forward ends   *)
(* this for good: its copy may still come into the slot of another layer,  *)
(* and every later pass that submits to that layer is refused.             *)
(***************************************************************************)
Abandoned == \E l \in Layers : pending[l] # Nobody /\ pending[l][1] # pass
RunnerReadsItsCall ==
  LET t == Head(tasks) IN running /\ t.call[1] = pass => host[t.buf].in[t.slot] = t.call
SumReadsItsCall ==
  stream[Main] # <<>> =>
    LET o == Head(stream[Main]) IN
      /\ o.op = "use" => (IF conf.async THEN y ELSE host[o.buf].gpu[o.slot]) = o.call
      /\ o.op = "dispatched" => host[0].gpu[o.slot] = o.call
\* Every call of the CPU experts gets its own input and output.
CallsGetTheirOwn == Abandoned \/ (RunnerReadsItsCall /\ SumReadsItsCall)
=============================================================================
