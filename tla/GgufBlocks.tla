----------------------------- MODULE GgufBlocks -----------------------------
(***************************************************************************)
(* The quantized blocks of a GGUF checkpoint on the GPU (models/           *)
(* deepseek_v4/runtime.py): whole layers staged for a prefill, the blocks  *)
(* of single experts in _GGUF_GPU_EXPERT_LRU, filled by prefetches on the  *)
(* copy stream, and the slots of a layer for single tokens.                *)
(*                                                                         *)
(* Memory that Python has dropped is given out again by the allocator of   *)
(* PyTorch at once, to the stream it was allocated on, unless record_stream *)
(* has told it of another one.  The three matrices of an expert are one    *)
(* block.  mainQ is the current stream and copyQ the copy stream.          *)
(***************************************************************************)
EXTENDS Naturals, Sequences, FiniteSets, SequencesExt

CONSTANTS
  N,         \* number of layers
  Experts,   \* the local experts of a layer, by number
  Slots,     \* DEEPSEEK_GGUF_GPU_DECODE_SLOT_CACHE_SIZE, at least 1
  MainMemory, CopyMemory,  \* bound: blocks of GPU memory, allocated on either stream
  Nowhere,
  Depth      \* bound: operations on a stream

AllSettings ==
  [active : BOOLEAN,   \* ..GGUF_GPU_PREFILL_ACTIVE_EXPERT: a prefill stages single experts
   window : 1..N,      \* ..GGUF_GPU_PREFILL_MOE_PREFETCH_LAYERS
   cached : 1..N,      \* ..GGUF_GPU_PREFILL_MOE_MAX_CACHED_LAYERS
   keepStaged : BOOLEAN, \* ..GGUF_GPU_PREFILL_MOE_KEEP_STAGED
   waits : BOOLEAN,    \* ..GGUF_PREFILL_COPY_WAIT_CURRENT
   decode : {"grouped", "slots", "active"},  \* ..GGUF_GPU_DECODE_GROUPED, .._SLOT_CACHE
   ahead : BOOLEAN,    \* .._DECODE_ACTIVE_PREFETCH and the prediction for the next layer
   prefetch : BOOLEAN, \* ..GGUF_GPU_PREFETCH
   keep : BOOLEAN,     \* .._ACTIVE_KEEP_CACHE, .._DECODE_KEEP_CACHE
   room : 0..3]        \* DEEPSEEK_GGUF_GPU_DECODE_CACHE_BYTES, in blocks

VARIABLES
  env,     \* the settings of the process
  phase,   \* DEEPSEEK_PD_ACTIVE_PHASE
  next,    \* the next layer of the pass, 0 if none runs
  todo,    \* the calls that are still to be made for the current layer
  stage,   \* stage[l]: block, event and pending of _gguf_layer_stage
  layers,  \* _gguf_layer_cache_lru, the oldest first
  lru,     \* entries of _GGUF_GPU_EXPERT_LRU, the oldest first
  spare,   \* spare[k]: _gguf_cuda_cache
  coming,  \* _gguf_cuda_prefetch_pending
  event,   \* event[k]: _gguf_cuda_prefetch_events
  held,    \* what the routes of a grouped call were given so far
  slots,   \* slots[l]: _gguf_decode_slot_cache, the oldest first
  inSlot,  \* inSlot[l]: the experts whose blocks are in the slots
  mainQ, copyQ,
  wrong    \* a kernel has read something else than it was launched for

cache == <<lru, spare, coming, event>>
slotted == <<slots, inSlot>>
staging == <<stage, layers>>
queues == <<mainQ, copyQ>>
vars == <<env, phase, next, todo, staging, cache, held, slotted, queues, wrong>>

Layers == 1..N
Keys == Layers \X Experts
NotStaged == [block |-> Nowhere, event |-> 0, pending |-> FALSE]

Init ==
  /\ env \in AllSettings
  /\ phase = "prefill" /\ next = 0 /\ todo = <<>>
  /\ stage = [l \in Layers |-> NotStaged] /\ layers = <<>>
  /\ lru = <<>> /\ spare = [k \in Keys |-> Nowhere]
  /\ coming = {} /\ event = [k \in Keys |-> 0] /\ held = <<>>
  /\ slots = [l \in Layers |-> <<>>] /\ inSlot = [l \in Layers |-> [s \in 1..Slots |-> Nowhere]]
  /\ mainQ = <<>> /\ copyQ = <<>> /\ wrong = FALSE

-----------------------------------------------------------------------------
(***************************************************************************)
(* Streams and the allocator.                                              *)
(***************************************************************************)
MainOps == {mainQ[i] : i \in DOMAIN mainQ}
CopyOps == {copyQ[i] : i \in DOMAIN copyQ}
Fresh == CHOOSE i \in 1..2 * Depth + 1 : \A o \in MainOps \cup CopyOps : o.id # i
\* uses are the blocks of an operation, each with what is to be in it.
Op(kind, after, uses, recorded) ==
  [id |-> Fresh, kind |-> kind, after |-> after, uses |-> uses, recorded |-> recorded]
Blocks(o) == {u[1] : u \in o.uses}
\* The second of two operations that are given to a stream together.
Second(o) == [o EXCEPT !.id = CHOOSE i \in 1..2 * Depth + 1 : i # Fresh /\ \A p \in MainOps \cup CopyOps : p.id # i]

Referenced ==
  {stage[l].block : l \in Layers} \cup {lru[i].block : i \in DOMAIN lru}
    \cup {spare[k] : k \in Keys} \cup {held[i] : i \in DOMAIN held}

\* What torch.empty may return on a stream: it does not wait for the stream itself.
Free(s) ==
  {b \in (IF s = "main" THEN MainMemory ELSE CopyMemory) \ Referenced :
    \A o \in (IF s = "main" THEN CopyOps ELSE MainOps) : b \in Blocks(o) => ~o.recorded}

(***************************************************************************)
(* An operation runs.  A kernel reads something else if a copy that it     *)
(* reads has not run, or if another copy to that block has run after it.   *)
(* After an operation has run nobody waits for it.                         *)
(***************************************************************************)
Past(q, i) == [n \in DOMAIN q |-> IF q[n].after = i THEN [q[n] EXCEPT !.after = 0] ELSE q[n]]
Waiting(kind) == {o \in MainOps \cup CopyOps : o.kind = kind}
Copying == UNION {o.uses : o \in Waiting("copy")}
Spoils(o) ==
  IF o.kind = "kernel" THEN o.uses \cap Copying # {}
  ELSE o.kind = "copy" /\ \E k \in Waiting("kernel") : \E u \in k.uses \ Copying : u[1] \in Blocks(o)
Happens(o) ==
  /\ o.after = 0
  /\ wrong' = (wrong \/ Spoils(o))
  /\ stage' = [l \in Layers |-> IF stage[l].event = o.id THEN [stage[l] EXCEPT !.event = 0] ELSE stage[l]]
  /\ event' = [k \in Keys |-> IF event[k] = o.id THEN 0 ELSE event[k]]
  /\ UNCHANGED <<env, phase, next, todo, layers, lru, spare, coming, held, slotted>>

RunMain ==
  /\ mainQ # <<>> /\ Happens(Head(mainQ))
  /\ mainQ' = Tail(mainQ) /\ copyQ' = Past(copyQ, Head(mainQ).id)
RunCopy ==
  /\ copyQ # <<>> /\ Happens(Head(copyQ))
  /\ copyQ' = Tail(copyQ) /\ mainQ' = Past(mainQ, Head(copyQ).id)

-----------------------------------------------------------------------------
(***************************************************************************)
(* The calls of a pass.  all are the experts the layer is routed to.       *)
(***************************************************************************)
Call(op, l, e, all) == [op |-> op, at |-> l, e |-> e, all |-> all]
OfLayer(op, l) == Call(op, l, Nowhere, <<>>)
Each(op, l, all) == [i \in DOMAIN all |-> Call(op, l, all[i], all)]
Sync == OfLayer("sync", 0)

\* Host code reads the routes, which waits for the stream that computes them.
Singly(l, e, all) ==
  (IF env.prefetch THEN <<Call("prefetch", l, e, all)>> ELSE <<>>)
    \o <<Call("fused", l, e, all)>>
    \o (IF env.keep THEN <<>> ELSE <<Call("clear", l, e, all)>>)
ActiveExperts(l, all) == <<Sync>> \o FlattenSeq([i \in DOMAIN all |-> Singly(l, all[i], all)])

\* _forward_gguf_decode_grouped, without and with slots.
Grouped(l, all) == Each("get", l, all) \o <<Call("stack", l, Nowhere, all)>>
Slotted(l, all) == Each("slot", l, all) \o <<Call("single", l, Nowhere, all)>>

\* The routes of a call, as they are sorted.
Routes == {SetToSortSeq(ids, <) : ids \in (SUBSET Experts) \ {{}}}

\* The window of layers that are staged ahead, around the forward of one.
StagedLayer(l) ==
  (IF l = 1 THEN [i \in 1..env.window |-> OfLayer("stage", i)] ELSE <<>>)
    \o <<OfLayer("layer", l)>>
    \o (IF env.keepStaged THEN <<>> ELSE <<OfLayer("release", l)>>)
    \o (IF l + env.window <= N THEN <<OfLayer("stage", l + env.window)>> ELSE <<>>)

\* The prefetches before a grouped decode: of its own experts and of the next layer's.
Ahead(l, all, guess) ==
  IF ~env.ahead THEN <<>>
  ELSE <<Sync>> \o Each("prefetch", l, all)
         \o (IF l < N THEN <<Sync>> \o Each("prefetch", l + 1, guess) ELSE <<>>)

Settled == todo = <<>> /\ Len(layers) <= env.cached
StartPass ==
  /\ Settled /\ next = 0
  /\ next' = 1
  /\ UNCHANGED <<env, phase, todo, staging, cache, held, slotted, queues, wrong>>

\* MoE.forward, and what the Transformer does around it.
NextLayer ==
  /\ Settled /\ next # 0
  /\ next' = IF next < N THEN next + 1 ELSE 0
  /\ IF phase = "prefill" /\ ~env.active
       THEN todo' = StagedLayer(next)
       ELSE \E all \in Routes :
              IF phase = "prefill" \/ env.decode = "active"
                THEN todo' = ActiveExperts(next, all)
                ELSE \E guess \in {<<>>} \cup Routes :
                       /\ guess # <<>> => env.ahead /\ next < N
                       /\ todo' = Ahead(next, all, guess) \o <<Sync>>
                                    \o IF env.decode = "slots" /\ Len(all) <= Slots
                                         THEN Slotted(next, all) ELSE Grouped(next, all)
  /\ UNCHANGED <<env, phase, staging, cache, held, slotted, queues, wrong>>

\* release_gpu_prefill_moe_cache, and the next request after the last token is read.
Releases(l) == <<OfLayer("release", l)>> \o Each("clear", l, SetToSortSeq(Experts, <))
EndPrefill ==
  /\ Settled /\ next = 0 /\ phase = "prefill"
  /\ phase' = "decode" /\ todo' = FlattenSeq([l \in Layers |-> Releases(l)])
  /\ UNCHANGED <<env, next, staging, cache, held, slotted, queues, wrong>>
NewRequest ==
  /\ Settled /\ next = 0 /\ phase = "decode" /\ mainQ = <<>>
  /\ phase' = "prefill"
  /\ UNCHANGED <<env, next, todo, staging, cache, held, slotted, queues, wrong>>

-----------------------------------------------------------------------------
call == Head(todo)
me == call.at
key == <<me, call.e>>
Is(op) == todo # <<>> /\ call.op = op /\ Len(layers) <= env.cached
Done == todo' = Tail(todo)

Synchronize ==
  /\ Is("sync") /\ mainQ = <<>>
  /\ Done
  /\ UNCHANGED <<env, phase, next, staging, cache, held, slotted, queues, wrong>>

(***************************************************************************)
(* Layers: _stage_gguf_layer_blocks, called ahead or by the wait itself,   *)
(* wait_gguf_gpu_prefill_moe, and release_gguf_gpu_prefill_moe.            *)
(***************************************************************************)
Touched(l) == Append(SelectSeq(layers, LAMBDA k : k # l), l)

StageLayer(s) ==
  /\ stage[me].block = Nowhere
  /\ \E b \in Free(s) :
       /\ LET last == IF mainQ = <<>> THEN 0 ELSE mainQ[Len(mainQ)].id
              o == Op("copy", IF s = "copy" /\ env.waits THEN last ELSE 0, {<<b, <<me, 0>>>>}, TRUE)
          IN /\ stage' = [stage EXCEPT ![me] = [block |-> b, event |-> o.id, pending |-> TRUE]]
             /\ IF s = "copy"
                  THEN Len(copyQ) < Depth /\ copyQ' = Append(copyQ, o) /\ UNCHANGED mainQ
                  ELSE Len(mainQ) < Depth /\ mainQ' = Append(mainQ, o) /\ UNCHANGED copyQ
  /\ layers' = Touched(me)
  /\ UNCHANGED <<env, phase, next, cache, held, slotted, wrong>>

StageAhead == Is("stage") /\ StageLayer("copy") /\ Done
StageNow == Is("layer") /\ StageLayer("main") /\ UNCHANGED todo
StagedAlready ==
  /\ Is("stage") /\ stage[me].block # Nowhere
  /\ layers' = Touched(me)
  /\ Done
  /\ UNCHANGED <<env, phase, next, stage, cache, held, slotted, queues, wrong>>

\* The kernels of the layer, after the wait; their stream is recorded.
Layer ==
  /\ Is("layer") /\ stage[me].block # Nowhere /\ Len(mainQ) < Depth
  /\ LET o == Op("kernel", IF stage[me].pending THEN stage[me].event ELSE 0,
                 {<<stage[me].block, <<me, 0>>>>}, TRUE)
     IN mainQ' = Append(mainQ, o)
  /\ stage' = [stage EXCEPT ![me].pending = FALSE]
  /\ layers' = Touched(me)
  /\ Done
  /\ UNCHANGED <<env, phase, next, cache, held, slotted, copyQ, wrong>>

Drop(l) ==
  /\ stage[l].pending => stage[l].event = 0
  /\ stage' = [stage EXCEPT ![l] = NotStaged]
  /\ layers' = SelectSeq(layers, LAMBDA k : k # l)
  /\ UNCHANGED <<env, phase, next, cache, held, slotted, queues, wrong>>
ReleaseLayer == Is("release") /\ Drop(me) /\ Done
\* _touch_gguf_layer_cache, for the oldest layer.
Evict == Len(layers) > env.cached /\ Drop(Head(layers)) /\ UNCHANGED todo

-----------------------------------------------------------------------------
(***************************************************************************)
(* Experts.                                                                *)
(***************************************************************************)
Entry(k) == {lru[i].block : i \in {j \in DOMAIN lru : lru[j].key = k}}
Rest(k) == SelectSeq(lru, LAMBDA n : n.key # k)

\* insert of the LRU; what it refuses, the expert keeps itself.
Inserted(k, b) ==
  IF env.room = 0
    THEN lru' = Rest(k) /\ spare' = [spare EXCEPT ![k] = b]
    ELSE /\ LET rest == Rest(k)
                over == IF Len(rest) >= env.room THEN Len(rest) - env.room + 1 ELSE 0
            IN lru' = SubSeq(rest, over + 1, Len(rest)) \o <<[key |-> k, block |-> b]>>
         /\ UNCHANGED spare

\* prefetch_cuda_gguf.
Prefetched ==
  /\ Is("prefetch") /\ (Entry(key) # {} \/ key \in coming)
  /\ Done
  /\ UNCHANGED <<env, phase, next, staging, cache, held, slotted, queues, wrong>>
Prefetch ==
  /\ Is("prefetch") /\ Entry(key) = {} /\ key \notin coming /\ Len(copyQ) < Depth
  /\ \E b \in Free("copy") :
       /\ Inserted(key, b)
       /\ copyQ' = Append(copyQ, Op("copy", 0, {<<b, key>>}, TRUE))
  /\ coming' = coming \cup {key} /\ event' = [event EXCEPT ![key] = Fresh]
  /\ Done
  /\ UNCHANGED <<env, phase, next, staging, held, slotted, mainQ, wrong>>

(***************************************************************************)
(* _gguf_cuda_get_blocks: what is there, after the event of its prefetch,  *)
(* or a copy on the current stream.  use(b) are the operations that follow *)
(* on the current stream.                                                  *)
(***************************************************************************)
Kept == IF Entry(key) # {} THEN CHOOSE b \in Entry(key) : TRUE ELSE spare[key]

\* A mutant of Await: the event of the prefetch is not waited for.
AwaitNot(o) == o

\* wait_event, before the operation that follows.
Await(o) == [o EXCEPT !.after = event[key]]

Got(b, reads) ==
  \/ /\ b = Kept /\ b # Nowhere
     /\ lru' = IF Entry(key) # {} THEN Append(Rest(key), [key |-> key, block |-> b]) ELSE lru
     /\ event' = [event EXCEPT ![key] = 0] /\ coming' = coming \ {key}
     /\ Len(mainQ) < Depth
     /\ mainQ' = mainQ \o IF reads = <<>> /\ event[key] = 0 THEN <<>>
                          ELSE IF reads = <<>> THEN <<Await(Op("wait", 0, {}, FALSE))>>
                          ELSE <<Await(reads[1])>>
     /\ UNCHANGED spare
  \/ /\ Kept = Nowhere /\ b \in Free("main")
     /\ Inserted(key, b)
     /\ Len(mainQ) < Depth - 1
     /\ mainQ' = mainQ \o <<Op("copy", 0, {<<b, key>>}, FALSE)>>
                       \o [i \in DOMAIN reads |-> Second(reads[i])]
     /\ UNCHANGED <<coming, event>>

\* A mutant of FusedKernel: the current stream is not recorded.
FusedKernelUnrecorded(b) == Op("kernel", 0, {<<b, key>>}, FALSE)

\* The kernels of _gguf_cuda_fused_forward, whose stream is recorded.
FusedKernel(b) == Op("kernel", 0, {<<b, key>>}, TRUE)

Fused ==
  /\ Is("fused")
  /\ \E b \in MainMemory \cup CopyMemory : Got(b, <<FusedKernel(b)>>)
  /\ Done
  /\ UNCHANGED <<env, phase, next, staging, held, slotted, copyQ, wrong>>

\* Blocks that cannot be read: the expert is computed on the CPU.
FusedFails ==
  /\ Is("fused") /\ Kept = Nowhere
  /\ Done
  /\ UNCHANGED <<env, phase, next, staging, cache, held, slotted, queues, wrong>>

\* clear_cuda_gguf_cache.
Clear ==
  /\ Is("clear") /\ event[key] = 0
  /\ lru' = Rest(key) /\ spare' = [spare EXCEPT ![key] = Nowhere]
  /\ coming' = coming \ {key} /\ UNCHANGED event
  /\ Done
  /\ UNCHANGED <<env, phase, next, staging, held, slotted, queues, wrong>>

\* The blocks of a grouped call, one expert after another.
Get ==
  /\ Is("get")
  /\ \E b \in MainMemory \cup CopyMemory : Got(b, <<>>) /\ held' = Append(held, b)
  /\ Done
  /\ UNCHANGED <<env, phase, next, staging, slotted, copyQ, wrong>>

\* torch.stack copies them on the current stream, which is not recorded.
Stack ==
  /\ Is("stack") /\ Len(mainQ) < Depth
  /\ mainQ' = Append(mainQ, Op("kernel", 0, {<<held[i], <<me, call.all[i]>>>> : i \in DOMAIN held}, FALSE))
  /\ held' = <<>>
  /\ Done
  /\ UNCHANGED <<env, phase, next, staging, cache, slotted, copyQ, wrong>>

\* If a block cannot be read the experts are computed one by one.
GetFails ==
  /\ Is("get") /\ Kept = Nowhere
  /\ held' = <<>>
  /\ todo' = ActiveExperts(me, call.all)
  /\ UNCHANGED <<env, phase, next, staging, cache, slotted, queues, wrong>>

-----------------------------------------------------------------------------
(***************************************************************************)
(* _gguf_decode_slot_cache_get.  Its copies and the kernel are on the      *)
(* current stream, in this order.                                          *)
(***************************************************************************)
Mine == slots[me]
Others == SelectSeq(Mine, LAMBDA n : n.e # call.e)
Has == {Mine[i].slot : i \in {j \in DOMAIN Mine : Mine[j].e = call.e}}
Unused == {s \in 1..Slots : \A i \in DOMAIN Mine : Mine[i].slot # s}

\* The slot for an expert that has none, if need be that of the oldest, and the entries that stay.
SlotFor ==
  IF Len(Mine) >= Slots
    THEN [slot |-> Head(Mine).slot, stay |-> Tail(Mine)]
    ELSE [slot |-> CHOOSE s \in Unused : \A t \in Unused : s <= t, stay |-> Mine]

SlotHit ==
  /\ Is("slot") /\ Has # {}
  /\ LET s == CHOOSE s \in Has : TRUE IN
       /\ slots' = [slots EXCEPT ![me] = Append(Others, [e |-> call.e, slot |-> s])]
       /\ held' = Append(held, s)
  /\ Done
  /\ UNCHANGED <<env, phase, next, staging, cache, inSlot, queues, wrong>>
SlotMiss ==
  /\ Is("slot") /\ Has = {}
  /\ slots' = [slots EXCEPT ![me] = Append(SlotFor.stay, [e |-> call.e, slot |-> SlotFor.slot])]
  /\ inSlot' = [inSlot EXCEPT ![me][SlotFor.slot] = call.e]
  /\ held' = Append(held, SlotFor.slot)
  /\ Done
  /\ UNCHANGED <<env, phase, next, staging, cache, queues, wrong>>

\* The blocks cannot be read after a slot was taken for them.
SlotFails ==
  /\ Is("slot") /\ Has = {}
  /\ slots' = [slots EXCEPT ![me] = SlotFor.stay]
  /\ held' = <<>>
  /\ todo' = Grouped(me, call.all)
  /\ UNCHANGED <<env, phase, next, staging, cache, inSlot, queues, wrong>>

\* The single-token kernel reads the slots that the routes were given.
Single ==
  /\ Is("single")
  /\ wrong' = (wrong \/ \E i \in DOMAIN held : inSlot[me][held[i]] # call.all[i])
  /\ held' = <<>>
  /\ Done
  /\ UNCHANGED <<env, phase, next, staging, cache, slotted, queues>>

Next ==
  \/ RunMain \/ RunCopy
  \/ StartPass \/ NextLayer \/ EndPrefill \/ NewRequest \/ Synchronize
  \/ StageAhead \/ StageNow \/ StagedAlready \/ Layer \/ ReleaseLayer \/ Evict
  \/ Prefetched \/ Prefetch \/ Fused \/ FusedFails \/ Clear \/ Get \/ Stack \/ GetFails
  \/ SlotHit \/ SlotMiss \/ SlotFails \/ Single

Spec == Init /\ [][Next]_vars

-----------------------------------------------------------------------------
(***************************************************************************)
(* Every kernel reads, when it runs, the blocks of the expert or layer it  *)
(* was launched for: whatever was prefetched on the copy stream, evicted   *)
(* and dropped meanwhile, whatever memory was given out again, and         *)
(* wherever an expert has lost its slot.  The grouped decode does not tell *)
(* the allocator that the current stream reads the blocks; what protects   *)
(* it is that the host reads the routes before each prefetch.              *)
(***************************************************************************)
KernelsReadTheirBlocks == ~wrong
=============================================================================
