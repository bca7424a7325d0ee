---------------------------- MODULE MoeResidency ----------------------------
(***************************************************************************)
(* Where the routed experts of a layer are: the copies that one rank keeps *)
(* in its memory (components/moe/cpu_backend.py), the ones it stages on    *)
(* its GPU (gpu_prefill_backend.py), and the order in which the layers of  *)
(* a forward pass ask for them (models/deepseek_v4/runtime.py).            *)
(*                                                                         *)
(* One thread issues the calls.  Copies and kernels are put on two CUDA    *)
(* streams and run later: mainQ is the current stream and copyQ the copy   *)
(* stream.  An event is the number of the operation it was recorded after, *)
(* and 0 once that has run.                                                *)
(***************************************************************************)
EXTENDS Integers, Sequences, FiniteSets, SequencesExt

CONSTANTS
  N,          \* number of layers
  Experts,    \* the experts of this rank (experts_start_idx..experts_end_idx - 1)
  DenseFrom,  \* so many experts or more, and all of them are staged
  Settings,   \* bound: the settings of a process, members of AllSettings
  Buffers,    \* _pinned_buffer_count
  Blocks,     \* bound: blocks of GPU memory
  NoBlock,
  Depth       \* bound: operations on a stream

(***************************************************************************)
(* The checkpoint is in fp4 (its arena is complete after loading), or in   *)
(* int8 with the arena or with tensors of their own.  The int8 copies of   *)
(* an fp4 checkpoint may be dropped after every prefill.                   *)
(***************************************************************************)
AllSettings ==
  {s \in [store : {"fp4", "arena", "private"},
          direct : BOOLEAN,   \* DEEPSEEK_GPU_PREFILL_MOE_FP4_DIRECT_GROUPED
          drops : BOOLEAN,    \* DEEPSEEK_RELEASE_PREFILL_INT8_AFTER_PREFILL
          early : BOOLEAN,    \* DEEPSEEK_GPU_PREFILL_MOE_PREFETCH_BEFORE_FFN
          pinned : BOOLEAN,   \* DEEPSEEK_GPU_PREFILL_MOE_PINNED_STAGE
          cached : 1..N] :    \* DEEPSEEK_GPU_PREFILL_MOE_MAX_CACHED_LAYERS
    s.drops \/ s.direct => s.store = "fp4"}

ASSUME ResidencyAssumption ==
  /\ N \in Nat \ {0} /\ Buffers \in Nat \ {0} /\ Depth \in Nat \ {0}
  /\ Settings \subseteq AllSettings
  /\ DenseFrom \in Nat /\ IsFiniteSet(Experts) /\ NoBlock \notin Blocks

VARIABLES
  env,      \* the settings of the process
  phase,    \* DEEPSEEK_PD_ACTIVE_PHASE
  pass,     \* the forward pass that runs: its kind, and its next layer
  todo,     \* the calls that the current layer has still to make
  int8,     \* int8[l]: the experts in _expert_int8_cache
  storage,  \* storage[l]: the block of memory of _w1q.._w3s and its format
  staged,   \* _staged_local_experts
  label,    \* _staged_arena_format
  event,    \* _stage_event
  pending,  \* _stage_pending
  lru,      \* _cache_lru, the oldest layer first
  busy,     \* _pinned_workspace_events
  turn,     \* _pinned_workspace_next
  mainQ,    \* operations on the current stream
  copyQ,    \* operations on the copy stream
  wrong,    \* a kernel has read something else than its experts
  broken    \* a copy between different formats has raised

cpu == <<int8, busy, turn>>
gpu == <<storage, staged, label, event, pending, lru>>
streams == <<mainQ, copyQ, wrong>>
vars == <<env, phase, pass, todo, cpu, gpu, streams, broken>>

Layers == 1..N
Formats == {"fp4", "int8"}
NoStorage == [at |-> NoBlock, format |-> "int8"]
Least(S) == CHOOSE x \in S : \A y \in S : x <= y
Ops == {mainQ[i] : i \in DOMAIN mainQ} \cup {copyQ[i] : i \in DOMAIN copyQ}

\* The experts are prepared in int8 before the first request.
Init ==
  /\ env \in Settings
  /\ phase = "prefill" /\ pass = [kind |-> "none", at |-> 1] /\ todo = <<>>
  /\ int8 = [l \in Layers |-> Experts]
  /\ storage = [l \in Layers |-> NoStorage]
  /\ staged = [l \in Layers |-> {}]
  /\ label = [l \in Layers |-> "int8"]
  /\ event = [l \in Layers |-> 0] /\ pending = [l \in Layers |-> FALSE]
  /\ lru = <<>>
  /\ busy = [b \in 1..Buffers |-> 0] /\ turn = 1
  /\ mainQ = <<>> /\ copyQ = <<>>
  /\ wrong = FALSE /\ broken = FALSE

-----------------------------------------------------------------------------
(***************************************************************************)
(* The calls of a pass.                                                    *)
(***************************************************************************)
Prefetch(l, want, fp4) ==
  [op |-> "stage", layer |-> l, want |-> want, fp4 |-> fp4, async |-> TRUE, rows |-> "many"]
Demand(l, routes, rows) ==
  [op |-> "demand", layer |-> l, want |-> routes, fp4 |-> rows = "one" \/ env.direct,
   async |-> FALSE, rows |-> rows]
Release(l) ==
  [op |-> "release", layer |-> l, want |-> {}, fp4 |-> FALSE, async |-> FALSE, rows |-> "many"]

Routes == (SUBSET Experts) \ {{}}
Ahead(l) == IF l < N THEN <<Prefetch(l + 1, Experts, env.direct)>> ELSE <<>>

\* A layer of a long pass; its rows may be cut, and the last piece may be one row.
LongLayer(l) ==
  \E rest \in {<<>>, <<Demand(l, {}, "one")>>} :
    LET run == <<Demand(l, {}, "many")>> \o rest IN
      todo' = (IF l = 1 THEN <<Prefetch(1, Experts, env.direct)>> ELSE <<>>)
                \o IF env.early THEN Ahead(l) \o run ELSE run \o Ahead(l)

\* A layer of a decode pass, with the prediction for the next layer.
ShortLayer(l) ==
  \E routes \in Routes, rows \in {"one", "many"}, guess \in SUBSET Experts :
    todo' = <<Prefetch(l, routes, TRUE)>>
              \o (IF l < N /\ guess # {} THEN <<Prefetch(l + 1, guess, TRUE)>> ELSE <<>>)
              \o <<Demand(l, routes, rows)>>

Settled == todo = <<>> /\ Len(lru) <= env.cached /\ ~broken

StartPass ==
  /\ Settled /\ pass.kind = "none"
  /\ pass' = [kind |-> IF phase = "prefill" THEN "long" ELSE "short", at |-> 1]
  /\ UNCHANGED <<env, phase, todo, cpu, gpu, streams, broken>>

NextLayer ==
  /\ Settled /\ pass.kind # "none"
  /\ IF pass.kind = "long" THEN LongLayer(pass.at) ELSE ShortLayer(pass.at)
  /\ pass' = IF pass.at < N THEN [pass EXCEPT !.at = @ + 1] ELSE [kind |-> "none", at |-> 1]
  /\ UNCHANGED <<env, phase, cpu, gpu, streams, broken>>

\* The end of a prefill that leaves tokens to decode, and the next request.
EndPrefill ==
  /\ Settled /\ pass.kind = "none" /\ phase = "prefill"
  /\ phase' = "decode"
  /\ todo' = [l \in Layers |-> Release(l)]
  /\ UNCHANGED <<env, pass, cpu, gpu, streams, broken>>

NewRequest ==
  /\ Settled /\ pass.kind = "none" /\ phase = "decode"
  /\ phase' = "prefill"
  /\ UNCHANGED <<env, pass, todo, cpu, gpu, streams, broken>>

-----------------------------------------------------------------------------
(***************************************************************************)
(* The steps of a call.  A wait for an event is a guard.                   *)
(***************************************************************************)
call == Head(todo)
me == call.layer
Ready == todo # <<>> /\ Len(lru) <= env.cached /\ ~broken
There == storage[me].at # NoBlock
Drained(l) == pending[l] => event[l] = 0

\* _cache_lru.pop(key, None), of a key that it holds once at most.
Popped(q, l) ==
  IF \E i \in DOMAIN q : q[i] = l THEN RemoveAt(q, CHOOSE i \in DOMAIN q : q[i] = l) ELSE q

\* _synchronize_pending_stage and the rest of release_cache.
Drop(l) ==
  /\ Drained(l)
  /\ lru' = Popped(lru, l)
  /\ storage' = [storage EXCEPT ![l] = NoStorage]
  /\ staged' = [staged EXCEPT ![l] = {}]
  /\ event' = [event EXCEPT ![l] = 0]
  /\ pending' = [pending EXCEPT ![l] = FALSE]
  /\ UNCHANGED label

ReleaseCache ==
  /\ Ready /\ call.op = "release"
  /\ Drop(me)
  /\ todo' = Tail(todo)
  /\ int8' = IF env.drops THEN [int8 EXCEPT ![me] = {}] ELSE int8
  /\ UNCHANGED <<env, phase, pass, busy, turn, streams, broken>>

\* The routes of a forward of a long pass.
Route ==
  /\ Ready /\ call.op = "demand" /\ call.want = {}
  /\ \E routes \in Routes : todo' = <<[call EXCEPT !.want = routes]>> \o Tail(todo)
  /\ UNCHANGED <<env, phase, pass, cpu, gpu, streams, broken>>

Staging == Ready /\ call.op \in {"stage", "demand"} /\ call.want # {}

\* The experts that a prefetch, or forward before its kernel, asks for.
Asked ==
  CASE call.op = "stage" \/ ~There -> call.want
    [] call.rows = "one" /\ label[me] # "fp4" /\ env.store = "fp4" -> call.want
    [] call.rows = "many" /\ label[me] # "int8" -> call.want
    [] OTHER -> call.want \ staged[me]

Ids == IF Asked # {} /\ Cardinality(Asked) >= DenseFrom THEN Experts ELSE Asked
Missing == Ids \ staged[me]

\* The storage is of the format that this call does not want.
Unwanted ==
  /\ There /\ Asked # {}
  /\ IF call.fp4 THEN label[me] # "fp4" /\ env.store = "fp4" ELSE label[me] # "int8"

DropUnwanted ==
  /\ Staging /\ Unwanted
  /\ Drop(me)
  /\ UNCHANGED <<env, phase, pass, todo, cpu, streams, broken>>

Complete == env.store # "private" /\ int8[me] = Experts

\* Where the missing experts are copied from.
Source ==
  IF call.fp4 /\ env.store = "fp4" THEN "fp4 arena"
  ELSE IF Complete \/ (env.store # "private" /\ Missing = Experts) THEN "int8 arena"
  ELSE IF env.pinned THEN "workspace" ELSE "tensors"
Format == IF Source = "fp4 arena" THEN "fp4" ELSE "int8"

\* The allocator gives out a block that no stream uses any more (record_stream).
Free == {b \in Blocks : /\ \A l \in Layers : storage[l].at # b
                        /\ \A o \in Ops : o.block # b}
Fresh == Least({i \in 1..2 * Depth + 1 : \A o \in Ops : o.id # i})
LastOn(q) == IF q = <<>> THEN 0 ELSE q[Len(q)].id

Touched(l) == Append(Popped(lru, l), l)
\* After forward has what it asked for comes its kernel.
Staged ==
  IF call.op = "stage" THEN Tail(todo) ELSE <<[call EXCEPT !.op = "launch"]>> \o Tail(todo)

\* Everything is there already.
NothingMissing ==
  /\ Staging /\ ~Unwanted /\ Missing = {}
  /\ lru' = Touched(me)
  /\ todo' = Staged
  /\ UNCHANGED <<env, phase, pass, cpu, storage, staged, label, event, pending, streams, broken>>

\* What a copy that has not run yet would read from a buffer that is filled again.
Torn(q, b) ==
  [n \in DOMAIN q |-> IF b # 0 /\ q[n].from = b THEN [q[n] EXCEPT !.whole = FALSE] ELSE q[n]]

Enqueue(o) ==
  /\ IF call.async THEN Len(copyQ) < Depth ELSE Len(mainQ) < Depth
  /\ copyQ' = Torn(copyQ, o.from) \o IF call.async THEN <<o>> ELSE <<>>
  /\ mainQ' = Torn(mainQ, o.from) \o IF call.async THEN <<>> ELSE <<o>>

\* Where the search for an idle buffer starts after b was taken.
NextBuffer(b) == (b % Buffers) + 1

\* The first buffer, from turn on, that no copy reads any more.
Idle ==
  LET order == [i \in 1..Buffers |-> ((turn + i - 2) % Buffers) + 1]
  IN order[Least({i \in 1..Buffers : busy[order[i]] = 0})]

\* A mutant of Labelled: the format is not noted.
LabelledNever == label

\* The format is noted wherever an arena was read, but not after a workspace.
Labelled ==
  IF Source \in {"fp4 arena", "int8 arena"} THEN [label EXCEPT ![me] = Format] ELSE label

(***************************************************************************)
(* _stage_local_experts: the missing experts are prepared on the host if   *)
(* need be, and copied into the storage of the layer.                      *)
(***************************************************************************)
Stage ==
  /\ Staging /\ ~Unwanted /\ Missing # {}
  /\ Drained(me)
  /\ There => storage[me].format = Format
  /\ int8' = IF Format = "int8" THEN [int8 EXCEPT ![me] = @ \cup Missing] ELSE int8
  /\ IF Source = "workspace"
       THEN /\ \E b \in 1..Buffers : busy[b] = 0
            /\ busy' = [busy EXCEPT ![Idle] = Fresh]
            /\ turn' = NextBuffer(Idle)
       ELSE UNCHANGED <<busy, turn>>
  /\ \E b \in IF There THEN {storage[me].at} ELSE Free :
       /\ storage' = [storage EXCEPT ![me] = [at |-> b, format |-> Format]]
       /\ Enqueue([id |-> Fresh, after |-> IF call.async THEN LastOn(mainQ) ELSE 0,
                   kind |-> "copy", block |-> b, experts |-> Missing, whole |-> TRUE,
                   from |-> IF Source = "workspace" THEN Idle ELSE 0])
  /\ staged' = [staged EXCEPT ![me] = @ \cup Missing]
  /\ label' = Labelled
  /\ event' = [event EXCEPT ![me] = Fresh] /\ pending' = [pending EXCEPT ![me] = TRUE]
  /\ lru' = Touched(me)
  /\ todo' = Staged
  /\ UNCHANGED <<env, phase, pass, wrong, broken>>

\* copy_ into a storage that was allocated for the other format raises.
StageRaises ==
  /\ Staging /\ ~Unwanted /\ Missing # {}
  /\ There /\ storage[me].format # Format
  /\ broken' = TRUE
  /\ UNCHANGED <<env, phase, pass, todo, cpu, gpu, streams>>

\* _touch_cache, for the oldest layer.
Evict ==
  /\ Len(lru) > env.cached
  /\ Drop(Head(lru))
  /\ UNCHANGED <<env, phase, pass, todo, cpu, streams, broken>>

\* The format that the kernel takes the storage to have.
KernelFormat ==
  IF label[me] = "fp4" /\ (call.rows = "one" \/ env.direct) THEN "fp4" ELSE "int8"

\* A mutant of AfterStage: forward does not wait for the copy stream.
AfterNothing == 0

\* wait_for_stage.
AfterStage == IF pending[me] THEN event[me] ELSE 0

(***************************************************************************)
(* The rest of forward: the current stream waits for the copy, and the     *)
(* kernel is launched.                                                     *)
(***************************************************************************)
Launch ==
  /\ Ready /\ call.op = "launch" /\ Len(mainQ) < Depth
  /\ mainQ' = Append(mainQ,
       [id |-> Fresh, after |-> AfterStage, kind |-> "kernel", block |-> storage[me].at,
        experts |-> call.want, whole |-> TRUE, from |-> 0])
  /\ wrong' = (wrong \/ ~(call.want \subseteq staged[me])
                    \/ (label[me] = storage[me].format /\ KernelFormat # label[me]))
  /\ pending' = [pending EXCEPT ![me] = FALSE]
  /\ lru' = Touched(me)
  /\ todo' = Tail(todo)
  /\ UNCHANGED <<env, phase, pass, cpu, storage, staged, label, event, copyQ, broken>>

-----------------------------------------------------------------------------
(***************************************************************************)
(* The streams.                                                            *)
(***************************************************************************)
Without(f, i) == [x \in DOMAIN f |-> IF f[x] = i THEN 0 ELSE f[x]]
Past(q, i) == [n \in DOMAIN q |-> IF q[n].after = i THEN [q[n] EXCEPT !.after = 0] ELSE q[n]]

\* A kernel reads what copies have still to bring, or a copy a buffer filled again.
Amiss(o) ==
  IF o.kind = "kernel"
    THEN \E c \in Ops : /\ c.kind = "copy" /\ c.block = o.block
                       /\ c.experts \cap o.experts # {}
    ELSE ~o.whole

Finish(o) ==
  /\ wrong' = (wrong \/ Amiss(o))
  /\ event' = Without(event, o.id) /\ busy' = Without(busy, o.id)
  /\ UNCHANGED <<env, phase, pass, todo, int8, turn, storage, staged, label,
                 pending, lru, broken>>

RunMain ==
  /\ mainQ # <<>> /\ Head(mainQ).after = 0
  /\ Finish(Head(mainQ))
  /\ mainQ' = Past(Tail(mainQ), Head(mainQ).id)
  /\ copyQ' = Past(copyQ, Head(mainQ).id)

RunCopy ==
  /\ copyQ # <<>> /\ Head(copyQ).after = 0
  /\ Finish(Head(copyQ))
  /\ copyQ' = Past(Tail(copyQ), Head(copyQ).id)
  /\ mainQ' = Past(mainQ, Head(copyQ).id)

Next ==
  \/ StartPass \/ NextLayer \/ EndPrefill \/ NewRequest
  \/ ReleaseCache \/ Route \/ DropUnwanted \/ NothingMissing \/ Stage \/ StageRaises
  \/ Evict \/ Launch \/ RunMain \/ RunCopy

Spec == Init /\ [][Next]_vars

-----------------------------------------------------------------------------
(***************************************************************************)
(* A kernel of forward runs when every expert that it is routed to has     *)
(* been copied into the storage it was given, in the format it takes that  *)
(* storage to have, and no copy reads a pinned buffer that the host has    *)
(* filled again: whatever the order in which the prefetch of the next      *)
(* layer, the eviction of a layer whose kernels are still queued, the      *)
(* reuse of its memory and the two streams come.                           *)
(***************************************************************************)
KernelsReadTheirExperts == ~wrong

(***************************************************************************)
(* _cache_lru lists, once, exactly the layers that hold GPU memory, one    *)
(* more than its limit at most, while _touch_cache evicts; and             *)
(* _staged_arena_format, from which forward chooses its kernel, is the     *)
(* format of that memory.  The last part fails where the int8 copies of an *)
(* fp4 checkpoint are dropped after a prefill: the next ones are staged    *)
(* through a pinned workspace, which leaves the format of the last arena.  *)
(***************************************************************************)
CacheTellsWhatIsThere ==
  /\ \A l \in Layers : (storage[l].at # NoBlock) <=> (\E i \in DOMAIN lru : lru[i] = l)
  /\ \A i, j \in DOMAIN lru : lru[i] = lru[j] => i = j
  /\ Len(lru) <= env.cached + 1
  /\ ~(env.store = "fp4" /\ env.drops) =>
       /\ ~broken
       /\ \A l \in Layers : storage[l].at # NoBlock => label[l] = storage[l].format
=============================================================================
