# PocketMoE in TLA+

Specifications of PocketMoE: the two OpenAI-compatible servers (Python and C++),
the tensor-parallel command protocol behind the C++ one, the shared memory and
the shared weights of the CPU-MoE server, the prefix snapshot cache, the
generation loop with the caches of attention, the collectives of a forward pass,
the calls of the CPU experts, and the places where the weights of the routed
experts live: on the host, staged on the GPU, and as blocks of a GGUF file. They are checked
with TLC on small instances; the main safety properties of the two servers, of
the shared memory and the shared weights, of the snapshot cache, of the generation
loop with its caches, of the expert weights on host and GPU and of the calls of the CPU
experts are proved with TLAPS for every value of their constants.

All paths below are relative to the root of the repository.

## 1. The system

| Part | State | Operations | Talks to |
|---|---|---|---|
| Serving engine, `src/server/engine.py` | request queue, `_closed`, one `_RequestResult` per request (an Event, a result, an exception, an event queue) | `submit`, `submit_stream`, `close`; the worker's `_run` and `_collect_batch` | handler threads through two kinds of queue; the executor by calls |
| HTTP server, `src/server/openai.py` | one thread per request; `do_POST`, `_serve`, `_worker_loop` | parse, look up a prefix hint, submit, stream events, reply | engine; the other ranks by `broadcast_object_list` |
| C++ server, `cpp_engine/src/openai_server.cpp`, `main.cpp` | mutex `inflight`, httplib's threads | `handle_chat_completions`, `handle_nonstream`, `handle_stream` | `PersistentEngine`, sidecar |
| C++ engine, `cpp_engine/src/dsv4_engine.cpp` | session (KV cache, compressor accumulators) on each rank | `worker_command_*`, `run_worker_loop`, `prefill`, `decode_step`, `reset_session` | command channel; NCCL |
| Command channel, `cpp_engine/src/cmd_channel.cpp` | one unix socket per worker | `create`, `send_to_workers`, `recv_from_root` | ranks |
| NCCL rendezvous, `cpp_engine/src/tp_comm.cpp` | id file, cache of communicators | `load_or_create_id`, `cached_comm` | ranks |
| Sidecar, `cpp_engine/src/python_sidecar.cpp`, `src/server/cpp_sidecar.py` | child process and two pipes, one mutex | `encode`, `parse` | C++ server |
| CPU-MoE shared memory, `src/components/moe/ipc.py` with `moe_server.py`, `runtime.py`, `deepseek_cpu_moe_ext.cpp` | header (request_seq, response_seq, layer, stop), one input, a ring of outputs, acks | `submit`, `wait_slot_acks`, `wait_response`, `ack`; `wait_request`, `respond` | ranks and the server process |
| Shared weight arena, `src/components/moe/shared_weights.py` | shared segments, metadata and ready files | create, fill, `mark_ready`, `wait_until_ready`, `from_metadata`, `close` | ranks and the server process |
| Prefix snapshots, `src/runtime/prefix_snapshot.py` | an LRU of KV snapshots on each rank | `lookup_hint`, `restore`, `capture`, `clear` | handler threads, generation |
| PD scheduler, `src/runtime/pd_scheduler.py`, `generation.py` | requests, prefill and decode queues | `add_request`, `schedule`, `finish` | generation |
| Generation, `src/models/deepseek_v4/generation.py` | tokens of a batch, end flags, positions, drafts | `generate`, `generate_stream` | model |
| Attention caches, `runtime.py` | ring of the window, compressor state and entries of each layer | `Attention.forward`, `Compressor.forward`, `Indexer.forward` | generation, snapshots |
| Forward pass, `runtime.py` | tensors of each rank, layers it runs, phase | `Transformer.forward`, `MoE.forward`, collectives, activations handed on | the other ranks; CPU-MoE server |
| Expert weights on the GPU, `gpu_prefill_backend.py` | GPU storage of a layer, LRU of layers, pinned buffers, two CUDA streams | `prefetch`, `forward`, `_stage_local_experts`, `release_cache` | `MoE.forward`, generation |
| Expert weights on the host, `loader.py`, `cpu_backend.py` | parameters, `_cpu_w1`.., two arenas, two caches, tables of addresses | loading, `prepare_*_weights`, `release_int8_prepare_cache`, the runners, the native loop | loader, GPU backend, CPU-MoE server |
| Calls of the CPU experts, `cpu_backend.py` | pinned buffers shared by the layers, `_pending`, one worker thread | `submit_forward`, `sync_forward`, `dispatch_forward` | `MoE.forward`, CUDA streams |
| GGUF blocks, `runtime.py`, `loader/gguf/tensor_reader.py` | staged layers, `_GGUF_GPU_EXPERT_LRU`, prefetch events, decode slots | `prefetch_cuda_gguf`, `_gguf_cuda_get_blocks`, `_stage_gguf_layer_blocks`, `_gguf_decode_slot_cache_get` | `MoE.forward`, two CUDA streams, PyTorch's allocator |
| Launcher, `scripts/run_pd_serial.sh` | processes of the server and of the ranks | start, wait for the log, kill | server, ranks |
| Kernels, other model families, readers, encoding, tools | tensors, files | sequential | - |

What is hard about it, and what makes each part right:

* **Serving engine.** Queues with bounds at both ends, a worker that both takes
  from and puts back into its own queue, a shutdown by flag and sentinel, and
  event streams whose reader may be gone. Right means: no request is lost or
  served twice; those run together asked for the same thing; each caller is told
  what was computed for its own request; the worker does not block for ever.
* **C++ server and ranks.** Ranks that do not share memory must do the same
  calls in the same order, or they wait for each other in collectives. Right
  means: one request generates at a time, payloads stay behind their headers,
  sessions agree, nobody waits for a rank that will not come, errors release
  the mutex.
* **CPU-MoE shared memory.** No locks, plain loads and stores, one input buffer
  and a ring of outputs. Right means: nobody reads a buffer that is being
  overwritten, the header does not go backwards, and everybody gets through.
* **Prefix snapshots.** A cache per rank that must take the same decisions on
  every rank, but is also touched by the handler threads of rank 0.
* **Weight arena, NCCL rendezvous, command rendezvous.** Files that say "ready",
  found again after a crash. Right means: the server computes with the weights
  that the ranks of this launch have loaded, and no launch hangs.
* **Generation and attention caches.** Nothing is cleared between requests, a
  rejected draft has been written already, prompts of a batch differ in length.
  Right means: a query reads the cells of its own text and no later one, and
  greedy decoding gives the greedy continuation however the work was cut.
* **Forward pass.** Each rank decides by itself, from a dozen environment
  variables, which collective comes next. Right means: they agree, and each part
  of a sum is in it once.
* **Expert weights.** Copies and kernels are asynchronous, memory is given back and
  taken again, two formats share one label, and some readers have nothing but an
  address. Right means: whoever reads an expert finds its weights, complete, in
  the format it expects, in memory that nobody has given away.
* **Calls of the CPU experts.** All layers share a few buffers, and the streams and
  the worker do their part late. Right means: a call computes with its own
  input and returns its own output.

`PROJECT.json` lists the hazards at their lines and the properties against them.

## 2. Modules

| Module | Models |
|---|---|
| `RequestService` | abstract: what any serving engine promises its callers |
| `ServingEngine` | `engine.py`, and how `do_POST` and `_serve` use it |
| `MCServingEngine` | symmetry for TLC |
| `ServingEngineProofs` | theorems about `ServingEngine` |
| `TpServer`, `MCTpServer` | the C++ server, its ranks and the command channel |
| `TpServerProofs` | theorems about `TpServer` |
| `MoeIpc` | the CPU-MoE shared memory, the calls of the ranks, the server loop |
| `MoeIpcProofs` | theorems about `MoeIpc` |
| `PrefixSnapshot`, `MCPrefixSnapshot` | the snapshot cache on every rank, its lookups in `do_POST`, the prefill loop that restores and captures |
| `PrefixSnapshotProofs` | theorems about `PrefixSnapshot` |
| `AttentionCache` | pure operators: what a forward pass writes to and reads from the buffers of one attention layer |
| `Generation`, `MCGeneration` | `generate` and `generate_stream`, over `AttentionCache` |
| `GenerationProofs` | theorems about `Generation` and `AttentionCache` |
| `RankForward`, `MCRankForward` | the steps and collectives of a forward pass on every rank, under every environment |
| `MoeResidency`, `MCMoeResidency` | where the weights of the routed experts are on a rank, on host and GPU, and the two CUDA streams |
| `MoeResidencyProofs` | theorems about `MoeResidency` |
| `WeightArena` | shared weight arenas, request segment, ready files, launcher, kills and restarts |
| `MCMoeServer` | instances of `WeightArena` and `MoeIpc` for TLC |
| `MCMoeServerProofs` | theorems about `WeightArena`, and those of both modules for the run's properties |
| `ExpertWeights` | the host memory of the experts' weights, from loading to every reader |
| `CpuPipeline` | the calls of the CPU experts through buffers, worker thread and CUDA streams |
| `GgufBlocks` | GGUF blocks on the GPU: staged layers, prefetched experts, decode slots |
| `MCExpertMemory` | instances of the last three models for TLC |
| `MCExpertMemoryProofs` | theorems about `CpuPipeline` and `ExpertWeights`, and those of both for the run's properties |

Operators just before a definition, introduced as "A mutant of ...", are faulty
variants of it. They are used by no specification: putting one in the place of
the original must make a named property fail, which shows that the property
depends on that piece of code.

### ServingEngine

A request is identified with the handler thread that brings it. What it asks for
is a record: does it stream, the parameters that `_is_batch_compatible` compares
(one value, `key`), its cost in tokens.

| Variable | Code |
|---|---|
| `queue`, `closed` | `_queue` (the sentinel `None` is `Shutdown`), `_closed` |
| `handler[r]` | the point in `do_POST`: before `_enqueue`, between its test of `_closed` and its `put_nowait`, waiting, and the four ways out |
| `worker`, `batch`, `held` | the point in `_run`/`_collect_batch`, its local `batch`, and the candidate it must put back |
| `done[r]`, `outcome[r]`, `events[r]` | the `_RequestResult`: `_done`, `_result`/`_exception`, `_events` |
| `emitted[r]`, `sawDone[r]`, `gone[r]` | tokens put, `done_event is not None`, `disconnected` |

Actions are one step per access to shared state. `_enqueue` is two (`Admit`,
`Enqueue`), since `_closed` is read before the put. The put-back in
`_collect_batch` is a step of its own (`Requeue`), since handlers may put in
between; it is disabled while the queue is full, which is what a blocking `put`
by the only consumer amounts to. `CollectEnd` may happen at any moment: the
deadline is abstracted to a choice. `close_events` (put, then `_done.set()`) is
one step: for a stream nobody reads `_done`. Similarly `RunSucceeds` sets the
results of a batch at once, as their order cannot be observed by any caller.
An answer is named by the request that it was computed for, so a mix-up between
positions of a batch would be visible. `emitted` is bounded by `MaxEvents`, the
request's `max_tokens`.

### TpServer

A request is an HTTP thread on rank 0, a word in `chan[w]` is one write to the
socket of worker `w`, and the collectives of one forward pass and of
`select_token` are one rendezvous (`Meet`): it needs all ranks, and does not ask
which request brought them. `session[k]` is the list of requests that rank `k`
has been fed since its last reset; it stands for the KV cache and the compressor
state. Threads write to sockets one worker at a time, and may interleave.
`Lock`/`Route` show the scope of the `lock_guard`: a plain request generates under it, a
stream only registers its provider under it. `Raise` and `WRaise` are exceptions
before the collectives, bounded by `MaxFaults`; the number of tokens is bounded
by `MaxSteps`. A worker that reads a payload where it expects a header goes to
`lost`; what it does then is not followed. `Patient` are the requests of clients
that never have another request beside them: they come when all others are over or
not there yet, and the next waits until they are over.
An empty prompt, which would raise in `prefill`, is left out: the encoded
prompt always has a beginning-of-sequence token.

### MoeIpc

Buffers are named by the request whose data they hold, `Torn` while a copy is
going on; integers of the header are read and written atomically and in program
order (x86-64 stores). `conf` is chosen at the start: predicting ranks or a
broadcast, Python or native loop. The rewriting of header fields is modelled
field by field: `submit` writes back the `response_seq` it read, `respond` the
`request_seq`. `MaxCalls` bounds the calls per rank. All processes run for the
whole behaviour: stop, unlinking and restarts are not in this module.

### PrefixSnapshot

A request is a handler thread of rank 0: `Lookup` is `lookup_hint`, `Submit` the
call of the engine, which may refuse. `Broadcast` starts the request at the
head of the queue on all ranks; it and the forward passes are collectives, so
they need all ranks. `Settings`, `Capture` and `Return` are steps of one rank.
The state of the model on a rank, `kv[k]`, is the sequence of tokens that led to
it, and a snapshot is a pair of a prefix (its key) and such a state; that the two
are equal is then something to check, `SnapshotsTrue`. What is abstracted is
which slices of which buffers make up that state.

`Ends` tells where the next forward of a prefill stops. The code has four ways:
in one piece when logits are needed, in chunks of `prefill_chunk_tokens`, cut at
the positions to capture, in one piece. A request of several rows (`n > 1`, or a
batch) neither restores nor captures; in a batch, each of its requests is such a
request of the model. Batching therefore needs no action here.

`conf` is chosen at the start. `conf.orderly` restricts the clients to one
request of one row at a time, within the limits of the engine; only then do the
ranks keep equal caches. The reason is that `lookup_hint` moves an entry of rank
0 alone, and it is `restore` of the same request that makes up for it on the
other ranks: requests that overlap, are refused, or have several rows break
that pairing, and after the next evictions the ranks no longer hold the same
prefixes. Nothing in the repository promises more, so there is no run for it.

### AttentionCache and Generation

The numbers in the buffers are left out. A cell of the ring or of the compressor
state remembers the position and the token that it was computed from, a compressed
entry the cells that it was pooled from; a cell of an earlier request is `Old`.
`FirstPass` and `OnePosition` are the two branches (`start_pos == 0` or not) of
`Attention.forward` and `Compressor.forward`; `RingRead` and `Offered` are the index
tables. The choice that the indexer makes among the offered entries is left out:
every offered entry has to be right.

`job` holds the arguments of a call of `generate`: lengths of the prompts, sampled or
greedy, `prefill_chunk_tokens`, positions to capture, a restored prefix, the
speculative mode and the kind of layer. An iteration of the loop is one action:
`Prefill` for the one that runs the shortest prompt, `Decode` for one position,
`Accept` and `Reject` for a verify pass with a pending draft. The model is
abstract: a row has one greedy continuation, and a pass finds its next token if
every query so far has read exactly what it should; otherwise, and when sampling,
it may find any token. Drafts are any token. So `GreedyIsGreedy` depends on the
bookkeeping of positions, prompt masks and end tokens, and `ReadsAsIntended` on
that of the buffers.

What the module says about the code:

* A pass of several positions that does not start at 0 (a cut or restored
  prefill, a verify pass of length 2) writes all its positions to the ring before
  its queries read, so the first ones miss the oldest positions of their window.
  `seen = "short"` names this; `ReadsAsIntended` says exactly when it happens.
* A rejected draft at the last position of a group has been shifted into the
  previous half of an overlapping compressor. The comment at
  `generation.py:558-561` accepts this drift; `drifted` names it.
* Rows that have ended keep generating until all have ended; the completion is cut.
* Nothing resets the compressor state between requests (`runtime.py:1055`). A
  first pass of at least one group overwrites both halves of it. One that is
  shorter, for a prompt of less than `Ratio` tokens or a `prefill_chunk_tokens` below
  it, overwrites only the current half, so the first entry of an overlapping
  compressor is pooled with the half that an earlier request has left
  (`runtime.py:1071-1078`). `ShortStart` names this.

### RankForward

A tensor is a count: how often it contains the part that each slice of the heads, of
the vocabulary or of the routed experts adds, and the shared expert. `Steps(r, l)` is
the list of steps that rank `r` takes in layer `l`, and each of the predicates of
`MoE.forward` is an operator of the same name or idea (`OnGpu` for the GPU
branches, `HostReduces`, `ReducedAlready`, ...). A collective needs every rank at a step of
the same kind, which is what NCCL does. `Transformer.forward` of a partition by layers
hands activations on (`Hand`) and the last rank tells the next token (`Tell`).

The environment is one record, the same on all ranks, and every combination that
the dispatch distinguishes is an initial state. Not all are sound:
`Miscounts` and `Clashes` name those in which a sum is partial or doubled or in which a rank
waits for ever, and the properties hold in all others. Left out: the external server
without weights of its own, the MTP draft pass, CUDA streams.

### MoeResidency

One rank, one thread that issues calls. `todo` is the list of calls that the current layer has
still to make; `StartPass` and `NextLayer` choose a pass as the phase allows (routes and
predictions are arbitrary). `mainQ` and `copyQ` are the current stream and the
copy stream; an operation on a stream runs later, in order, and when the event
that it waits for has happened. A block of GPU memory is free again when no
layer holds it and no queued operation uses it: that is what `record_stream` tells
PyTorch's allocator. The steps of a call (drop a storage of the unwanted format,
allocate, copy, note the format, evict, launch) are actions of their own only because
several orders of stream operations fit between them; the code is one thread.

`AllSettings` leaves out an int8 checkpoint whose arena is released after a prefill:
`release_int8_prepare_cache` (`cpu_backend.py:754`) then drops the only copy.
The second part of `CacheTellsWhatIsThere` has an exception: for an fp4 checkpoint with
released int8 copies the workspace path leaves `_staged_arena_format` of the arena
before (`gpu_prefill_backend.py:475-490`). The hot expert cache is not modelled; what the
staging finds on the host in every setting is `ExpertWeights`, GGUF blocks are `GgufBlocks`.

### WeightArena

A segment is identified by its name and the launch that created it; `shm[n]` is the
launch whose segment the name denotes now. `server.att[r]` and `rank[r].arena`,
`rank[r].ipc` are the segments that processes have mapped, which may be others. The
steps of the server are `main` of `moe_server.py` with the loops over ranks unrolled
(`CreateArena`, `PreTouch`, `SeeReady`, `Attach`); those of a rank are `Bind`, `Load`,
`MarkReady` and one request. `owed` are the names that resource trackers of dead
processes unlink, some time later, whoever owns them then. `env` is the deployment:
are the arenas created by the server, is the loader's private pinned arena on, is
the directory emptied.

One request per launch, no validation of headers and metadata (both sides derive
them from one configuration), torchrun ends all ranks when one fails, debts of several
dead trackers for one name are one debt.

### ExpertWeights

The experts of one layer on one process. A cell is the memory of one expert: its
slot in an arena, or tensors of its own; a number tells memory that was allocated at
another time. `holds` says which cells have the weights of the checkpoint, so a copy
holds what its source held and an arena nobody has copied to holds nothing. A cell
lives while a tensor refers to it (`Living`); the tables of addresses (`table4`,
`table8`, and the one that a native loop has noted, `server`) do not keep it alive. A
reader goes to `misread` unless it is given a living cell that holds the weights and is
in the reader's format.

| Variable | Code |
|---|---|
| `target[e]`, `param[e]`, `cpu[e]` | the tensors in the loader's `state_dict`, `w1.weight`.., `_cpu_w1`.. |
| `cache8`, `cache4`, `arena8`, `arena4`, `prep8` | `_expert_int8_cache`, `_expert_fp4_cache`, `_int8_arena`, `_fp4_arena`, `_int8_weights_prepared` |
| `native`, `table4`, `table8` | what `_ensure_native_ready` has found, `_native_w1_ptrs`.., `_native_int8_w1_ptrs`.. |
| `stage` | the order in which a process loads, prepares and starts to serve |

The settings are three kinds of checkpoint (int8, fp4, GGUF), whether the process runs the
model or is the MoE server, the arenas, pinned memory, the CUDA kernel and the
extension being there or not, and the switches that convert, release and serve; all their
combinations are initial states. `ConvertArena` and `ConvertExperts` are the two ways from
fp4 to int8, without the CUDA kernel such experts are not converted
and `prepare_int8_weights` reports that; the torch fallback (`cpu_backend.py:600-617`) is left out, no
caller reaches it with fp4 parameters.

Two families of settings do not work, and are exceptions of the property.
`ReleaseBreaks`: after a release (`cpu_backend.py:754`) int8 experts have no prepared copy
left and the fp4 kernel has null pointers for them; with `DEEPSEEK_CPU_EXPERT_INT8` a staging of
some experts sets the flag that sends the next forward over all of them to the int8
kernel (`cpu_backend.py:1044`); and an in-process server goes on with the freed table.
When staging refills the arena from parameters whose storage was released, the weights
are lost altogether. `NothingPrepared`: the in-process server is started although the preparation, whose
result is ignored, had nothing to prepare.

### CpuPipeline

The main thread goes through passes and layers (`Gate`, `Submit`, `Inline`, `Shared`, `Sync`,
or `Dispatch` where experts are computed one by one); what it gives to a CUDA stream is
executed later (`Execute`), and what it gives to the worker is `WorkerStart` and
`WorkerEnd`. Data is named by the call it belongs to. A layer uses slot
`layer % Depth` of buffers that all layers share, and `Buffer` is `get_buffer`, which
replaces them when the number of tokens changes; the runner keeps the ones it was
given. `conf` is the executor or the persistent worker, the all-reduce with a stream of
its own or not, and whether the runner is `_run_gguf_routes_native_forward`.

`Raise` and `RunnerRaises` are exceptions of the main thread and of the runner. The
property has two exceptions. A pass given up between `submit_forward` and `sync_forward`
leaves `_pending` set for good (`Abandoned`). And the GGUF routes runner returns before it
writes anything when a rank has no local route (`cpu_backend.py:1470`), while the other
runners fill the output with zeros: what is then added to the sum is what an
earlier call has left in that slot. Such a sum is an operation of its own, `leftover`.

### GgufBlocks

Like `MoeResidency`, one thread that issues calls and two streams that execute them
later; `todo` holds the calls that the current layer has still to make. A block of
memory is free again as soon as Python drops it: at once for the stream that it was allocated
on, and for the other only if that one was not recorded or has ended (`Free`); that
is the allocator of PyTorch. An operation names the blocks it uses and what each is to
contain; `Spoils` says when a kernel reads something else. There are three ways to the
blocks: layers staged as a whole for a prefill (`StageLayer`, `Layer`, `Drop`, `Evict`),
experts one by one through the global LRU (`Prefetch`, `Got`, `Clear`), and the slots of a
layer for a single token (`SlotHit`, `SlotMiss`, `SlotFails`). A read of the file may fail
wherever it is made; the code then falls back, and so do `FusedFails`, `GetFails` and
`SlotFails`.

The grouped decode does not record the stream that reads its blocks
(`runtime.py:3325`). The property holds all the same, because host code reads the routes
of a layer, and so waits for the kernels before, ahead of every prefetch: `Sync`. A prefetch
that did not wait would break it.

## 3. Runs

| Run | Instance | Question |
|---|---|---|
| `serving_batched` | 3 requests, 2 keys, 2 costs, queue 1, batches of 2, event queue 1 | safety of everything together, with faults and `close()`; the engine implements `RequestService` |
| `serving_sequential` | 3 requests, queue 2, one at a time | order of service; every accepted request is answered |
| `serving_batched_live` | 3 requests, unbounded queue, batches of 2 | answers while open; `close()` ends the worker |
| `tp_server` | 3 ranks, 2 plain requests and 1 stream whose client comes alone, up to 2 tokens, up to 2 faults | lockstep, framing, mutex, who survives an exception, termination |
| `tp_two_streams` | 2 ranks, 2 concurrent streams | **violated**: `Serialised` |
| `tp_worker_fault` | 2 ranks, a fault on rank 1 | **violated**: `NoOneWaitsForEver` |
| `prefix_snapshot` | 2 ranks, 3 requests, 5 prompts of up to 5 tokens, blocks of 2, 2 entries, chunks of 3 or none | snapshots are true, resumes are right, ranks agree |
| `generation` | window 3, groups of 2, context 8, up to 4 new tokens, 6 batches, chunks of 2 or none | reads of attention, greedy output, stream and completion |
| `moe_residency` | 2 layers, 2 experts, 3 GPU blocks, 2 pinned buffers, streams of 2 operations | kernels find their experts; the cache knows what it holds |
| `rank_forward` | 2 ranks, 2 layers, a prefill and a decode pass of one row or more, every environment that differs in a switch the dispatch reads | whole sums; no rank alone in a collective |
| `moe_server` | `WeightArena`: 2 ranks, 2 launches, 1 kill, late trackers; `MoeIpc`: 3 ranks, 2 slots, 5 calls each | loaded weights only, every launch ends; whole reads, header, every call returns |
| `expert_memory` | `ExpertWeights`: 2 experts, every setting; `CpuPipeline`: 3 layers, 2 slots, 3 passes of 1 or 2 tokens, 1 exception; `GgufBlocks`: 2 layers, 2 experts, 1 decode slot, 3 blocks of the main and 2 of the copy stream, streams of 2 operations | readers get the loaded weights, the arena is the only store; calls get their own; kernels read their blocks |

The bounds are the smallest at which the interesting cases occur. Three requests
fill a batch of two (or the worker's hand) and leave one in a queue of one, so that a
rejected candidate meets a full queue; an event queue of one makes the worker block
on every second event. Three ranks are needed for a payload that has reached one
worker and not the other. Two output slots and five calls make the ring wrap
twice. Five prompts with three distinct prefixes overflow a cache of two; their
lengths are below, on and off the block boundaries, and longer and shorter than
a chunk. A window of 3 and groups of 2 fall differently on every position, and a context of
8 lets the ring wrap twice. One cached layer of two makes every prefetch evict the
layer whose kernels are queued; three blocks are one more than two layers
need, so memory is reused while it is still being read. Two launches let a name or a file outlive the
processes that made it. Three layers on two slots let a layer meet the slot of the
layer before the last, and three passes let lengths alternate. One decode slot makes
every other expert evict one; what happens between two slots within one call is not reached.

`moe_server` and `expert_memory` each check several modules that share no state, so a
behaviour is one of a single module, chosen by `part`, and the other modules stay in one
initial state. For `GgufBlocks` the settings that cannot meet are fixed (`GgufSettings`:
a prefill of whole layers goes with a plain decode), and in `CpuPipeline` the GGUF
runner goes with the worker.
 Requests are interchangeable in `serving_batched` and
`prefix_snapshot`, experts and blocks in `moe_residency`, blocks of memory in
`expert_memory`, which have only safety
properties, so they use symmetry; runs with liveness properties use none.

Deadlock is not an error in any run: all clients may have been served, which ends
the behaviour. That no one is stuck is stated by the liveness properties and by
`NoOneWaitsForEver`.

### The two violations

* `tp_two_streams`. `openai_server.hpp:20-22`: "Requests are serialised: while
  one chat completion is generating, others queue on the inflight mutex." The
  provider that `handle_stream` registers is called by httplib after
  `handle_chat_completions` has returned and released the mutex. Two streams
  then generate at once.
* `tp_worker_fault`. `dsv4_engine.cpp:9404-9407`: exceptions are caught "so a
  single failed request doesn't kill the worker and deadlock the server". The
  worker does survive (`WorkersSurvive` holds), but the server does deadlock:
  rank 0 is in a collective that the worker has left, and holds the mutex.

### Fairness

* Python: the worker thread, `ClosePut` after `CloseFlag`, and a handler that
  has entered `_enqueue` or waits for its answer are weakly fair: threads are
  scheduled. No client is obliged to come, and `close()` need not be called.
  `AcceptedIsAnswered` also assumes that handlers do not raise in their loop
  (`HandlerFaults = FALSE`): one that does stops the worker once its event queue
  is full, see the hazard at `openai.py:994`.
* C++: every HTTP thread and every worker loop is weakly fair, and the main
  thread goes on after `listen()` fails. `Lock` is only weakly fair, since a
  `std::mutex` promises no more; a finite set of clients makes that enough.
* `MoeIpc`: every rank and the server are weakly fair; they spin.
* `RankForward`: every rank, a collective that all ranks have entered, and the MoE
  server while it is not stopped.
* `WeightArena`: the launcher, the server and each rank are scheduled. No kill and no
  tracker has to come. `LaunchesEnd` excepts the ranks that wait on a segment which
  nobody serves: nothing in the repository sets its stop word.

## 4. Proofs

Each theorem holds for every value of the constants that the named assumption of
its module admits. The assumptions say that bounds are natural numbers (positive
where the code has to have one at least), that sets of settings are subsets of the
settings the module describes, and that model values such as `Nobody` are not
elements of the sets they stand beside. TLC evaluates them in the runs. In
general the property itself is not inductive; what had to be added is the
argument, and is told here. Every such invariant was checked by TLC on an instance before it
was proved.

### ServingEngineProofs

For any set of requests, keys and costs, any queue and batch bounds, with or
without handler faults:

| Theorem | Statement |
|---|---|
| `TypeCorrect` | `Spec => []TypeOK` |
| `ConservationHolds` | `Spec => []Conservation` |
| `BatchSoundHolds` | `Spec => []BatchSound` |
| `AnswersAreFinal` | `Spec => Final` |
| `ToldTheTruthHolds` | `Spec => []ToldTheTruth` |
| `StreamShapeHolds` | `Spec => []StreamShape` |
| `BoundedHolds` | `Spec => []Bounded` |
| `FirstComeFirstServedHolds` | `Spec => FirstComeFirstServed`, if `MaxRunning = 1` |
| `EngineImplementsService` | `Spec => ImplementsService`, the refinement of `RequestService` |

The invariants are nested, each proved on top of the one before:

1. `TypeInv`: types, and that the worker has a candidate in hand exactly while
   it is about to put it back (`HandShape`).
2. `Custody`: `Conservation` is not inductive by itself. To know that `Requeue` or a new
   `Enqueue` makes no second copy one needs that a request not yet accepted is
   nowhere (`NoneStale`), that the batch is empty exactly when the worker waits
   at `get` or has stopped (`BatchShape`), that the sentinel comes from one
   `close()` (`SentinelShape`), and that only accepted requests are done
   (`DoneShape`).
3. `Batches`: a batch of more than one was collected with `MaxRunning > 1`, has
   the key of its first member and no stream (`BatchKind`), and an accepted
   request has passed `_admit`, so `MaxRunning <= MaxBatchSize` (`AdmitShape`);
   `BatchSound` follows.
4. `Truth`: a handler believes what it finds in its event queue, so `ToldTheTruth`
   depends on what the worker may have put there. The worker runs streams as
   streams (`StreamKind`); a "done" event comes last before the end mark, from the
   worker that is still busy with this request or has answered it (`DoneLast`);
   an end mark is there only with the answer it stands for (`EndsTellTruth`); a
   plain request has no events before its Event is set (`PlainEvents`); and what is
   left to read has the order of `StreamShape`, also when "done" was read before
   (`EventShape`).

`AnswersAreFinal` uses `Custody`: a step only settles requests in the batch, and
these are pending. `FirstComeFirstServedHolds` adds to `Custody` what `MaxRunning = 1` means (`Single`): the
worker never collects, so nothing comes back from its hand to the end of the line, which
only loses its head and only grows at the end (`StaysInPlace`).

The refinement goes action by action: a put that succeeds is the service's `Accept`, an
error at the door its `Refuse`, a step that sets `_done` its `Settle`, the return of a handler its
`Tell` or `GiveUp`, and every other step a stutter. `Settle` wants a set of pending requests
that ask for the same thing and are no more than the service's width: that is
`Custody` and `Batches`. `Tell` wants the caller to be told what its request was settled
with: that is `Truth`. Facts about sequences (what
Append, Tail, Contains and IsInjective do to the line) are separate lemmas at the
head of the module.

### TpServerProofs

For any number of ranks, requests, tokens and faults:

| Theorem | Statement |
|---|---|
| `TypeCorrect` | `Spec => []TypeOK` |
| `MutexBalancedHolds` | `Spec => []MutexBalanced` |
| `WorkersSurviveHolds` | `Spec => []WorkersSurvive` |
| `SerialisedOneStream` | `Spec => []Serialised`, if `Streams \subseteq Patient` |
| `FramedOneStream` | `Spec => []Framed`, if `Streams \subseteq Patient` |
| `LockstepOneStream` | `Spec => []Lockstep`, if `Streams \subseteq Patient` |
| `NoOneStallsOneStream` | `Spec => []NoOneStalls`, if `Streams \subseteq Patient` |

The condition says that streams overlap with no other request, as in the runs that
check these properties; plain requests overlap as they like. It is the other side of
`tp_two_streams`: the header's promise is kept as long as no stream has company, and is
broken as soon as one has.

1. `TypeInv` adds to `TypeOK` that a request that may still compute has fewer
   than `MaxSteps` tokens (`Budget`), and that a worker at work has a request
   for a job (`JobShape`).
2. `Held` says which requests hold the mutex (`Holds`) and that a held mutex
   has a holder. `MutexBalanced` says nothing of the time between `Lock` and the
   end of `Route`, so it is not inductive.
3. `Alone`: beside a patient request everybody else is over or has not come. `Held`
   and `Alone` together give `Serialised`: at most one request is at work, under the
   mutex or alone.
4. `Loyal` adds to `WorkersSurvive` that no shutdown word is on a socket while
   rank 0 runs.
5. `FrameInv` is for `Framed`. That a payload follows its command is a property
   of neighbours on a socket (`Chained`), where what the worker has read last
   counts as the word before the first (`Line`). Appending to the socket
   keeps it only if the writer knows what was written last: worker `w` is in the
   middle of a prefill of `r` as the socket shows it (`Half`) exactly when it is
   as the thread of `r` sees it (`Midway`). By `Serialised` no other thread writes; by
   `Quiet` the shutdown comes when no thread does.
6. `March` is for `Lockstep` and `NoOneStalls`, while nothing has raised. The words
   that a request sends to each worker are one sequence, `Words(r)`: reset, prefill, payload,
   decodes. A worker has acted on its first `c` words, and what is on its socket is the
   piece from there to what rank 0 has written to it (`Follow`); its session is what the first `c`
   words make of any session. Rank 0 is at the word of its own step (`Lead`).
   In a collective everybody has acted on the same word, so sessions are
   equal, and a worker at an empty socket with rank 0 waiting contradicts the
   length of the piece. `AtRest` carries this over from one request to the next: between
   requests every worker is idle and every socket empty.

### PrefixSnapshotProofs

For any prompts over any set of tokens, any number of ranks and
clients, any sizes of blocks, chunks and caches:

| Theorem | Statement |
|---|---|
| `SnapshotsTrueHolds` | `Spec => []SnapshotsTrue` |
| `ResumesRightHolds` | `Spec => []ResumesRight` |
| `RanksAgreeHolds` | `Spec => []RanksAgree` |

1. `TrueInv`: what `lookup_hint` returned is a prefix of the request's prompt, and shorter
   (`Fitting`), in whatever state the caches are by now; requests in the queue have been
   looked up (`Asked`); a cache has no key twice, is within its bound and
   its states are those of its keys (`Filed`); and the model of a rank that runs
   a prompt is in the state of the part that it is past (`Placed`).
2. `Agree`, for orderly clients: one request is open at a time (`OneByOne`), and the ranks
   are in one of three groups of places. They may be at different steps there, so the
   caches are compared as they will be: with the capture that a rank is about to make (`Cache`),
   and with the touch that `restore` is about to make and that `lookup_hint`
   has already made on rank 0 (`Ready`). That this pairing of lookup and restore is what keeps the ranks
   together is visible in the proof: nothing else makes `Ready` true.

### MoeIpcProofs

For any number of ranks, slots and calls, predicting or not, both server loops:

| Theorem | Statement |
|---|---|
| `TypeCorrect` | `Spec => []TypeOK` |
| `WholeWhenUsedHolds` | `Spec => []WholeWhenUsed` |
| `HeaderAdvancesHolds` | `Spec => HeaderAdvances` |

`IpcInv`: the server is at the request published last, has answered it or has not
seen it (`ServerAt`); rank 0 writes input and header only when the server has nothing to do
(`Rank0At`), so the two never rewrite the header at the same time, which is
what `HeaderAdvances` needs; ack cells count calls that are over (`AcksPast`), so by
`wait_slot_acks` nobody is more than the number of slots behind rank 0 (`Ahead`), and the answers of the
last calls are still in their slots except for the one whose slot is taken (`Answers`).

### MCMoeServerProofs

For any number of ranks, launches and kills, and of slots and calls:

| Theorem | Statement |
|---|---|
| `TypeCorrect` | `Spec => []TypeOK`, of `WeightArena` |
| `LoadedWeightsOnly` | `Spec => []AnswersUseLoadedWeights`, of `WeightArena` |
| `LaunchesAnswerFromLoadedWeights` | `MCSpec => []AnswersUseLoadedWeights` |
| `WholeWhenUsedHolds` | `MCSpec => []WholeWhenUsed` |
| `HeaderAdvancesHolds` | `MCSpec => HeaderAdvances` |

`AnswersUseLoadedWeights` says nothing of how the server came to its maps, so its
invariant follows the names from the launch on: `LauncherInv` (what the launcher has
done when server and ranks run), `ServerInv` (what the server has done at each point
of its `main`), `NamesInv` (the name of an arena that this launch has made denotes that
arena or, after a tracker, nothing), `IpcInv` (no request segment and no request is
of a later launch), and, outside the two excepted settings
(`Safe`), `RanksInv` (ranks past the load have filled their arenas, and a request
means that all are past it), `AttachInv` (the server has mapped this launch's arenas)
and that no wrong answer was given.

`MCSpec` is what the run checks: `WeightArena` and an instance of `MoeIpc` with names of its
own. The last three theorems instantiate the proofs in the same way and show that a step of the
composition is a step of the one module and leaves the other alone.

### GenerationProofs

For any window, ratio, context, number of new tokens, batches of rows of any length, chunks,
cuts, drafts and end tokens, and the three kinds of layer:

| Theorem | Statement |
|---|---|
| `BuffersHoldTheText` | `Spec => []ReadsInv` |
| `QueriesReadAsIntended` | `Spec => []ReadsAsIntended` |
| `TextIsGreedy` | `Spec => []TextInv` |
| `GreedyDecodingIsGreedy` | `Spec => []GreedyIsGreedy` |
| `StreamIsTheCompletion` | `Spec => []StreamIsCompletion` |

The three properties speak of verdicts and of the text; none says what is in the buffers.

1. `ReadsInv`: before a pass that starts at `n`, the buffers of each row are those of its text up to
   `n` (`Holds`): a slot of the ring has the last position below `n` that falls on it
   (`RingUpTo`), the entries are the groups that are complete (`EntriesAt`), and the halves of the
   compressor state are the group at hand and the one before (`HalfAt`, `OverlapAt`). The last is
   claimed only while no draft has drifted and the start was not short (`Sound`), for that is
   what the exceptions break. `n` is `prev`, also after a verify pass whose draft was
   rejected, and this is where its writes have to be shown harmless: they are one position ahead of `n`,
   in a slot of the ring and a cell of the current half that no query is offered before the
   next pass has overwritten them, except at the end of a group, where the halves have been shifted.
2. `TextInv`: prompts are not written over (`Prompted`); while every verdict was "exact" and the
   call is greedy, a token is the greedy one of its position (`Followed`); a finished row has
   an end token behind its prompt and before the current position (`Met`); and the loop is over only when all
   rows are finished or there is no room (`Over`). `GreedyIsGreedy` follows by
   comparing two least elements: where the completion is cut, and where the greedy
   continuation stops.
3. `StreamInv`: `emitted` is the text from the prompt to the current position, and an end token in
   it is its last and has finished the row (`Streamed`). A step that accepts drafts appends two
   tokens at once, unless the first of them is an end token (`Continued`).

`LaterPass` and `Passes` are recursive functions, and what those compute is
needed at every call. They are handled without induction over data: a *finite unfolding*
is a function on an interval that satisfies the recursion there; it exists up to each
bound because a least bound without one is contradictory (`Upward`), and it agrees with the
recursive function (`LaterPassSteps`, `PassesSteps`). An invariant of a pass over several
positions is then a statement about the values of the unfolding.

### MoeResidencyProofs

For every setting, any number of layers, experts, pinned buffers, blocks and operations in
flight:

| Theorem | Statement |
|---|---|
| `ResidencyInvHolds` | `Spec => []ResidencyInv` |
| `KernelsReadTheirExpertsHolds` | `Spec => []KernelsReadTheirExperts` |
| `CacheTellsWhatIsThereHolds` | `Spec => []CacheTellsWhatIsThere` |

`KernelsReadTheirExperts` says that nothing has gone wrong so far, which tells nothing
of what is queued. The invariant has two halves.

1. `CacheInv`, of the host: `_cache_lru` lists the layers with memory, which is
   each layer's own (`Listed`); what a layer says of its format is true in the settings where it should be
   (`Noted`); and at a launch the layer has been touched last, what it wants is staged, and the
   kernel takes the format that is there (`Launching`). The last is about eviction: the layer
   whose kernel comes next is the newest of the LRU, and `_touch_cache` evicts the oldest.
2. `StreamInv`, of the streams. Operations in flight have different numbers
   (`Numbered`), so that an event is the end of one operation. A queued copy still owns the pinned buffer it reads
   (`Intact`). A kernel that is queued for memory its layer still has uses experts
   staged in it (`Held`), so a later copy into that memory, of what is missing, does not clash with it; and memory that
   was given back is not given out while it is queued for. A copy that a queued kernel needs is
   before it on the same stream, or on the other one, and then an operation at or before the kernel waits for that copy
   or a later one (`Ordered`). Not every kernel waits itself: a second `forward` finds the
   event taken by the first. So the invariant has a part for kernels to come:
   copies into a layer's memory are covered by the event that the layer still has pending,
   or by something already on the current stream (`Awaited`).

The lemmas at the head are the least element of a set of numbers, the pigeonhole
argument for a free number (`FreshFacts`) and the pinned buffers taken in turn (`Wrap`, `IdleFacts`).

### MCExpertMemoryProofs

A behaviour of `MCExpertMemory` is one of `CpuPipeline`, which the module extends, and one of
`ExpertWeights`, its instance `Weights` (`PartsOfBehaviours`): the parts share no variable.

| Theorem | Statement |
|---|---|
| `TypeCorrect` | `Spec => []TypeOK` |
| `CallsGetTheirOwnHolds` | `Spec => []CallsGetTheirOwn` |
| `CallsOfBehaviours` | `MCSpec => []CallsGetTheirOwn` |
| `WeightsInvariant` | `Weights!Spec => []WeightsInv` |
| `ReadersGetLoadedWeightsHolds` | `MCSpec => []ReadersGetLoadedWeights` |
| `ArenaIsOnlyStoreHolds` | `MCSpec => []ArenaIsOnlyStore` |

**CpuPipeline**, for any number of layers, slots, token counts, passes and exceptions, and every
setting of `conf`.

`CallsGetTheirOwn` speaks of the operation at the head of a stream; the invariant `Inv` has to
say what may be queued behind it, and why nobody writes into a slot that is still to be
read although slots are shared by all layers.

1. `BufferKept`: a pass replaces the buffers once, before its first call is in flight, so `sync_forward`
   finds those of `submit_forward`. `PendingKept`: `_pending` of a layer is a call of this layer, and
   of no other while no pass was given up; once one was, it stays so (`AbandonedStays`).
2. `MainKept`: the main stream holds at most what is left of the call before (`Before`: its result
   is in `out`, in `gpu` or in `y`, as far as `out`, the all-reduce and the wait
   for it have come) and behind it the gate of the call at hand.
3. `CopyKept`: only the call in flight is being copied, behind a wait for the whole main stream. So its
   copy happens when the result of the call before has been used and the hidden states are
   its own.
4. `WorkerKept`: the worker has at most this call, with the buffer and slot of the main thread;
   it starts when the copy stream is empty, and then leaves the result, a leftover or an exception.

Apart from types, `Depth` occurs in none of these arguments: what keeps two calls apart is not
their slots but the waits.

**ExpertWeights**, for any number of experts and every setting. `WeightsAssumption` says that
experts and numbers of allocations are finite sets and that there are at least four more
numbers than experts. It is about the model and not about the code, which has no such
numbers: with it there is always one that nothing has (`Fresh`), so that the bound `Times` cuts
no behaviour off.

`ReadersGetLoadedWeights` says that nothing was misread so far; why nothing will be is the
invariant `WeightsInv`.

1. `Numbered`: memory is numbered like the int8 arena or the expert's private copy, and like nothing
   else. So some number is free (`FreshFacts`, by counting), and a new arena, table or copy is
   none that an old reference could mean.
2. `Int8Inv`, for int8 checkpoints: the loader leaves an expert in one cell that holds its weights
   (`Loaded8`), a slot of the arena or tensors of its own, and from
   `prepare_int8_weights` on everything that refers to it, the table of the native kernel included,
   refers to one cell (`Prepared8`). While loading, every expert is `Raw` or `Loaded8`.
3. `Fp4Inv`, for fp4 checkpoints, has the comings and goings. The fp4 slot, or the parameter, keeps
   the weights whatever is converted or released (`Stored4`, `Arena4Kept`); the int8 copy, if there is one,
   holds the same weights and is in the current arena, or private when the arena is off, and the table
   has its address (`Cached8`, `Copy8`). What a native loop has noted is the table that is there, unless
   the settings release it, which is in `ReleaseBreaks`.
4. `GgufInv`: only the file holds weights, no copy and no table of them exists, and nobody reads anything else.

`WeightsInv` says nothing of an int8 arena that is released after a prefill: those settings are
in `ReleaseBreaks`, and the weights are indeed lost there. The other exceptions are
needed only in the last line of `Fp4Inv`: the rest of it holds in their settings too. `ArenaIsOnlyStore`
follows without further induction, since `Prepared8` and `Stored4` name every living cell.

### What the proofs changed

Three definitions could not be reasoned about as they stood: arms of a CASE overlapped, and
TLA+ does not say which one counts then. `MoeResidency!Source`, `RankForward!AskServer` and
`ExpertWeights!Materialized` now take the code's order of tests. The short start of `Generation` came out of its proof: the
entries could not be shown to be of this request after a first pass of less than a group, and
indeed they are not; the module had ruled such prompts out, now it admits them, and
`ReadsAsIntended` names the case. In `MoeResidency` an
event that has happened is now gone from every operation that waits for it, also in
the queue it came from, and a call that asks for no expert stages none, however low
the threshold for staging all, as in `_expert_ids_for_stage`. `PrefixSnapshot` has its vocabulary as a constant.
`SUBSET S \ {{}}`, which the tools read differently, has parentheses in `ExpertWeights`, `MoeResidency` and
`GgufBlocks`. `MCExpertMemory` states how many numbers of allocations `ExpertWeights` needs.

### Only model-checked

* All liveness: fairness and ENABLED are out of the prover's reach.
* `TpServer` with streams that overlap: there the runs show counterexamples.
* `RankForward.SumsAreWhole`: its sums are folds over the ranks, whose value for any
  number of ranks needs an induction over data.
* `GgufBlocks.KernelsReadTheirBlocks`: the calls of a layer are concatenations over its experts in
  an order that a recursive operator picks, so what is queued cannot be reasoned about
  for any number of experts.

## 5. Not modelled

* Numerics: kernels, quantisation, sampling, the arithmetic of forward passes.
  `AttentionCache`, `RankForward` and the modules about weights follow where the numbers are and
  whether all of them are there, not what they are.
* Tokenizers, chat templates, the parsing of checkpoint and GGUF containers, the
  slicing of dense tensors over ranks, command line tools: sequential code without shared state, better tested than
  model-checked. `PROJECT.json` has a line for each.
* `src/models` besides DeepSeek V4: other families use the same engine and no
  further shared state.
* The queues of `PDScheduler`: only the serial run calls it, with one request.

## 6. Plan

1. `GgufBlocks`: `KernelsReadTheirBlocks`, along the lines of `MoeResidencyProofs`, once its
   calls are issued one by one.
2. The control group of the Python ranks: broadcasts, `_worker_loop`, shutdown.
3. Stop strings and tool calls: what a streaming client assembles against the
   reply without streaming.
