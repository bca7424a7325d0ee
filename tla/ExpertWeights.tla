---------------------------- MODULE ExpertWeights ----------------------------
(***************************************************************************)
(* The host memory of the routed experts of one layer on one process, from *)
(* the loading of the checkpoint (models/deepseek_v4/loader.py) through    *)
(* the conversions of CPURoutedExpertsBackend (components/moe/             *)
(* cpu_backend.py) to everything that reads them: the native and the       *)
(* reference runners, the staging of the GPU backend, and the native loop  *)
(* of a server, which has nothing but addresses.                           *)
(*                                                                         *)
(* A cell is the memory of one expert's three matrices: a slot of an       *)
(* arena, or tensors of its own.  cells with the same name and another     *)
(* number were allocated at another time.  A cell lives while a tensor     *)
(* refers to it; an address does not keep it alive.                        *)
(***************************************************************************)
EXTENDS Naturals, FiniteSets

CONSTANTS
  Experts,   \* the experts of this process
  Times      \* bound: numbers of allocations, from 1

(***************************************************************************)
(* What the experts' parameters are, how they are loaded, and which of the *)
(* switches and abilities of the backend are there.                        *)
(***************************************************************************)
AllSettings ==
  {s \in [dtype : {"int8", "fp4", "gguf"},
          model : BOOLEAN,      \* the process runs the model, or is the MoE server
          arena8 : BOOLEAN,     \* DEEPSEEK_GPU_PREFILL_MOE_ARENA
          arena4 : BOOLEAN,     \* DEEPSEEK_GPU_PREFILL_MOE_FP4_ARENA
          pins : BOOLEAN,       \* pinned memory can be allocated
          cuda : BOOLEAN,       \* fp4_weight_to_int8_forward is there
          native : BOOLEAN,     \* deepseek_cpu_moe_ext is there
          cpu8 : BOOLEAN,       \* DEEPSEEK_CPU_EXPERT_INT8
          predequant : BOOLEAN, \* preload_routed_fp4_dequant
          captures : BOOLEAN,   \* DEEPSEEK_IMATRIX_CAPTURE
          drops : BOOLEAN,      \* DEEPSEEK_RELEASE_PREFILL_INT8_AFTER_PREFILL
          loop : BOOLEAN] :     \* a native loop serves: DEEPSEEK_CPU_MOE_INPROC_SERVER,
                                \* or DEEPSEEK_CPU_MOE_CPP_LOOP of the MoE server
    /\ s.drops \/ s.dtype = "gguf" => s.model
    /\ s.predequant => s.dtype = "fp4"}

VARIABLES
  env,      \* the settings
  stage,    \* "load", "fp4", "int8", "server", "serve": what is done next
  target,   \* target[e]: the tensors of the expert in state_dict
  param,    \* param[e]: w1.weight, w2.weight, w3.weight
  cpu,      \* cpu[e]: _cpu_w1, _cpu_w2, _cpu_w3
  cache8,   \* cache8[e]: _expert_int8_cache
  cache4,   \* cache4[e]: _expert_fp4_cache
  arena8,   \* _int8_arena, by number, and whether it is enabled
  arena4,   \* _fp4_arena, and whether it is enabled
  prep8,    \* _int8_weights_prepared
  native,   \* _native_ready, _native_enabled, _native_int8_enabled
  table4,   \* table4[e]: _native_w1_ptrs..
  table8,   \* _native_int8_w1_ptrs..: its number, and the addresses in it
  server,   \* the number of the table that the native loop reads, 0 if none
  holds,    \* the cells with the weights of the checkpoint, by expert
  misread   \* who has read something else

arenas == <<cache8, cache4, arena8, arena4, prep8>>
tables == <<native, table4, table8>>
vars == <<env, stage, target, param, cpu, arenas, tables, server, holds, misread>>

Cell(at, n) == [at |-> at, n |-> n]
None == Cell("none", 0)      \* no tensor, an empty tensor or a null pointer
Own == Cell("own", 0)        \* the memory that Linear allocates
File == Cell("file", 0)    \* the blocks of a GGUF file
Slot8(n) == Cell("arena8", n)
Slot4 == Cell("arena4", 0)
NoCells == [e \in Experts |-> None]
NoTable == [n |-> 0, ptr |-> NoCells]

Init ==
  /\ env \in AllSettings
  /\ stage = "load"
  /\ target = [e \in Experts |-> Own] /\ param = [e \in Experts |-> Own]
  /\ cpu = NoCells /\ cache8 = NoCells /\ cache4 = NoCells
  /\ arena8 = [n |-> 0, on |-> env.arena8]
  /\ arena4 = [there |-> FALSE, on |-> env.arena4]
  /\ prep8 = FALSE
  /\ native = [ready |-> FALSE, on |-> FALSE, int8 |-> FALSE]
  /\ table4 = NoCells /\ table8 = NoTable /\ server = 0
  /\ holds = {} /\ misread = {}

\* The cells of e that some tensor refers to, and the file.
Living(e) ==
  ({param[e], cpu[e], cache8[e], cache4[e]}
    \cup (IF stage = "load" \/ target[e] = File THEN {target[e]} ELSE {})
    \cup (IF arena8.n # 0 THEN {Slot8(arena8.n)} ELSE {})
    \cup (IF arena4.there THEN {Slot4} ELSE {})) \ {None}

\* A number that nothing has, not even a pointer.
Fresh ==
  CHOOSE t \in Times :
    /\ t \notin {arena8.n, table8.n, server} \cup {p[2].n : p \in holds}
    /\ \A e \in Experts : \A c \in Living(e) \cup {table8.ptr[e]} : c.n # t

-----------------------------------------------------------------------------
(***************************************************************************)
(* Loading.  The first tensor of an expert binds its slot of the arena.    *)
(***************************************************************************)
Unloaded == {e \in Experts : <<e, target[e]>> \notin holds}

\* An arena is allocated for the first expert that wants a slot, if it can be pinned.
Allocates8 == arena8.on /\ (arena8.n # 0 \/ env.pins)
After8 == IF Allocates8 THEN [arena8 EXCEPT !.n = IF @ = 0 THEN Fresh ELSE @]
                        ELSE [arena8 EXCEPT !.on = FALSE]
Allocates4 == arena4.on /\ (arena4.there \/ env.pins)
After4 == [there |-> Allocates4, on |-> Allocates4]

Put(f, ids, c) == [e \in Experts |-> IF e \in ids THEN c ELSE f[e]]

\* A mutant of Released: the parameters keep their memory.
ReleasedNot(ids) == param

\* _release_expert_parameter_storage.
Released(ids) == Put(param, ids, None)

\* A mutant of BoundTarget: state_dict keeps the tensors of the parameters.
BoundTargetNot(e, slot) == target[e]

\* The entries of state_dict that the tensors are copied to.
BoundTarget(e, slot) == slot

\* Where the parameters of int8 experts come to be.
Bound8 == env.model /\ Allocates8
LoadInt8(e) ==
  /\ stage = "load" /\ e \in Unloaded /\ env.dtype = "int8"
  /\ arena8' = IF env.model THEN After8 ELSE arena8
  /\ LET slot == Slot8(After8.n)
         to == IF Bound8 THEN BoundTarget(e, slot) ELSE Own
     IN /\ target' = [target EXCEPT ![e] = to]
        /\ param' = IF Bound8 THEN [param EXCEPT ![e] = slot] ELSE param
        /\ cache8' = IF Bound8 THEN [cache8 EXCEPT ![e] = slot] ELSE cache8
        /\ holds' = holds \cup {<<e, to>>}
  /\ UNCHANGED <<env, stage, cpu, cache4, arena4, prep8, tables, server, misread>>

\* The parameters of fp4 experts are released, _cpu_w1.. are the slot.
Bound4 == env.model /\ Allocates4
LoadFp4(e) ==
  /\ stage = "load" /\ e \in Unloaded /\ env.dtype = "fp4"
  /\ arena4' = IF env.model THEN After4 ELSE arena4
  /\ LET to == IF Bound4 THEN BoundTarget(e, Slot4) ELSE Own
     IN /\ target' = [target EXCEPT ![e] = to]
        /\ param' = IF Bound4 THEN Released({e}) ELSE param
        /\ cpu' = IF Bound4 THEN [cpu EXCEPT ![e] = Slot4] ELSE cpu
        /\ cache4' = IF Bound4 THEN [cache4 EXCEPT ![e] = Slot4] ELSE cache4
        /\ holds' = holds \cup {<<e, to>>}
  /\ UNCHANGED <<env, stage, cache8, arena8, prep8, tables, server, misread>>

\* set_gguf_raw_storage: the weights stay in the file.
LoadGguf(e) ==
  /\ stage = "load" /\ e \in Unloaded /\ env.dtype = "gguf"
  /\ target' = [target EXCEPT ![e] = File]
  /\ holds' = holds \cup {<<e, File>>}
  /\ param' = [param EXCEPT ![e] = None]
  /\ UNCHANGED <<env, stage, cpu, arenas, tables, server, misread>>

\* Nothing is missing; state_dict goes.
Loaded ==
  /\ stage = "load" /\ Unloaded = {}
  /\ stage' = "fp4"
  /\ UNCHANGED <<env, target, param, cpu, arenas, tables, server, holds, misread>>

-----------------------------------------------------------------------------
(***************************************************************************)
(* Preparing.  What a copy holds is what its source held.                  *)
(***************************************************************************)
Copied(held, ids, from, to) ==
  (held \ {<<e, to>> : e \in ids}) \cup {<<e, to>> : e \in {d \in ids : <<d, from[d]>> \in held}}

\* _materialize_fp4_expert for the experts that have no slot yet.
Materialize4(new) ==
  /\ arena4' = IF new = {} THEN arena4 ELSE After4
  /\ cpu' = IF Allocates4 THEN Put(cpu, new, Slot4) ELSE cpu
  /\ param' = IF Allocates4 THEN Released(new) ELSE param
  /\ cache4' = IF Allocates4 THEN Put(cache4, new, Slot4) ELSE cache4
Holds4(new) == IF Allocates4 THEN Copied(holds, new, param, Slot4) ELSE holds
Missing(cached, ids) == {e \in ids : cached[e] = None}

\* prepare_fp4_weights, for all experts.
PrepareFp4 ==
  /\ stage = "fp4"
  /\ stage' = "int8"
  /\ IF env.dtype = "fp4" /\ env.model /\ arena4.on
       THEN Materialize4(Missing(cache4, Experts)) /\ holds' = Holds4(Missing(cache4, Experts))
       ELSE UNCHANGED <<arena4, cpu, param, cache4, holds>>
  /\ UNCHANGED <<env, target, cache8, arena8, prep8, tables, server, misread>>

FullArena8 == arena8.n # 0 /\ arena8.on /\ Missing(cache8, Experts) = {}
FullArena4 == arena4.there /\ arena4.on /\ Missing(cache4, Experts) = {}

\* _refresh_int8_ptrs: the addresses of what is in the cache.
Refreshed(cached) ==
  [n |-> IF table8.n = 0 THEN Fresh ELSE table8.n,
   ptr |-> [e \in Experts |-> IF cached[e] # None THEN cached[e] ELSE table8.ptr[e]]]

\* _materialize_cpu_weights: what _cpu_w1.. are after it.
Materialized(e) ==
  IF cpu[e] # None THEN cpu[e]
  ELSE IF env.dtype = "int8" THEN param[e]
  ELSE Cell(IF env.predequant THEN "float" ELSE "packed", 0)

\* _gpu_convert_fp4_arena_to_int8: a new arena for all experts, pinned or not.
ConvertArena ==
  /\ arena8' = [n |-> Fresh, on |-> TRUE]
  /\ cache8' = Put(cache8, Experts, Slot8(Fresh))
  /\ holds' = Copied(holds, Experts, cache4, Slot8(Fresh))
  /\ UNCHANGED <<arena4, cpu, param, cache4>>

\* _gpu_convert_fp4_expert_to_int8 and _store_int8_cached, for each that is missing.
ConvertExperts(new) ==
  LET slots == Missing(cache4, new)
      can == Allocates4 /\ env.cuda /\ new # {}
      to == IF Allocates8 THEN Slot8(After8.n) ELSE Cell("private", Fresh)
  IN /\ Materialize4(slots)
     /\ arena8' = IF can THEN After8 ELSE arena8
     /\ cache8' = IF can THEN Put(cache8, new, to) ELSE cache8
     /\ holds' = IF can THEN Copied(Holds4(slots), new, cache4', to) ELSE Holds4(slots)

\* _materialize_int8_expert for each that is missing: into the arena, or as it is.
MaterializeInt8(new) ==
  LET slot == Slot8(After8.n)
      to == [e \in Experts |-> IF Allocates8 THEN slot ELSE Materialized(e)]
  IN /\ arena8' = IF new = {} THEN arena8 ELSE After8
     /\ cpu' = [e \in Experts |-> IF e \in new THEN to[e] ELSE cpu[e]]
     /\ param' = IF Allocates8 THEN Released(new) ELSE param
     /\ cache8' = [e \in Experts |-> IF e \in new THEN to[e] ELSE cache8[e]]
     /\ holds' = IF Allocates8 THEN Copied(holds, new, param, slot) ELSE holds
     /\ UNCHANGED <<arena4, cache4>>

\* prepare_int8_weights; with no ids given, all arenas that are complete are used.
\* The flag says that the experts of this call are in the cache.
PrepareInt8(ids, all) ==
  /\ \/ /\ all /\ FullArena8
        /\ UNCHANGED <<arena4, cpu, param, cache4, arena8, cache8, holds>>
     \/ all /\ ~FullArena8 /\ FullArena4 /\ env.cuda /\ ConvertArena
     \/ /\ ~(all /\ (FullArena8 \/ (FullArena4 /\ env.cuda)))
        /\ \/ env.dtype = "fp4" /\ ConvertExperts(Missing(cache8, ids))
           \/ env.dtype = "int8" /\ MaterializeInt8(Missing(cache8, ids))
  /\ table8' = Refreshed(cache8')
  /\ prep8' = (Missing(cache8', ids) = {})

\* prepare_cpu_expert_int8, or the main of the MoE server; the result is ignored.
Prepare ==
  /\ stage = "int8"
  /\ stage' = "server"
  /\ IF env.dtype = "gguf"
       THEN UNCHANGED <<cpu, param, arenas, table8, holds>>
       ELSE PrepareInt8(Experts, TRUE)
  /\ UNCHANGED <<env, target, native, table4, server, misread>>

\* start_in_process_cpu_moe_server, or run_native_int8_loop of the MoE server;
\* without the extension the loop ends at once.
StartServer ==
  /\ stage = "server"
  /\ stage' = "serve"
  /\ server' = IF env.loop /\ env.native /\ env.dtype # "gguf" THEN table8.n ELSE 0
  /\ UNCHANGED <<env, target, param, cpu, arenas, tables, holds, misread>>

-----------------------------------------------------------------------------
(***************************************************************************)
(* Reading.  A reader gets the loaded weights of an expert if it is given  *)
(* a cell that lives, holds them, and is in the format of the reader.      *)
(***************************************************************************)
Formats ==
  [int8 |-> {"own", "arena8", "private"}, raw |-> {"arena4"}, packed |-> {"packed"},
   file |-> {"file"}, float |-> {"packed", "float"}]

Gets(e, c, format) ==
  c.at \in Formats[format] /\ c \in Living(e) /\ <<e, c>> \in holds

Reads(who, ids, from, format) ==
  misread' = IF \A e \in ids : Gets(e, from[e], format) THEN misread ELSE misread \cup {who}

\* All experts of a call are materialized.
Materialize ==
  /\ cpu' = [e \in Experts |-> Materialized(e)]
  /\ holds' = holds \cup {<<e, Materialized(e)>> : e \in {d \in Experts :
                            Materialized(d).at \in {"float", "packed"} /\ <<d, param[d]>> \in holds}}

(***************************************************************************)
(* The first forward looks for the extension and notes the addresses for   *)
(* its fp4 kernel; those of int8 experts stay null.  It raises where the   *)
(* weights are dequantized already.                                        *)
(***************************************************************************)
EnsureNative ==
  /\ stage = "serve" /\ ~native.ready
  /\ IF env.captures \/ env.dtype = "gguf" \/ ~env.native
       THEN /\ native' = [native EXCEPT !.ready = TRUE]
            /\ UNCHANGED <<cpu, holds, table4>>
       ELSE /\ Materialize
            /\ IF \E e \in Experts : Materialized(e).at = "float"
                 THEN native' = [native EXCEPT !.ready = TRUE] /\ UNCHANGED table4
                 ELSE /\ native' = [ready |-> TRUE, on |-> TRUE,
                                    int8 |-> env.cpu8 \/ env.dtype = "int8"]
                      /\ table4' = [e \in Experts |->
                                     IF env.dtype = "fp4" THEN Materialized(e) ELSE None]
  /\ UNCHANGED <<env, stage, target, param, arenas, table8, server, misread>>

Some == (SUBSET Experts) \ {{}}
Forward == stage = "serve" /\ native.ready /\ (env.model \/ server = 0)

\* _run_native_int8_decode_forward.
RunInt8(ids) ==
  /\ Forward /\ native.on /\ prep8 /\ native.int8
  /\ table8' = Refreshed(cache8)
  /\ Reads("int8 runner", ids, table8'.ptr, "int8")
  /\ UNCHANGED <<env, stage, target, param, cpu, arenas, native, table4, server, holds>>

\* _run_native_forward, with its two kernels.
RunNative(ids) ==
  /\ Forward /\ native.on /\ ~(prep8 /\ native.int8)
  /\ Reads("fp4 runner", ids, table4,
           IF \E e \in Experts : table4[e] = Slot4 THEN "raw" ELSE "packed")
  /\ UNCHANGED <<env, stage, target, param, cpu, arenas, tables, server, holds>>

\* _run_gguf_routes_native_forward: the blocks of the file, for the kernel of the extension.
RunGguf(ids) ==
  /\ Forward /\ env.dtype = "gguf" /\ env.native /\ ~env.captures
  /\ Reads("gguf runner", ids, target, "file")
  /\ UNCHANGED <<env, stage, target, param, cpu, arenas, tables, server, holds>>

\* _forward_cpu_gguf, for each expert: all the others of the GGUF runners come to it.
RunGgufExperts(ids) ==
  /\ Forward /\ env.dtype = "gguf"
  /\ Reads("gguf expert", ids, target, "file")
  /\ UNCHANGED <<env, stage, target, param, cpu, arenas, tables, server, holds>>

\* _run_reference_forward; F.linear raises on the bytes of an arena.
RunReference(ids) ==
  /\ Forward /\ ~native.on /\ env.dtype # "gguf"
  /\ \A e \in ids : Materialized(e).at \in Formats.float
  /\ Materialize
  /\ misread' = IF \A e \in ids : <<e, cpu'[e]>> \in holds' THEN misread
                ELSE misread \cup {"reference runner"}
  /\ UNCHANGED <<env, stage, target, param, arenas, tables, server>>

\* Staging from a complete arena.
StageArena(ids, fp4) ==
  /\ stage = "serve" /\ env.model
  /\ (fp4 /\ FullArena4) \/ FullArena8
  /\ IF fp4 /\ FullArena4
       THEN Reads("staging", ids, [e \in Experts |-> Slot4], "raw")
       ELSE Reads("staging", ids, [e \in Experts |-> Slot8(arena8.n)], "int8")
  /\ UNCHANGED <<env, stage, target, param, cpu, arenas, tables, server, holds>>

\* Staging from the cache, which is filled as needed; it raises where it cannot be.
StageCache(ids, fp4) ==
  /\ stage = "serve" /\ env.model /\ env.dtype # "gguf"
  /\ ~(fp4 /\ FullArena4) /\ ~FullArena8
  /\ PrepareInt8(ids, FALSE)
  /\ misread' = IF prep8' => \A e \in ids : <<e, cache8'[e]>> \in holds'
                  THEN misread ELSE misread \cup {"staging"}
  /\ UNCHANGED <<env, stage, target, native, table4, server>>

\* release_int8_prepare_cache at the end of a prefill.
Release ==
  /\ stage = "serve" /\ env.drops
  /\ cache8' = NoCells
  /\ arena8' = [arena8 EXCEPT !.n = 0]
  /\ prep8' = FALSE
  /\ table8' = NoTable
  /\ UNCHANGED <<env, stage, target, param, cpu, cache4, arena4, native, table4, server, misread>>
  /\ holds' = {p \in holds : p[2] \in Living(p[1])'}

\* The native loop follows the addresses in its table.
ServerReads(ids) ==
  /\ stage = "serve" /\ server # 0
  /\ IF table8.n = server
       THEN Reads("server", ids, table8.ptr, "int8")
       ELSE misread' = misread \cup {"server"}
  /\ UNCHANGED <<env, stage, target, param, cpu, arenas, tables, server, holds>>

Loading == Loaded \/ \E e \in Experts : LoadInt8(e) \/ LoadFp4(e) \/ LoadGguf(e)
Starting == PrepareFp4 \/ Prepare \/ StartServer
Reading ==
  \/ EnsureNative
  \/ \E ids \in Some : RunInt8(ids) \/ RunNative(ids) \/ RunReference(ids)
  \/ \E ids \in Some : RunGguf(ids) \/ RunGgufExperts(ids)
  \/ \E ids \in Some, fp4 \in BOOLEAN : StageArena(ids, fp4) \/ StageCache(ids, fp4)
  \/ \E ids \in Some : ServerReads(ids)

Next == Loading \/ Starting \/ Reading \/ Release

Spec == Init /\ [][Next]_vars

-----------------------------------------------------------------------------
(***************************************************************************)
(* Settings that the code accepts and that do not work.  After a release   *)
(* int8 experts have no prepared copy and the fp4 kernel has null pointers *)
(* for them; and with DEEPSEEK_CPU_EXPERT_INT8 a staging that prepares     *)
(* some experts sets the flag which sends a forward over all of them to    *)
(* the int8 kernel.  The in-process server keeps the addresses of tables   *)
(* that a release frees, and is started although nothing was prepared.     *)
(***************************************************************************)
ReleaseBreaks == env.drops /\ (env.dtype = "int8" \/ env.cpu8 \/ env.loop)
NothingPrepared ==
  env.loop /\ env.dtype = "fp4" /\ ~(env.arena4 /\ env.pins /\ env.cuda)

(***************************************************************************)
(* In all others, whatever way a checkpoint came into memory and was       *)
(* converted, moved, released and converted again, every runner, staging   *)
(* and server reads living memory with the weights that were loaded for    *)
(* that expert, in the format it takes it to have.                         *)
(***************************************************************************)
ReadersGetLoadedWeights == ReleaseBreaks \/ NothingPrepared \/ misread = {}

(***************************************************************************)
(* While serving, the arena is the only store of the weights in the format *)
(* of the checkpoint: they are there, and nowhere else (cpu_backend.py:    *)
(* 410-413 and 417-419).                                                   *)
(***************************************************************************)
Stores(e, formats) == {c \in Living(e) : c.at \in formats /\ <<e, c>> \in holds}
ArenaIsOnlyStore ==
  stage = "serve" /\ env.pins =>
    \A e \in Experts :
      /\ env.dtype = "int8" /\ env.arena8 /\ ~env.drops =>
           Cardinality(Stores(e, Formats.int8)) = 1
      /\ env.dtype = "fp4" /\ env.arena4 =>
           Stores(e, {"own", "arena4", "packed", "float"}) = {Slot4}
=============================================================================
