--------------------------- MODULE MCExpertMemory ---------------------------
(***************************************************************************)
(* Instances for TLC of three modules about the memory of the routed       *)
(* experts: ExpertWeights, the weights on the host; CpuPipeline, how calls *)
(* get to the host and back; GgufBlocks, quantized weights on the GPU.     *)
(* They share nothing: a behaviour is one of the part it starts with.      *)
(***************************************************************************)
EXTENDS CpuPipeline, FiniteSets, TLC

CONSTANTS
  Owned, Times,
  N, Experts, Slots, MainMemory, CopyMemory, Nowhere, QueueDepth

VARIABLES
  part,  \* the module that a behaviour is one of
  weightsEnv, step, target, param, cpu, cache8, cache4, arena8, arena4, prep8,
  native, table4, table8, server, holds, misread,
  env, phase, next, todo, stage, layers, lru, spare, coming, event, held,
  slots, inSlot, mainQ, copyQ, wrong

weightsVars == <<weightsEnv, step, target, param, cpu, cache8, cache4, arena8, arena4, prep8,
                 native, table4, table8, server, holds, misread>>
ggufVars == <<env, phase, next, todo, stage, layers, lru, spare, coming, event, held,
              slots, inSlot, mainQ, copyQ, wrong>>

Weights == INSTANCE ExpertWeights WITH Experts <- Owned, env <- weightsEnv, stage <- step
Gguf == INSTANCE GgufBlocks WITH Depth <- QueueDepth

MCTimes == 1 .. 8

\* There are more numbers of allocations than an expert's copies, an arena, and two tables can have.
ASSUME WeightsAssumption ==
  /\ IsFiniteSet(Owned) /\ IsFiniteSet(Times) /\ Times \subseteq Nat \ {0}
  /\ Cardinality(Times) > Cardinality(Owned) + 3

\* The two ways to compute a prefill and the three to compute a token, each with what it reads.
GgufSettings ==
  {s \in Gguf!AllSettings :
    IF s.active
      THEN /\ s.window = 1 /\ s.cached = 1 /\ s.keepStaged /\ s.waits /\ s.room < 3
           /\ s.decode # "active" => s.prefetch /\ s.keep
           /\ s.ahead => s.decode = "grouped"
           /\ s.decode = "slots" => s.room = 1
      ELSE s.decode = "active" /\ ~s.prefetch /\ s.keep /\ s.room = 1 /\ ~s.ahead}
PipelineSettings ==
  {c \in [how : {"executor", "worker"}, async : BOOLEAN, routes : BOOLEAN] :
    c.routes => c.how = "worker" /\ ~c.async}

\* The settings of a part that stays in its initial state do not matter.
For(of, all) == IF part = of THEN all ELSE {CHOOSE s \in all : TRUE}
MCInit ==
  /\ part \in {"weights", "pipeline", "gguf"}
  /\ weightsEnv \in For("weights", Weights!AllSettings) /\ Weights!Init
  /\ conf \in For("pipeline", PipelineSettings) /\ Init
  /\ env \in For("gguf", GgufSettings) /\ Gguf!Init
MCNext ==
  \/ part = "weights" /\ Weights!Next /\ UNCHANGED <<part, vars, ggufVars>>
  \/ part = "pipeline" /\ Next /\ UNCHANGED <<part, weightsVars, ggufVars>>
  \/ part = "gguf" /\ Gguf!Next /\ UNCHANGED <<part, vars, weightsVars>>
MCSpec == MCInit /\ [][MCNext]_<<part, vars, weightsVars, ggufVars>>

\* Blocks of GPU memory occur in sets only.
Symmetry == Permutations(MainMemory) \cup Permutations(CopyMemory)

-----------------------------------------------------------------------------
\* Whoever reads the weights of an expert on the host gets what was loaded: ExpertWeights.
ReadersGetLoadedWeights == Weights!ReadersGetLoadedWeights
\* The arena of cpu_backend.py is the only store of the weights: ExpertWeights.
ArenaIsOnlyStore == Weights!ArenaIsOnlyStore
\* A kernel reads the quantized blocks it was launched for: GgufBlocks.
KernelsReadTheirBlocks == Gguf!KernelsReadTheirBlocks
=============================================================================
