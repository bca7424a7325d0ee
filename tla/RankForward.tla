---------------------------- MODULE RankForward ----------------------------
(***************************************************************************)
(* One forward pass after another on several ranks, as                     *)
(* models/deepseek_v4/runtime.py splits it: tensor parallel, every rank a  *)
(* slice of every layer and collectives that put the slices together, or   *)
(* layer parallel, every rank some of the layers.                          *)
(*                                                                         *)
(* A tensor is a count: how often it contains the part that each slice of  *)
(* the vocabulary, of the heads or of the routed experts adds to it, and   *)
(* the shared expert.  Before a tensor is used it must contain each once.  *)
(* Which collectives a rank enters is decided by each rank for itself,     *)
(* from the environment, the rows of its input and its own experts.        *)
(***************************************************************************)
EXTENDS Integers, Sequences, Functions, FiniteSetsExt

CONSTANTS
  W,          \* world_size
  N,          \* number of layers
  Indexed,    \* the layers with an Indexer
  K,          \* bound: routed experts, and units of heads and vocabulary
  MinTokens,  \* DEEPSEEK_GPU_PREFILL_MOE_MIN_TOKENS
  Settings,   \* bound: the environments, members of AllSettings
  Scripts     \* bound: sequences of passes, with their phase and rows

Policies == {"tensor", "layer_pp"}

(***************************************************************************)
(* The environment, as far as MoE.__init__ and the predicates of MoE read  *)
(* it.  "tensor" stands for legacy and baseline_4gpu; what                 *)
(* assert_baseline_compatible_env refuses for layer_pp_4gpu is left out.   *)
(***************************************************************************)
AllSettings ==
  {s \in [policy : Policies,
          experts : {"cuda", "cpu", "gguf"},                 \* where, and of what file
          server : {"none", "inproc", "external", "rank0"},  \* DEEPSEEK_CPU_MOE_*_SERVER
          auto : BOOLEAN,        \* DEEPSEEK_PD_PHASE_AUTO_SELECT
          async : BOOLEAN,       \* DEEPSEEK_MOE_ASYNC_ALLREDUCE
          host : BOOLEAN,        \* DEEPSEEK_CPU_MOE_HOST_REDUCE
          prefill : BOOLEAN,     \* DEEPSEEK_GPU_PREFILL_MOE, or its GGUF sibling
          active : BOOLEAN,      \* DEEPSEEK_GPU_MOE_DECODE_ACTIVE, or its GGUF siblings
          overlap : BOOLEAN,     \* DEEPSEEK_GPU_MOE_ACTIVE_OVERLAP_(SHARED_)REDUCE
          token2 : BOOLEAN,      \* DEEPSEEK_GPU_MOE_SPEC_TOKEN2
          predict : BOOLEAN,     \* DEEPSEEK_CPU_MOE_PREDICT_SEQ
          pauses : BOOLEAN,      \* DEEPSEEK_PD_PAUSE_SERVER_DURING_PREFILL
          replicated : BOOLEAN]: \* DEEPSEEK_REPLICATED_C4_INDEXER
    /\ s.policy = "layer_pp" => s.server \notin {"inproc", "rank0"} /\ ~s.replicated
    /\ s.experts = "cuda" => s.server = "none"}

ASSUME ForwardAssumption ==
  /\ W \in Nat \ {0, 1} /\ N \in Nat \ {0} /\ Indexed \subseteq 1..N
  /\ K \in Nat \ {0} /\ K % W = 0 /\ MinTokens \in Nat \ {0, 1}
  /\ Settings \subseteq AllSettings

VARIABLES
  env,       \* the environment of all ranks
  script,    \* the passes that generate asks for
  turn,      \* turn[r]: the pass that rank r is in
  at,        \* at[r]: its next layer; 0 is the embedding, N + 1 the head
  todo,      \* todo[r]: the steps it still has to take in its layer
  y,         \* y[r]: what its tensor contains
  mine,      \* mine[r]: the number of the answer it waits for
  asked,     \* the requests of rank 0 to the MoE server, as <<pass, layer>>
  answered,  \* how many of them are answered
  paused,    \* SIGSTOP has been sent to the server
  wrong      \* a tensor was used that is not whole

vars == <<env, script, turn, at, todo, y, mine, asked, answered, paused, wrong>>

Ranks == 0..W - 1
Units == 0..K - 1
Shared == -1   \* the part that the shared expert adds
Parts == Units \cup {Shared}
Nothing == [p \in Parts |-> 0]
Tensor == env.policy = "tensor"

Init ==
  /\ env \in Settings /\ script \in Scripts
  /\ turn = [r \in Ranks |-> 0] /\ at = [r \in Ranks |-> N + 2]
  /\ todo = [r \in Ranks |-> <<>>] /\ y = [r \in Ranks |-> Nothing]
  /\ mine = [r \in Ranks |-> 0] /\ asked = <<>> /\ answered = 0
  /\ paused = FALSE /\ wrong = FALSE

-----------------------------------------------------------------------------
(***************************************************************************)
(* Who has what.                                                           *)
(***************************************************************************)
Slice(r) == IF Tensor THEN {u \in Units : u \div (K \div W) = r} ELSE Units

\* experts_start_idx..experts_end_idx - 1.
Owned(r) ==
  CASE env.server = "inproc" -> IF r = 0 THEN Units ELSE {}
    [] env.server = "rank0" /\ r = 0 -> Units
    [] OTHER -> Slice(r)

\* layer_start..layer_end - 1, counted from 1.
Layers(r) ==
  IF Tensor THEN 1..N ELSE {l \in 1..N : (r * N) \div W < l /\ l <= ((r + 1) * N) \div W}

First(r) == Tensor \/ r = 0
Last(r) == Tensor \/ r = W - 1

-----------------------------------------------------------------------------
(***************************************************************************)
(* The steps of a layer.  Steps with the same name are entered together.   *)
(***************************************************************************)
Step(do, units, of) == <<[do |-> do, units |-> units, of |-> of]>>
Add(units) == Step("add", units, "")
Sum(of) == IF Tensor THEN Step("sum", {}, of) ELSE <<>>
Use(parts) == Step("use", parts, "")

rows(r) == script[turn[r]].rows
\* _pd_active_phase
Phase(r) == IF env.auto THEN script[turn[r]].phase ELSE "none"

\* _has_gguf_raw_experts looks at the experts that the rank has.
OnCpu == env.experts # "cuda"
HasGguf(r) == env.experts = "gguf" /\ Owned(r) # {}
HasFp(r) == OnCpu /\ ~HasGguf(r)

PrefillFits(r) ==
  /\ Phase(r) # "decode" /\ env.prefill /\ Owned(r) # {} /\ rows(r) >= MinTokens
ActiveFits(r) == Phase(r) = "decode" /\ env.active /\ Owned(r) # {}
Token2Fits(r) ==
  /\ HasFp(r) /\ Phase(r) = "decode" /\ env.token2 /\ Owned(r) # {} /\ rows(r) = 2
ServerFits(r, server) ==
  /\ HasFp(r) /\ env.server = server /\ rows(r) = 1
  /\ server = "rank0" \/ Phase(r) # "prefill"
HostReduces(r) ==
  /\ HasFp(r) /\ env.host /\ Tensor /\ rows(r) = 1 /\ Phase(r) # "prefill"

\* On the GPU, or on the CPU of this rank.
OnGpu(r) == OnCpu /\ (PrefillFits(r) \/ ActiveFits(r) \/ Token2Fits(r))
Overlaps(r) ==
  /\ HasFp(r) /\ ~PrefillFits(r) /\ ~Token2Fits(r) /\ ActiveFits(r)
  /\ env.overlap /\ env.async /\ Tensor

\* An inproc server: the other ranks have no experts of their own.
NoExperts(r) == OnCpu /\ env.server = "inproc" /\ r # 0

AskServer(r) ==
  IF r = 0 THEN Step("submit", {}, "")
  ELSE IF env.predict THEN Step("count", {}, "") ELSE <<>>
ServerRoutes(r) ==
  AskServer(r) \o (IF env.predict THEN <<>> ELSE Step("seq", {}, "")) \o Step("await", {}, "")

OnServer(r) == ServerFits(r, "inproc") \/ ServerFits(r, "external")

\* What the branches of MoE.forward add to y and reduce themselves.
Routed(r) ==
  IF OnGpu(r) THEN Add(Owned(r)) \o (IF Overlaps(r) THEN Sum("moe") ELSE <<>>)
  ELSE IF ~OnCpu THEN Add(Owned(r))
  ELSE IF OnServer(r) THEN ServerRoutes(r)
  ELSE IF ServerFits(r, "rank0") THEN
    (IF r = 0 THEN Add(Owned(r)) ELSE <<>>) \o Step("share", {}, "moe")
  ELSE IF NoExperts(r) THEN <<>>
  ELSE Add(Owned(r)) \o (IF HostReduces(r) THEN Step("host", {}, "moe")
                         ELSE IF env.async THEN Sum("moe") ELSE <<>>)

\* A mutant of ReducedAlready: the flag of the ranks without experts is not looked at.
ReducedAlreadyOnZeros(r) ==
  \/ Overlaps(r)
  \/ /\ OnCpu
     /\ \/ env.async /\ ~OnGpu(r)
        \/ HostReduces(r)
        \/ OnServer(r) \/ ServerFits(r, "rank0")

\* The condition of the reduction after the branches.
ReducedAlready(r) ==
  \/ Overlaps(r)
  \/ /\ OnCpu
     /\ \/ env.async /\ ~OnGpu(r) /\ ~(NoExperts(r) /\ ~OnServer(r))
        \/ HostReduces(r)
        \/ OnServer(r) \/ ServerFits(r, "rank0")

\* A mutant of MoE: the shared expert is added before the ranks reduce.
MoESharedFirst(r) ==
  Routed(r) \o Add({Shared}) \o (IF ReducedAlready(r) THEN <<>> ELSE Sum("moe")) \o Use(Parts)

MoE(r) ==
  Routed(r) \o (IF ReducedAlready(r) THEN <<>> ELSE Sum("moe")) \o Add({Shared}) \o Use(Parts)

\* The heads of the Indexer are split unless it is replicated; those of Attention always.
Attention(r, l) ==
  (IF l \notin Indexed THEN <<>>
   ELSE (IF env.replicated THEN Add(Units) ELSE Add(Slice(r)) \o Sum("scores")) \o Use(Units))
    \o Add(Slice(r)) \o Sum("attention") \o Use(Units)

Embedding(r) ==
  IF First(r) THEN Add(Slice(r)) \o Sum("embedding") \o Use(Units) ELSE Step("recv", {}, "")

\* ParallelHead.next_token; with layer_pp_4gpu the last rank tells the others.
LastSteps(r) ==
  IF Tensor THEN Add(Slice(r)) \o Step("gather", {}, "token") \o Use(Units)
  ELSE (IF Last(r) THEN Add(Units) \o Use(Units) ELSE Step("send", {}, ""))
         \o Step("last", {}, "token")

Steps(r, l) ==
  CASE l = 0 -> Embedding(r)
    [] l = N + 1 -> LastSteps(r)
    [] l \in Layers(r) -> Attention(r, l) \o MoE(r)
    [] OTHER -> <<>>

-----------------------------------------------------------------------------
NextStep(r) == Head(todo[r])
Does(r, do) == todo[r] # <<>> /\ NextStep(r).do = do
Took(r) == [todo EXCEPT ![r] = Tail(@)]
TookAll == [r \in Ranks |-> Tail(todo[r])]

(***************************************************************************)
(* generate asks for the next pass; apply_phase_resources of rank 0 stops  *)
(* the server of the routed experts or lets it go on.                      *)
(***************************************************************************)
Begin(r) ==
  /\ todo[r] = <<>> /\ at[r] = N + 2 /\ turn[r] < Len(script)
  /\ turn' = [turn EXCEPT ![r] = @ + 1] /\ at' = [at EXCEPT ![r] = 0]
  /\ paused' = IF r = 0 THEN env.pauses /\ script[turn[0] + 1].phase = "prefill" ELSE paused
  /\ UNCHANGED <<env, script, todo, y, mine, asked, answered, wrong>>

Enter(r) ==
  /\ todo[r] = <<>> /\ at[r] <= N + 1
  /\ todo' = [todo EXCEPT ![r] = Steps(r, at[r])]
  /\ at' = [at EXCEPT ![r] = @ + 1]
  /\ UNCHANGED <<env, script, turn, y, mine, asked, answered, paused, wrong>>

Compute(r) ==
  /\ Does(r, "add")
  /\ y' = [y EXCEPT ![r] = [p \in Parts |-> @[p] + IF p \in NextStep(r).units THEN 1 ELSE 0]]
  /\ todo' = Took(r)
  /\ UNCHANGED <<env, script, turn, at, mine, asked, answered, paused, wrong>>

\* The tensor goes into the next computation, and a new one is begun.
UseTensor(r) ==
  /\ Does(r, "use")
  /\ wrong' = (wrong \/ y[r] # [p \in Parts |-> IF p \in NextStep(r).units THEN 1 ELSE 0])
  /\ y' = [y EXCEPT ![r] = Nothing]
  /\ todo' = Took(r)
  /\ UNCHANGED <<env, script, turn, at, mine, asked, answered, paused>>

\* All ranks are in the same kind of collective, over tensors of one size.
Together(do) == \A r \in Ranks : Does(r, do) /\ NextStep(r) = NextStep(0)

Total == [p \in Parts |-> MapThenSumSet(LAMBDA r : y[r][p], Ranks)]

\* all_reduce, all_gather, and host_float_allreduce.
Reduce ==
  /\ Together("sum") \/ Together("gather") \/ Together("host")
  /\ y' = [r \in Ranks |-> Total]
  /\ todo' = TookAll
  /\ UNCHANGED <<env, script, turn, at, mine, asked, answered, paused, wrong>>

\* broadcast of y by rank 0.
Share ==
  /\ Together("share")
  /\ y' = [r \in Ranks |-> y[0]]
  /\ todo' = TookAll
  /\ UNCHANGED <<env, script, turn, at, mine, asked, answered, paused, wrong>>

\* broadcast of the number of a request, or of the next token.
Tell ==
  /\ Together("seq") \/ Together("last")
  /\ mine' = IF Together("seq") THEN [r \in Ranks |-> mine[0]] ELSE mine
  /\ todo' = TookAll
  /\ UNCHANGED <<env, script, turn, at, y, asked, answered, paused, wrong>>

\* _send_activation and _recv_activation.
Hand(r) ==
  /\ r + 1 \in Ranks /\ Does(r, "send") /\ Does(r + 1, "recv")
  /\ todo' = [todo EXCEPT ![r] = Tail(@), ![r + 1] = Tail(@)]
  /\ UNCHANGED <<env, script, turn, at, y, mine, asked, answered, paused, wrong>>

Submit ==
  /\ Does(0, "submit")
  /\ asked' = Append(asked, <<turn[0], at[0]>>)
  /\ mine' = [mine EXCEPT ![0] = Len(asked) + 1]
  /\ todo' = Took(0)
  /\ UNCHANGED <<env, script, turn, at, y, answered, paused, wrong>>

\* DEEPSEEK_CPU_MOE_PREDICT_SEQ: the other ranks count by themselves.
Count(r) ==
  /\ Does(r, "count")
  /\ mine' = [mine EXCEPT ![r] = @ + 1]
  /\ todo' = Took(r)
  /\ UNCHANGED <<env, script, turn, at, y, asked, answered, paused, wrong>>

Await(r) ==
  /\ Does(r, "await") /\ mine[r] <= answered
  /\ y' = [y EXCEPT ![r] =
            [p \in Parts |-> @[p] + IF p \in Units /\ asked[mine[r]] = <<turn[r], at[r]>>
                                    THEN 1 ELSE 0]]
  /\ todo' = Took(r)
  /\ UNCHANGED <<env, script, turn, at, mine, asked, answered, paused, wrong>>

\* The MoE server answers, unless it is stopped.
Answer ==
  /\ answered < Len(asked) /\ ~paused
  /\ answered' = answered + 1
  /\ UNCHANGED <<env, script, turn, at, todo, y, mine, asked, paused, wrong>>

Done == \A r \in Ranks : turn[r] = Len(script) /\ at[r] = N + 2 /\ todo[r] = <<>>
Alone(r) == Begin(r) \/ Enter(r) \/ Compute(r) \/ UseTensor(r) \/ Count(r) \/ Await(r) \/ Hand(r)
Jointly == Reduce \/ Share \/ Tell
Next == (\E r \in Ranks : Alone(r)) \/ Jointly \/ Submit \/ Answer

(***************************************************************************)
(* No rank stops by itself, a collective that every rank has entered ends, *)
(* and the server answers while it is not stopped.                         *)
(***************************************************************************)
Spec ==
  /\ Init /\ [][Next]_vars
  /\ \A r \in Ranks : WF_vars(Alone(r))
  /\ WF_vars(Jointly) /\ WF_vars(Submit) /\ WF_vars(Answer)

-----------------------------------------------------------------------------
(***************************************************************************)
(* Environments that the code accepts with tensor parallelism (partition   *)
(* policy legacy; baseline_4gpu refuses the servers of a rank) or layer    *)
(* parallelism, but whose ranks do not fit together.                       *)
(***************************************************************************)
Passes == Range(script)
Single == {p \in Passes : p.rows = 1}
\* The GPU takes the only token of a decode pass, and MoE.forward does not look further.
Active == {p \in Single : env.auto /\ env.active /\ p.phase = "decode"}
Decoding == {p \in Single : env.auto => p.phase = "decode"}
Served == IF env.experts = "cpu" THEN Decoding \ Active ELSE {}

(***************************************************************************)
(* The routed experts are not counted once: rank 0 as the server also has  *)
(* the experts of the others; a predicate of the reduction holds though    *)
(* the GPU branch was taken; the ranks of a pipeline count the requests of *)
(* layers that they do not run.                                            *)
(***************************************************************************)
Miscounts ==
  \/ /\ env.server = "rank0"
     /\ env.experts = "gguf" \/ Passes # Single \/ Active # {}
  \/ /\ Tensor /\ env.experts = "cpu" /\ Active # {} /\ ~(env.overlap /\ env.async)
     /\ env.server = "external" \/ env.host
  \/ ~Tensor /\ env.server = "external" /\ env.predict /\ Served # {}

(***************************************************************************)
(* A rank waits for ever: for the others in a collective that they do not  *)
(* enter, or for a server that is stopped during the prefill.              *)
(***************************************************************************)
Clashes ==
  \/ /\ env.server = "inproc"
     /\ IF env.experts = "gguf" THEN Decoding # {} ELSE Active # {}
  \/ ~Tensor /\ env.server = "external" /\ ~env.predict /\ Served # {}
  \/ /\ env.server = "external" /\ env.pauses
     /\ \E p \in Served : p.phase = "prefill"

(***************************************************************************)
(* In every other environment, and in every order of the ranks' steps, a   *)
(* tensor that is computed with contains each part once: every collective  *)
(* is entered where a part is missing, and no part is reduced twice        *)
(* (MoE.forward, Attention.forward, Indexer.forward, ParallelEmbedding).   *)
(***************************************************************************)
SumsAreWhole == Miscounts \/ ~wrong

(***************************************************************************)
(* Each rank decides for itself which collective it enters next; in every  *)
(* other environment they agree, all passes end and no rank is left alone  *)
(* in a collective (Transformer.forward, MoE.forward).                     *)
(***************************************************************************)
PassesEnd == ~Clashes => <>Done
=============================================================================
