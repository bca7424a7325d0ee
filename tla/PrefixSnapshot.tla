--------------------------- MODULE PrefixSnapshot ---------------------------
(***************************************************************************)
(* The prefix snapshot cache of the Python server on all its ranks:        *)
(* src/runtime/prefix_snapshot.py, its use in the handler threads of rank  *)
(* 0 (OpenAIHandler.do_POST) and in generate and generate_stream of        *)
(* src/models/deepseek_v4/generation.py.                                   *)
(*                                                                         *)
(* Every rank keeps an LRU of snapshots of its own KV and compressor       *)
(* state.  A handler thread of rank 0 looks for the longest known prefix   *)
(* of its prompt; the hint travels with the request to all ranks, and each *)
(* of them restores that prefix if it still has it.  The ranks then run    *)
(* the rest of the prompt together, so they must have restored the same.   *)
(*                                                                         *)
(* A key is the prefix that is hashed.  A state of the model is the        *)
(* sequence of tokens that led to it.  The LRU's lock makes every method   *)
(* one step; capture holds it twice, but only the thread that generates    *)
(* inserts, so that nothing is lost by taking it as one.                   *)
(***************************************************************************)
EXTENDS Naturals, Sequences, FiniteSets, SequencesExt

CONSTANTS
  Ranks,       \* 0..World-1
  Requests,    \* handler threads
  Tokens,      \* the vocabulary
  Prompts,     \* the prompts they may bring, as sequences of tokens
  Block,       \* DEEPSEEK_PREFIX_SNAPSHOT_BLOCK
  MinTokens,   \* DEEPSEEK_PREFIX_SNAPSHOT_MIN_TOKENS, at least Block
  MaxEntries,  \* DEEPSEEK_PREFIX_SNAPSHOT_MAX_ENTRIES, at least 1
  Chunks,      \* values of prefill_chunk_tokens to consider; 0 is no chunks
  Generated,   \* a token that generation appends, told from those of a prompt
  Nobody       \* no request has run yet

\* One row and greedy, one row with logits (sampling or penalties), several
\* rows (n > 1, or a batch).
Kinds == {"plain", "logits", "rows"}

ASSUME SnapshotAssumption ==
  /\ 0 \in Ranks
  /\ Nobody \notin Requests
  /\ Block \in Nat \ {0}
  /\ MinTokens \in Nat /\ MinTokens >= Block
  /\ MaxEntries \in Nat \ {0}
  /\ Chunks \subseteq Nat
  /\ Prompts \subseteq Seq(Tokens) /\ <<>> \notin Prompts
  /\ Generated \notin Tokens

VARIABLES
  conf,     \* how the server is run: conf.all and conf.chunk are the
            \* environment's (CAPTURE_ALL, prefill chunks), conf.orderly says
            \* that one client sends one request of one row at a time, within
            \* the server's limits
  stage,    \* stage[r]: where the handler thread of r is
  ask,      \* ask[r]: the prompt, and the kind of generation
  hint,     \* hint[r]: what lookup_hint returned
  queue,    \* accepted requests that wait for the engine's worker
  job,      \* the request all ranks are running, or ran last
  at,       \* at[k]: where rank k is in generate
  pos,      \* pos[k]: tokens of the prompt that rank k is past
  pending,  \* pending[k]: prefix_snapshot_pending_captures
  chunked,  \* chunked[k]: the prefill goes by prefill_chunk_tokens
  kv,       \* kv[k]: the model's state on rank k
  lru       \* lru[k]: _entries, the least recently used first

handlers == <<stage, ask, hint, queue>>
vars == <<conf, stage, ask, hint, queue, job, at, pos, pending, chunked, kv, lru>>

Prefix(p, n) == SubSeq(p, 1, n)
Floor(n) == (n \div Block) * Block
NoHint == [match |-> <<>>, captures |-> {}]

Keys(cache) == {cache[i].key : i \in 1..Len(cache)}
Where(cache, key) == CHOOSE i \in 1..Len(cache) : cache[i].key = key
Entry(cache, key) == cache[Where(cache, key)]

\* move_to_end
Touch(cache, key) == Append(RemoveAt(cache, Where(cache, key)), Entry(cache, key))

\* A new entry at the end, and popitem(last=False) past the bound.
Insert(cache, key, state) ==
  LET grown == Append(cache, [key |-> key, state |-> state])
  IN  IF Len(grown) > MaxEntries THEN Tail(grown) ELSE grown

Init ==
  /\ conf \in [orderly : BOOLEAN, all : BOOLEAN, chunk : Chunks]
  /\ stage = [r \in Requests |-> "new"]
  /\ ask = [r \in Requests |-> [prompt |-> <<>>, kind |-> "plain"]]
  /\ hint = [r \in Requests |-> NoHint]
  /\ queue = <<>>
  /\ job = Nobody
  /\ at = [k \in Ranks |-> "idle"]
  /\ pos = [k \in Ranks |-> 0]
  /\ pending = [k \in Ranks |-> {}]
  /\ chunked = [k \in Ranks |-> FALSE]
  /\ kv = [k \in Ranks |-> <<>>]
  /\ lru = [k \in Ranks |-> <<>>]

-----------------------------------------------------------------------------
(***************************************************************************)
(* A handler thread of rank 0: do_POST.                                    *)
(***************************************************************************)

\* The block boundaries lookup_hint tries: at least one token is left over.
Tried(p) == {n \in 1..Len(p) - 1 : n % Block = 0}
Known(p) == {n \in Tried(p) : Prefix(p, n) \in Keys(lru[0])}
Longest(p) ==
  IF Known(p) = {} THEN 0 ELSE CHOOSE n \in Known(p) : \A m \in Known(p) : m <= n

CapturePositions(p) ==
  IF conf.all THEN {n \in 1..Len(p) : n % Block = 0} ELSE {Floor(Len(p))}

\* lookup_hint: a match becomes the most recently used entry of rank 0.
Lookup(r) ==
  /\ stage[r] = "new"
  /\ conf.orderly => \A s \in Requests : stage[s] \in {"new", "done"}
  /\ \E p \in Prompts, kind \in Kinds :
       /\ conf.orderly => kind # "rows"
       /\ ask' = [ask EXCEPT ![r] = [prompt |-> p, kind |-> kind]]
       /\ IF Floor(Len(p)) < MinTokens
            THEN UNCHANGED <<hint, lru>>
            ELSE /\ hint' = [hint EXCEPT ![r] = [match |-> Prefix(p, Longest(p)),
                                                 captures |-> CapturePositions(p)]]
                 /\ lru' = IF Longest(p) = 0 THEN lru
                           ELSE [lru EXCEPT ![0] = Touch(@, Prefix(p, Longest(p)))]
  /\ stage' = [stage EXCEPT ![r] = "hinted"]
  /\ UNCHANGED <<conf, queue, job, at, pos, pending, chunked, kv>>

\* submit or submit_stream: queued, or refused with the lookup already made.
Submit(r) ==
  /\ stage[r] = "hinted"
  /\ \/ /\ stage' = [stage EXCEPT ![r] = "queued"]
        /\ queue' = Append(queue, r)
     \/ /\ ~conf.orderly
        /\ stage' = [stage EXCEPT ![r] = "done"]
        /\ UNCHANGED queue
  /\ UNCHANGED <<conf, ask, hint, job, at, pos, pending, chunked, kv, lru>>

-----------------------------------------------------------------------------
(***************************************************************************)
(* All ranks: the engine's worker on rank 0, _worker_loop on the others.   *)
(***************************************************************************)

\* The broadcast of the payload, with the hint in it: all ranks take part.
Broadcast ==
  /\ queue # <<>> /\ \A k \in Ranks : at[k] = "idle"
  /\ job' = Head(queue)
  /\ queue' = Tail(queue)
  /\ at' = [k \in Ranks |-> "settings"]
  /\ UNCHANGED <<conf, stage, ask, hint, pos, pending, chunked, kv, lru>>

Prompt == ask[job].prompt

\* restore: the hinted entry, if this rank has it and it leaves a token over.
Restores(k) ==
  /\ ask[job].kind # "rows" /\ hint[job].match # <<>>
  /\ hint[job].match \in Keys(lru[k])
  /\ Len(hint[job].match) < Len(Prompt)

PendingFrom(start) ==
  IF ask[job].kind = "rows" \/ Floor(Len(Prompt)) < MinTokens THEN {}
  ELSE {n \in hint[job].captures : start < n /\ n <= Floor(Len(Prompt))}

Start(k) == IF Restores(k) THEN Len(hint[job].match) ELSE 0

\* What generate sets up for its prefill: the position to start from, the
\* positions to capture, and whether to go by chunks.
Begin(k) ==
  /\ pos' = [pos EXCEPT ![k] = Start(k)]
  /\ pending' = [pending EXCEPT ![k] = PendingFrom(Start(k))]
  /\ chunked' = [chunked EXCEPT ![k] =
                   conf.chunk > 0 /\ Len(Prompt) - Start(k) > conf.chunk]
  /\ at' = [at EXCEPT ![k] = "forward"]
  /\ UNCHANGED <<conf, handlers, job>>

Touched(k) == [lru EXCEPT ![k] = Touch(@, hint[job].match)]
Copied(k) == [kv EXCEPT ![k] = Entry(lru[k], hint[job].match).state]

\* A mutant of Settings: the buffers are not copied back.
SettingsNoCopy(k) ==
  /\ at[k] = "settings"
  /\ IF Restores(k) THEN lru' = Touched(k) /\ UNCHANGED kv ELSE UNCHANGED <<lru, kv>>
  /\ Begin(k)

\* A mutant of Settings: a restored entry is not moved to the end.
SettingsNoTouch(k) ==
  /\ at[k] = "settings"
  /\ IF Restores(k) THEN kv' = Copied(k) /\ UNCHANGED lru ELSE UNCHANGED <<lru, kv>>
  /\ Begin(k)

\* _prefix_snapshot_settings: restore, and what is still to be captured.
Settings(k) ==
  /\ at[k] = "settings"
  /\ IF Restores(k) THEN lru' = Touched(k) /\ kv' = Copied(k) ELSE UNCHANGED <<lru, kv>>
  /\ Begin(k)

(***************************************************************************)
(* Where the next forward of the prefill ends: at the prompt's end when    *)
(* logits are needed; else after a chunk, or at the next position to       *)
(* capture, if that comes first.  Whether to go by chunks was decided once,*)
(* from the length of the rest to run.                                     *)
(***************************************************************************)
Ends(k) ==
  {Len(Prompt)} \cup
  (CASE ask[job].kind = "logits" -> {}
     [] ask[job].kind # "logits" /\ chunked[k] -> {pos[k] + conf.chunk}
     [] ask[job].kind # "logits" /\ ~chunked[k] -> pending[k])
End(k) ==
  LET ends == {n \in Ends(k) : n > pos[k]} IN CHOOSE n \in ends : \A m \in ends : n <= m

\* model.forward: its collectives need all ranks, with the same tokens.  A
\* forward from position 0 starts the model's state anew.
Forward ==
  /\ \A k \in Ranks : at[k] = "forward" /\ pos[k] = pos[0] /\ End(k) = End(0)
  /\ kv' = [k \in Ranks |-> (IF pos[k] = 0 THEN <<>> ELSE kv[k])
                              \o SubSeq(Prompt, pos[k] + 1, End(k))]
  /\ pos' = [k \in Ranks |-> End(k)]
  /\ at' = [k \in Ranks |-> "capture"]
  /\ UNCHANGED <<conf, handlers, job, pending, chunked, lru>>

AfterCapture(k) == IF pos[k] = Len(Prompt) THEN "decode" ELSE "forward"

\* A mutant of Capture: positions that were passed are captured too.
CaptureLate(k) ==
  /\ at[k] = "capture"
  /\ LET due == {n \in pending[k] : n <= pos[k]}
         n == CHOOSE n \in due : \A m \in due : n <= m
         key == Prefix(Prompt, n)
     IN IF due # {}
          THEN /\ lru' = [lru EXCEPT ![k] =
                            IF key \in Keys(@) THEN Touch(@, key)
                            ELSE Insert(@, key, kv[k])]
               /\ pending' = [pending EXCEPT ![k] = @ \ due]
          ELSE UNCHANGED <<lru, pending>>
  /\ at' = [at EXCEPT ![k] = AfterCapture(k)]
  /\ UNCHANGED <<conf, handlers, job, pos, chunked, kv>>

\* maybe_capture_prefix_snapshot, and capture with its own tests.
Capture(k) ==
  /\ at[k] = "capture"
  /\ LET key == Prefix(Prompt, pos[k]) IN
       IF pos[k] \in pending[k]
         THEN /\ lru' = IF pos[k] % Block # 0 \/ pos[k] < MinTokens THEN lru
                        ELSE [lru EXCEPT ![k] =
                                IF key \in Keys(@) THEN Touch(@, key)
                                ELSE Insert(@, key, kv[k])]
              /\ pending' = [pending EXCEPT ![k] = @ \ {pos[k]}]
         ELSE UNCHANGED <<lru, pending>>
  /\ at' = [at EXCEPT ![k] = AfterCapture(k)]
  /\ UNCHANGED <<conf, handlers, job, pos, chunked, kv>>

\* The decode steps, together like every forward: the state moves on past
\* the prompt.
Decode ==
  /\ \A k \in Ranks : at[k] = "decode"
  /\ kv' = [k \in Ranks |-> Append(kv[k], Generated)]
  /\ at' = [k \in Ranks |-> "decoded"]
  /\ UNCHANGED <<conf, handlers, job, pos, pending, chunked, lru>>

\* The rank is through, without a decode step if the first token was the last
\* (max_tokens, or the end token); from rank 0 the client has its answer.
Return(k) ==
  /\ at[k] \in {"decode", "decoded"}
  /\ at' = [at EXCEPT ![k] = "idle"]
  /\ stage' = IF k = 0 THEN [stage EXCEPT ![job] = "done"] ELSE stage
  /\ UNCHANGED <<conf, ask, hint, queue, job, pos, pending, chunked, kv, lru>>

-----------------------------------------------------------------------------
Generate == Broadcast \/ (\E k \in Ranks : Settings(k) \/ Capture(k) \/ Return(k)) \/ Forward \/ Decode

Next == (\E r \in Requests : Lookup(r) \/ Submit(r)) \/ Generate

Spec == Init /\ [][Next]_vars

-----------------------------------------------------------------------------
(***************************************************************************)
(* What a snapshot restores is the state of the model after exactly the    *)
(* tokens that it is filed under, on every rank: capture runs between two  *)
(* forwards that were cut at its position, whatever chunks the prefill is  *)
(* made of.  No prefix is filed twice, and no cache exceeds its bound.     *)
(***************************************************************************)
SnapshotsTrue == \A k \in Ranks :
  /\ \A i \in 1..Len(lru[k]) : lru[k][i].state = lru[k][i].key
  /\ Cardinality(Keys(lru[k])) = Len(lru[k])
  /\ Len(lru[k]) <= MaxEntries

(***************************************************************************)
(* A forward that does not start at position 0 finds the model in the      *)
(* state that the skipped part of its own prompt leads to, and there is a  *)
(* token left to run; even if the entry was evicted, or the cache touched  *)
(* by other handlers, between the lookup and the restore.                  *)
(***************************************************************************)
ResumesRight == \A k \in Ranks :
  at[k] = "forward" =>
    /\ pos[k] < Len(Prompt)
    /\ pos[k] > 0 => kv[k] = Prefix(Prompt, pos[k])

(***************************************************************************)
(* When one client sends one request of one row at a time, lookup_hint     *)
(* touches on rank 0 what restore then touches on all ranks: the ranks bring*)
(* the same tokens to every forward, and between requests their caches are *)
(* equal.  (With several clients, refused requests, or n > 1 they are      *)
(* not: lookup_hint touches the cache of rank 0 alone.)                    *)
(***************************************************************************)
RanksAgree ==
  LET meet == \A k \in Ranks : at[k] = "forward"
      rest == /\ \A r \in Requests : stage[r] \in {"new", "done"}
              /\ \A k \in Ranks : at[k] = "idle"
  IN  conf.orderly =>
        /\ meet => \A k \in Ranks : pos[k] = pos[0] /\ pending[k] = pending[0]
        /\ rest => \A k \in Ranks : lru[k] = lru[0]
=============================================================================
