----------------------------- MODULE Generation -----------------------------
(***************************************************************************)
(* generate and generate_stream of models/deepseek_v4/generation.py, with  *)
(* the buffers of one attention layer under them (AttentionCache): prefill *)
(* in one pass or in several, greedy or sampled decoding of a batch of     *)
(* rows, speculative decoding with the drafts of the MTP head, end tokens, *)
(* and the completions and the stream that come out.                       *)
(*                                                                         *)
(* The model itself is abstract.  A row has one greedy continuation; a     *)
(* pass finds its next token if all its queries so far read exactly what   *)
(* they should, and otherwise may find any token.  Drafts are any token.   *)
(***************************************************************************)
EXTENDS AttentionCache, Sequences, FiniteSets

CONSTANTS
  Plain,    \* the tokens of prompts and of greedy continuations
  Odd,      \* another token
  Eos,      \* the end token
  None,     \* no token yet (-1)
  Lens,     \* bound: batches, as sequences of prompt lengths
  MaxNew,   \* max_new_tokens
  Chunks    \* bound: values of prefill_chunk_tokens

ASSUME GenerationAssumption ==
  /\ MaxNew \in Nat /\ Chunks \subseteq Nat /\ Eos # Plain
  /\ \A b \in Lens : /\ b \in Seq(1..MaxSeq) /\ b # <<>>

VARIABLES
  job,       \* the arguments and the settings of the call
  text,      \* text[r]: the tensor tokens, a row of total_len cells
  layer,     \* layer[r]: the buffers of the layer
  prev,      \* prev_pos
  cur,       \* cur_pos
  drafts,    \* pending_drafts, one token for each row, or None
  finished,  \* the rows that have met their end token
  emitted,   \* what generate_stream has yielded of a single row
  seen,      \* the worst that a query has read: "exact", "short" or "wrong"
  drifted,   \* a verify pass over the end of a group was not accepted
  done       \* the loop is over

vars == <<job, text, layer, prev, cur, drafts, finished, emitted, seen, drifted, done>>

Token == {Plain, Odd, Eos}
Rows == DOMAIN job.lens
Least(S) == CHOOSE x \in S : \A y \in S : x <= y
Most(S) == CHOOSE x \in S : \A y \in S : y <= x
Shortest == Least({job.lens[r] : r \in Rows})
TotalOf(lens) == Least({MaxSeq, MaxNew + Most({lens[r] : r \in DOMAIN lens})})
Total == TotalOf(job.lens)
Span == 0..Total - 1

\* The greedy continuation of row r: its end token is at job.stop[r], if
\* that is before Total.
Greedy(r, p) == IF p = job.stop[r] THEN Eos ELSE Plain

(***************************************************************************)
(* Speculative decoding is for greedy rows of one length.  A restored      *)
(* snapshot (one row only) leaves the buffers of its prefix.               *)
(***************************************************************************)
Called(lens, sampled, chunk, spec, kind, start, stop, cuts) ==
  /\ spec # "off" => ~sampled /\ \A r \in DOMAIN lens : lens[r] = lens[1]
  /\ start > 0 \/ cuts # {} => Len(lens) = 1
  /\ start < lens[1] /\ \A p \in cuts : start < p
  /\ \A r \in DOMAIN lens : stop[r] >= lens[r]
  /\ sampled => \A r \in DOMAIN lens : stop[r] = TotalOf(lens)
  /\ job = [lens |-> lens, sampled |-> sampled, chunk |-> chunk, spec |-> spec,
            kind |-> kind, start |-> start, cuts |-> cuts, stop |-> stop]
  /\ prev = start
  /\ text = [r \in DOMAIN lens |->
              [p \in 0..TotalOf(lens) - 1 |-> IF p < lens[r] THEN Plain ELSE None]]
  /\ layer = [r \in DOMAIN lens |->
               IF start = 0 THEN Used ELSE FirstPass(kind, Used, text[r], start)]
  /\ cur = Least({lens[r] : r \in DOMAIN lens})

Init ==
  /\ \E lens \in Lens, sampled \in BOOLEAN, chunk \in Chunks,
       spec \in {"off", "pair", "two_len1"}, kind \in Kinds, start \in {0, Ratio} :
       \E stop \in [DOMAIN lens -> 1..TotalOf(lens)],
          cuts \in SUBSET {p \in 1..lens[1] : p % Ratio = 0} :
         Called(lens, sampled, chunk, spec, kind, start, stop, cuts)
  /\ drafts = None /\ finished = {} /\ emitted = <<>> /\ seen = "exact"
  /\ drifted = FALSE /\ done = FALSE

-----------------------------------------------------------------------------
InPrompt(r, p) == p < job.lens[r]

(***************************************************************************)
(* One forward over [start, end) of the rows of input: the buffers after   *)
(* it and the worst its queries have read.                                 *)
(***************************************************************************)
Worse(a, b) ==
  IF "wrong" \in {a, b} THEN "wrong" ELSE IF "short" \in {a, b} THEN "short" ELSE "exact"

Judge(rows, input, start, end) ==
  LET queries == {<<r, p>> : r \in Rows, p \in start..end - 1} IN
    CASE \E q \in queries : ~ReadsRight(job.kind, rows[q[1]], input[q[1]], start, q[2], end) ->
           "wrong"
      [] \A q \in queries : /\ ReadsRight(job.kind, rows[q[1]], input[q[1]], start, q[2], end)
                            /\ ReadsAll(rows[q[1]], input[q[1]], start, q[2], end) ->
           "exact"
      [] OTHER -> "short"

Pass(from, input, start, end) ==
  LET rows == [r \in Rows |-> AfterPass(job.kind, from.rows[r], input[r], start, end)]
  IN [rows |-> rows, seen |-> Worse(from.seen, Judge(rows, input, start, end))]

\* Several passes over [start, end), cut at the positions of cuts.
Passes(from, input, start, end, cuts) ==
  LET inside == {p \in cuts : start < p /\ p < end}
      Before(e) == Most({start} \cup {p \in inside : p < e})
      upTo[e \in {start, end} \cup inside] ==
        IF e = start THEN from ELSE Pass(upTo[Before(e)], input, Before(e), e)
  IN upTo[end]

Now == [rows |-> layer, seen |-> seen]

\* The prefill is cut into chunks, or else where snapshots are captured.
PrefillCuts ==
  IF job.sampled THEN {}
  ELSE IF job.chunk > 0 /\ cur - prev > job.chunk
    THEN {p \in prev + 1..cur - 1 : (p - prev) % job.chunk = 0}
    ELSE job.cuts

\* The token a pass finds for the position after p, when it ran on input.
Finds(r, input, p, after) ==
  IF after = "exact" /\ ~job.sampled /\ \A q \in 0..p : input[r][q] = Greedy(r, q)
    THEN {Greedy(r, p + 1)} ELSE Token

Choices(input, p, after) ==
  {t \in [Rows -> Token] : \A r \in Rows : t[r] \in Finds(r, input, p, after)}

\* torch.where(prompt_mask, tokens, next_token), written at position p.
Written(r, p, t) == IF InPrompt(r, p) THEN text[r][p] ELSE t[r]
WriteAt(rows, p, t) == [r \in Rows |-> [rows[r] EXCEPT ![p] = Written(r, p, t)]]
Ended(p, t) == {r \in Rows : ~InPrompt(r, p) /\ t[r] = Eos}

\* A mutant of Yield: of two accepted tokens only the first is yielded.
YieldFirst(ts) ==
  emitted' = IF Len(job.lens) = 1 /\ ts # <<>> THEN Append(emitted, ts[1]) ELSE emitted

\* What generate_stream yields: the new tokens of the row (the server streams one row).
Yield(ts) == emitted' = IF Len(job.lens) = 1 THEN emitted \o ts ELSE emitted

\* draft_with_mtp gives a token for every row, or raises.
Draft ==
  IF job.spec # "off" THEN drafts' \in [Rows -> Token] \cup {None} ELSE UNCHANGED drafts

\* while cur_pos < total_len, and the break on finished.all().
Advance(n) ==
  /\ prev' = cur + n - 1
  /\ cur' = cur + n
  /\ done' = (finished' = Rows \/ cur' >= Total)

\* The prefill_step iteration: all of the shortest prompt, and the first token.
Prefill ==
  /\ ~done /\ cur < Total /\ prev < Shortest
  /\ LET pass == Passes(Now, text, prev, cur, PrefillCuts) IN
       \E t \in Choices(text, cur - 1, pass.seen) :
         /\ layer' = pass.rows /\ seen' = pass.seen
         /\ text' = WriteAt(text, cur, t)
         /\ finished' = finished \cup Ended(cur, t)
         /\ Yield(IF InPrompt(1, cur) THEN <<>> ELSE <<t[1]>>)
  /\ Advance(1)
  /\ UNCHANGED <<job, drafts, drifted>>

\* spec_verify: a draft is pending and two positions are free.
VerifyNow ==
  /\ job.spec # "off" /\ prev > 0 /\ drafts # None
  /\ cur + 1 < Total
  /\ \E r \in Rows : ~InPrompt(r, cur)
  /\ \A r \in Rows : ~InPrompt(r, cur + 1)

\* The iteration of one position.
Decode ==
  /\ ~done /\ cur < Total /\ prev >= Shortest /\ ~VerifyNow
  /\ LET pass == Pass(Now, text, prev, cur) IN
       \E t \in Choices(text, cur - 1, pass.seen) :
         /\ layer' = pass.rows /\ seen' = pass.seen
         /\ text' = WriteAt(text, cur, t)
         /\ finished' = finished \cup Ended(cur, t)
         /\ Yield(IF InPrompt(1, cur) THEN <<>> ELSE <<t[1]>>)
  /\ Draft
  /\ Advance(1)
  /\ UNCHANGED <<job, drifted>>

\* The pass, or the two passes, over the last token and the draft.
Drafted == [r \in Rows |-> [text[r] EXCEPT ![cur] = drafts[r]]]
VerifyPass ==
  Passes(Now, Drafted, prev, cur + 1, IF job.spec = "two_len1" THEN {cur} ELSE {})

\* A mutant of Accepts: the second token is taken after a draft that was wrong.
AcceptsAny(t) == finished \cup Ended(cur, t) = {}

\* All drafts were what the model says, and no row has ended.
Accepts(t) ==
  /\ \A r \in Rows : Written(r, cur, t) = drafts[r]
  /\ finished \cup Ended(cur, t) = {}

\* Both tokens of a verify pass are taken.
Accept ==
  /\ ~done /\ cur < Total /\ prev >= Shortest /\ VerifyNow
  /\ LET pass == VerifyPass IN
       \E t \in Choices(text, cur - 1, pass.seen) :
         /\ Accepts(t)
         /\ \E u \in Choices(Drafted, cur, pass.seen) :
              /\ layer' = pass.rows /\ seen' = pass.seen
              /\ text' = WriteAt(WriteAt(text, cur, t), cur + 1, u)
              /\ finished' = finished \cup Ended(cur, t) \cup Ended(cur + 1, u)
              /\ Yield(<<t[1], u[1]>>)
  /\ Draft
  /\ Advance(2)
  /\ UNCHANGED <<job, drifted>>

(***************************************************************************)
(* Only the first token is taken.  The buffers keep what the draft left in *)
(* them; the next pass runs over this position again.                      *)
(***************************************************************************)
Reject ==
  /\ ~done /\ cur < Total /\ prev >= Shortest /\ VerifyNow
  /\ LET pass == VerifyPass IN
       \E t \in Choices(text, cur - 1, pass.seen) :
         /\ ~Accepts(t)
         /\ layer' = pass.rows /\ seen' = pass.seen
         /\ text' = WriteAt(text, cur, t)
         /\ finished' = finished \cup Ended(cur, t)
         /\ Yield(<<t[1]>>)
  /\ Draft
  /\ Advance(1)
  /\ drifted' = (drifted \/ (cur + 1) % Ratio = 0)
  /\ UNCHANGED job

\* A prompt that fills the context: the loop does not run.
NoRoom ==
  /\ ~done /\ cur >= Total
  /\ done' = TRUE
  /\ UNCHANGED <<job, text, layer, prev, cur, drafts, finished, emitted, seen, drifted>>

Next == Prefill \/ Decode \/ Accept \/ Reject \/ NoRoom

Spec == Init /\ [][Next]_vars

-----------------------------------------------------------------------------
\* The tokens of row r that are returned, without the end token appended to them.
Completion(r) ==
  LET cut == Least({Total, job.lens[r] + MaxNew})
      ends == {p \in job.lens[r]..cut - 1 : text[r][p] = Eos}
      stop == IF ends = {} THEN cut ELSE Least(ends)
  IN [i \in 1..stop - job.lens[r] |-> text[r][job.lens[r] + i - 1]]

\* The first pass of the request ends inside the first group.
ShortStart ==
  job.start = 0 /\ (Shortest < Ratio \/ (~job.sampled /\ job.chunk \in 1..Ratio - 1))

(***************************************************************************)
(* A query reads only what was computed from the tokens before it, of its  *)
(* own request: never a slot of a later position, a rejected draft, or     *)
(* what an earlier request left in the buffers, which nothing clears.      *)
(* There are two exceptions, both with an overlapping compressor: the      *)
(* drift that the comment in the reject branch accepts (generation.py:558- *)
(* 561), after a rejection at the last position of a group; and a first    *)
(* pass of less than a group, a short prompt or chunk: then the half of    *)
(* the state before the first group is not of this request, and its entry  *)
(* is pooled from it.  A query reads all of what it should, unless its     *)
(* pass has several positions, does not start at 0, and goes past the      *)
(* window: a restored or cut prefill, or a verify pass of two.             *)
(***************************************************************************)
ReadsAsIntended ==
  /\ seen = "wrong" => job.kind = "overlap" /\ (drifted \/ ShortStart)
  /\ seen = "short" =>
       /\ job.spec = "pair" \/ job.chunk > 0 \/ job.cuts # {} \/ job.start > 0
       /\ cur > Win

(***************************************************************************)
(* Whatever way the prefill is cut, the batch is padded and the drafts are *)
(* guessed, greedy decoding returns the greedy continuation of each row up *)
(* to its end token, max_new_tokens and the context, as long as no query   *)
(* has read too little or drifted.                                         *)
(***************************************************************************)
GreedyIsGreedy ==
  done /\ seen = "exact" /\ ~job.sampled =>
    \A r \in Rows :
      LET limit == Least({Total, job.lens[r] + MaxNew})
          end == IF job.stop[r] \in job.lens[r]..limit - 1 THEN job.stop[r] ELSE limit
      IN Completion(r) = [i \in 1..end - job.lens[r] |-> Plain]

(***************************************************************************)
(* The stream of a row is the completion that the same call returns, with  *)
(* the end token after it if the row met one, whatever was accepted.       *)
(***************************************************************************)
StreamIsCompletion ==
  done /\ Len(job.lens) = 1 =>
    emitted = IF finished = Rows THEN Append(Completion(1), Eos) ELSE Completion(1)
=============================================================================
