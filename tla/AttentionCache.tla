--------------------------- MODULE AttentionCache ---------------------------
(***************************************************************************)
(* What one attention layer keeps of one row of the batch, and what a      *)
(* forward pass writes and reads of it: models/deepseek_v4/runtime.py,     *)
(* Attention.forward, Compressor, Indexer and the two index tables.        *)
(*                                                                         *)
(* The numbers in the buffers are left out.  A cell remembers which token  *)
(* at which position it was computed from, and a compressed entry the      *)
(* cells it was pooled from, by the half ("prev" or "cur") of the pooling  *)
(* window they stood in.  The text of a row is a function from positions   *)
(* to tokens.                                                              *)
(***************************************************************************)
EXTENDS Integers

CONSTANTS
  Win,     \* window_size: slots of the ring
  Ratio,   \* compress_ratio: positions pooled into one entry
  MaxSeq,  \* max_seq_len
  Old      \* a cell of an earlier request

ASSUME CacheAssumption ==
  /\ Win \in Nat \ {0} /\ Ratio \in Nat \ {0} /\ MaxSeq \in Nat \ {0}

\* Layers have a ring only, or a ring and a Compressor with or without overlap.
Kinds == {"window", "plain", "overlap"}
Slots == 0..Win - 1
Places == 0..Ratio - 1
Entries == 0..MaxSeq \div Ratio

\* register_buffer: nothing is cleared between two requests.
Used == [ring |-> [s \in Slots |-> Old],
         prev |-> [i \in Places |-> Old],
         cur  |-> [i \in Places |-> Old],
         comp |-> [g \in Entries |-> {<<"prev", Old>>}]]

Larger(a, b) == IF a < b THEN b ELSE a
Group(text, g, half) ==
  {<<half, <<p, text[p]>>>> : p \in g * Ratio .. g * Ratio + Ratio - 1}

\* What entry g is pooled from when the whole text is there (overlap_transform).
Pooled(kind, text, g) ==
  Group(text, g, "cur")
    \cup IF kind = "overlap" /\ g > 0 THEN Group(text, g - 1, "prev") ELSE {}

(***************************************************************************)
(* A pass from position 0 over n positions: the ring gets the last of      *)
(* them, every full group its entry, and the state the last full group and *)
(* the remainder.                                                          *)
(***************************************************************************)
FirstPass(kind, row, text, n) ==
  LET full == n \div Ratio
      cutoff == full * Ratio
      Latest(s) == CHOOSE p \in Larger(0, n - Win)..n - 1 : p % Win = s
  IN [ring |-> [s \in Slots |->
                 IF s < n THEN <<Latest(s), text[Latest(s)]>> ELSE row.ring[s]],
      prev |-> [i \in Places |->
                 IF kind = "overlap" /\ full > 0
                   THEN <<cutoff - Ratio + i, text[cutoff - Ratio + i]>>
                   ELSE row.prev[i]],
      cur  |-> [i \in Places |->
                 IF cutoff + i < n THEN <<cutoff + i, text[cutoff + i]>> ELSE row.cur[i]],
      comp |-> [g \in Entries |->
                 IF g < full THEN Pooled(kind, text, g) ELSE row.comp[g]]]

(***************************************************************************)
(* One position past the first pass: one slot of the ring, one place of    *)
(* the state, and at the end of a group an entry pooled from the state,    *)
(* whose current half then becomes the previous one.                       *)
(***************************************************************************)
OnePosition(kind, row, p, token) ==
  LET cur == [row.cur EXCEPT ![p % Ratio] = <<p, token>>]
      ends == (p + 1) % Ratio = 0
      halves == {<<"cur", cur[i]>> : i \in Places}
                  \cup IF kind = "overlap" THEN {<<"prev", row.prev[i]>> : i \in Places}
                       ELSE {}
  IN [row EXCEPT
       !.ring[p % Win] = <<p, token>>,
       !.cur = cur,
       !.comp[p \div Ratio] = IF ends THEN halves ELSE @,
       !.prev = IF ends /\ kind = "overlap" THEN cur ELSE @]

\* A later pass goes through the positions from start to end one by one.
LaterPass(kind, row, text, start, end) ==
  LET upTo[p \in start..end] ==
        IF p = start THEN row ELSE OnePosition(kind, upTo[p - 1], p - 1, text[p - 1])
  IN upTo[end]

\* The buffers of a row after forward over text[start..end-1].
AfterPass(kind, row, text, start, end) ==
  IF start = 0 THEN FirstPass(kind, row, text, end)
               ELSE LaterPass(kind, row, text, start, end)

-----------------------------------------------------------------------------
(***************************************************************************)
(* What the query at position p reads in a pass that ends at end, given    *)
(* the buffers after the pass.  The first pass reads its own keys; a later *)
(* one reads the ring, in which all its positions are written already, and *)
(* leaves out the slots of the positions after p.                          *)
(***************************************************************************)
Window(text, p) ==
  {<<q, text[q]>> : q \in Larger(0, p - Win + 1)..p}

\* A mutant of RingRead: the slots of later positions are not left out.
RingReadAll(row, p, end) ==
  {row.ring[s] : s \in IF p >= Win - 1 THEN Slots ELSE 0..p}

RingRead(row, p, end) ==
  {row.ring[s] : s \in (IF p >= Win - 1 THEN Slots ELSE 0..p)
                         \ {q % Win : q \in p + 1..end - 1}}

\* The entries the index tables offer; the indexer chooses among them.
Offered(kind, p) ==
  IF kind = "window" THEN {} ELSE 0..((p + 1) \div Ratio) - 1

CellsRead(row, text, start, p, end) ==
  IF start = 0 THEN Window(text, p) ELSE RingRead(row, p, end)

\* Nothing but what the text says, and nothing later than the query.
ReadsRight(kind, row, text, start, p, end) ==
  /\ CellsRead(row, text, start, p, end) \subseteq Window(text, p)
  /\ \A g \in Offered(kind, p) : row.comp[g] = Pooled(kind, text, g)

\* As much as a pass of one position would read.
ReadsAll(row, text, start, p, end) ==
  Window(text, p) \subseteq CellsRead(row, text, start, p, end)
=============================================================================
