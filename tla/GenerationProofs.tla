-------------------------- MODULE GenerationProofs --------------------------
(***************************************************************************)
(* Proofs about Generation and, under it, AttentionCache, for every        *)
(* window, compression ratio, context, batch, chunk size and number of new *)
(* tokens.  Three invariants are proved, each on top of the one before:    *)
(*   ReadsInv   the buffers hold the text before the next pass,            *)
(*   TextInv    the text is the greedy one, if the queries read it all,    *)
(*   StreamInv  what was yielded is what stands after the prompt,          *)
(* and from them ReadsAsIntended, GreedyIsGreedy and StreamIsCompletion.   *)
(*                                                                         *)
(* The two recursive functions, Passes and LaterPass, are unfolded by      *)
(* finite unfoldings built step by step (PassesSteps, LaterPassSteps), and *)
(* induction on positions is by a least counterexample (Upward).           *)
(***************************************************************************)
EXTENDS Generation, WellFoundedInduction, SequenceTheorems, TLAPS

-----------------------------------------------------------------------------
(* Numbers *)

\* A set of numbers has a least element, and a bounded one a greatest.
LEMMA LeastFacts ==
  ASSUME NEW S, S \subseteq Nat, S # {}
  PROVE  Least(S) \in S /\ \A y \in S : Least(S) <= y
<1>1. PICK n \in S : \A m \in S : ~(<<m, n>> \in OpToRel(<, Nat))
  BY NatLessThanWellFounded, WFMin
<1>2. \A m \in S : <<m, n>> \in OpToRel(<, Nat) <=> m < n
  BY DEF OpToRel
<1>3. \A m \in S : m \in Nat /\ n \in Nat /\ ~(m < n)
  BY <1>1, <1>2
<1>4. \A m \in S : n <= m
  BY <1>3
<1> QED  BY <1>4 DEF Least

LEMMA MostFacts ==
  ASSUME NEW S, NEW b \in Nat, S \subseteq 0..b, S # {}
  PROVE  Most(S) \in S /\ \A y \in S : y <= Most(S)
<1> DEFINE T == {b - y : y \in S}
<1>0. \A y \in S : b - y \in Nat
  OBVIOUS
<1>1. T \subseteq Nat /\ T # {}
  BY <1>0
<1>2. Least(T) \in T /\ \A y \in T : Least(T) <= y
  BY <1>1, LeastFacts
<1>3. PICK x \in S : Least(T) = b - x
  BY <1>2
<1>4. \A y \in S : b - x <= b - y
  BY <1>2, <1>3
<1>5. \A y \in S : y \in Nat /\ x \in Nat
  OBVIOUS
<1>6. \A y \in S : y <= x
  BY <1>4, <1>5
<1> QED  BY <1>6 DEF Most

\* What holds at a, and goes from each number to the next, holds up to b.
LEMMA Upward ==
  ASSUME NEW a \in Nat, NEW b \in Nat, NEW S, a \in S,
         \A p \in a..b - 1 : p \in S => p + 1 \in S
  PROVE  a..b \subseteq S
<1> SUFFICES ASSUME a..b \ S # {} PROVE FALSE
  OBVIOUS
<1> DEFINE T == a..b \ S
           m == Least(T)
<1>1. m \in T /\ \A y \in T : m <= y
  BY LeastFacts
<1> HIDE DEF m
<1>2. m \in a..b /\ m \notin S /\ m # a
  BY <1>1
<1>3. m - 1 \in a..b - 1 /\ m - 1 \notin T
  BY <1>1, <1>2
<1>4. m - 1 \in S
  BY <1>3
<1> QED  BY <1>2, <1>3, <1>4

LEMMA DivMod ==
  ASSUME NEW n \in Nat \ {0}, NEW x \in Nat
  PROVE  /\ x \div n \in Nat /\ x % n \in 0..n - 1
         /\ x = n * (x \div n) + (x % n)
         /\ (x \div n) * n = n * (x \div n)
         /\ (x \div n) * n <= x /\ x < (x \div n) * n + n
<1> DEFINE q == x \div n
<1>1. q \in Int /\ x % n \in 0..n - 1 /\ x = n * q + (x % n)
  OBVIOUS
<1> HIDE DEF q
<1>2. q >= 0
  <2> SUFFICES ASSUME q <= -1 PROVE FALSE
    BY <1>1
  <2>1. n * q <= -n
    BY <1>1
  <2> QED  BY <1>1, <2>1
<1>3. q * n = n * q /\ n * q \in Int
  BY <1>1
<1>4. n * q <= x /\ x < n * q + n
  BY <1>1, <1>3
<1> QED  BY <1>1, <1>2, <1>3, <1>4 DEF q

\* A number is in one group only.
LEMMA GroupIs ==
  ASSUME NEW n \in Nat \ {0}, NEW g \in Nat, NEW x \in g * n..g * n + n - 1
  PROVE  x \in Nat /\ x \div n = g /\ x % n = x - g * n
<1>0. g * n \in Nat /\ g * n = n * g
  OBVIOUS
<1> DEFINE q == x \div n
           r == x % n
           gn == n * g
           qn == n * q
<1>1. x \in Nat
  BY <1>0
<1>2. q \in Nat /\ r \in 0..n - 1 /\ x = qn + r
  BY <1>1, DivMod
<1>3. qn \in Nat /\ gn \in Nat /\ x >= gn /\ x < gn + n
  BY <1>0, <1>2
<1>4. ~(q >= g + 1)
  <2> SUFFICES ASSUME q >= g + 1 PROVE FALSE
    OBVIOUS
  <2>1. n * q >= n * (g + 1)
    BY <1>2
  <2>2. n * (g + 1) = n * g + n
    OBVIOUS
  <2> QED  BY <1>2, <1>3, <2>1, <2>2
<1>5. ~(g >= q + 1)
  <2> SUFFICES ASSUME g >= q + 1 PROVE FALSE
    OBVIOUS
  <2>1. n * g >= n * (q + 1)
    BY <1>2
  <2>2. n * (q + 1) = n * q + n
    BY <1>2
  <2> QED  BY <1>2, <1>3, <2>1, <2>2
<1>6. q = g
  BY <1>2, <1>4, <1>5
<1> QED  BY <1>0, <1>1, <1>2, <1>6

LEMMA SameSlot ==
  ASSUME NEW n \in Nat \ {0}, NEW a \in Nat, NEW b \in Nat, a <= b, b - a < n, a % n = b % n
  PROVE  a = b
<1> DEFINE p == a \div n
           q == b \div n
           r == a % n
<1>1. p \in Nat /\ q \in Nat /\ r \in 0..n - 1 /\ a = n * p + r /\ b = n * q + r
  BY DivMod
<1> HIDE DEF p, q, r
<1>2. n * q - n * p = n * (q - p)
  BY <1>1
<1>3. q - p \in Int /\ n * (q - p) \in 0..n - 1
  BY <1>1, <1>2
<1>4. q - p = 0
  <2>1. CASE q - p >= 1
    <3>1. n * (q - p) >= n
      BY <1>3, <2>1
    <3> QED  BY <1>3, <3>1
  <2>2. CASE q - p <= -1
    <3>1. n * (q - p) <= -n
      BY <1>3, <2>2
    <3> QED  BY <1>3, <3>1
  <2> QED  BY <1>3, <2>1, <2>2
<1> QED  BY <1>1, <1>4

\* The last position of a group, and the others.
LEMMA NextGroup ==
  ASSUME NEW n \in Nat \ {0}, NEW p \in Nat
  PROVE  /\ (p + 1) % n = 0 => (p + 1) \div n = (p \div n) + 1
         /\ (p + 1) % n = 0 => p + 1 = (p \div n) * n + n
         /\ (p + 1) % n # 0 => (p + 1) \div n = p \div n
<1> SUFFICES ASSUME NEW x \in Nat, x = p + 1
             PROVE  /\ x % n = 0 => x \div n = (p \div n) + 1
                    /\ x % n = 0 => x = (p \div n) * n + n
                    /\ x % n # 0 => x \div n = p \div n
  OBVIOUS
<1> PICK g \in Nat : g = p \div n
  BY DivMod
<1> PICK h \in Nat : h = g + 1
  OBVIOUS
<1>1. n * g \in Nat /\ g * n = n * g /\ n * g <= p /\ p < n * g + n
  BY DivMod
<1>2. CASE x < n * g + n
  <2>1. x \in g * n .. g * n + n - 1
    BY <1>1, <1>2
  <2>2. x \div n = g /\ x % n = x - g * n
    BY <2>1, GroupIs
  <2>3. x % n # 0
    BY <2>2, <1>1
  <2> QED  BY <2>2, <2>3
<1>3. CASE x = n * g + n
  <2>1. h * n = n * g + n
    BY <1>1
  <2>2. x \in h * n .. h * n + n - 1
    BY <2>1, <1>1, <1>3
  <2>3. x \div n = h /\ x % n = x - h * n
    BY <2>2, GroupIs
  <2> QED  BY <2>1, <2>3, <1>1, <1>3
<1> QED  BY <1>1, <1>2, <1>3

-----------------------------------------------------------------------------
(* One position *)

Cells == {Old} \cup (Int \X (Token \cup {None}))
Buffers == [ring : [Slots -> Cells],
            prev : [Places -> Cells],
            cur  : [Places -> Cells],
            comp : [Entries -> SUBSET ({"prev", "cur"} \X Cells)]]

\* Before position n is written: the ring has the positions that a query at
\* n reads, and the state and the entries are those of the text before n.
RingUpTo(row, input, n) ==
  \A q \in Nat : n - Win < q /\ q < n => row.ring[q % Win] = <<q, input[q]>>
HalfAt(row, input, n) ==
  \A q \in Nat : (n \div Ratio) * Ratio <= q /\ q < n => row.cur[q % Ratio] = <<q, input[q]>>
OverlapAt(row, input, n) ==
  (n \div Ratio) > 0 =>
    \A i \in Places : row.prev[i] = <<(n \div Ratio) * Ratio - Ratio + i,
                                      input[(n \div Ratio) * Ratio - Ratio + i]>>
EntriesAt(kind, row, input, n) ==
  \A g \in Entries : g < n \div Ratio => row.comp[g] = Pooled(kind, input, g)
StateAt(kind, row, input, n) ==
  /\ HalfAt(row, input, n)
  /\ kind = "overlap" => OverlapAt(row, input, n)
  /\ EntriesAt(kind, row, input, n)

\* After position n - 1: the ring has the last Win positions.
RingFull(row, input, n) ==
  \A q \in Nat : n - Win <= q /\ q < n => row.ring[q % Win] = <<q, input[q]>>

LEMMA Indices ==
  ASSUME NEW p \in 0..MaxSeq - 1
  PROVE  p % Win \in Slots /\ p % Ratio \in Places /\ p \div Ratio \in Entries
<1>1. p \in Nat /\ p < MaxSeq /\ MaxSeq \in Nat /\ Ratio \in Nat \ {0} /\ Win \in Nat \ {0}
  BY CacheAssumption
<1>2. p % Win \in 0..Win - 1 /\ p % Ratio \in 0..Ratio - 1
  BY <1>1, DivMod
<1>3. PICK g \in Nat : g = p \div Ratio
  BY <1>1, DivMod
<1>4. PICK h \in Nat : h = MaxSeq \div Ratio
  BY <1>1, DivMod
<1>5. g * Ratio <= p /\ g * Ratio = Ratio * g
  BY <1>1, <1>3, DivMod
<1>6. MaxSeq < h * Ratio + Ratio /\ h * Ratio = Ratio * h
  BY <1>1, <1>4, DivMod
<1>7. g <= h
  <2> SUFFICES ASSUME g >= h + 1 PROVE FALSE
    OBVIOUS
  <2>1. Ratio * g >= Ratio * (h + 1)
    BY <1>1
  <2>2. Ratio * (h + 1) = Ratio * h + Ratio
    BY <1>1
  <2>3. Ratio * g \in Nat /\ Ratio * h \in Nat
    BY <1>1
  <2> QED  BY <1>1, <1>5, <1>6, <2>1, <2>2, <2>3
<1> QED  BY <1>2, <1>3, <1>4, <1>7 DEF Slots, Places, Entries

\* What OnePosition writes, field by field.
Wrote(kind, row, p, token, new) ==
  /\ \A s \in Slots : new.ring[s] = IF s = p % Win THEN <<p, token>> ELSE row.ring[s]
  /\ \A i \in Places : new.cur[i] = IF i = p % Ratio THEN <<p, token>> ELSE row.cur[i]
  /\ new.prev = IF (p + 1) % Ratio = 0 /\ kind = "overlap" THEN new.cur ELSE row.prev
  /\ \A g \in Entries : g # p \div Ratio \/ (p + 1) % Ratio # 0 =>
       new.comp[g] = row.comp[g]
  /\ (p + 1) % Ratio = 0 =>
       new.comp[p \div Ratio] =
         {<<"cur", new.cur[i]>> : i \in Places}
           \cup IF kind = "overlap" THEN {<<"prev", row.prev[i]>> : i \in Places} ELSE {}

LEMMA OneWrites ==
  ASSUME NEW kind, NEW row \in Buffers, NEW p \in 0..MaxSeq - 1,
         NEW token \in Token \cup {None}
  PROVE  /\ OnePosition(kind, row, p, token) \in Buffers
         /\ Wrote(kind, row, p, token, OnePosition(kind, row, p, token))
<1> SUFFICES ASSUME NEW new, new = OnePosition(kind, row, p, token)
             PROVE  new \in Buffers /\ Wrote(kind, row, p, token, new)
  OBVIOUS
<1> DEFINE cell == <<p, token>>
           half == [row.cur EXCEPT ![p % Ratio] = cell]
           halves == {<<"cur", half[i]>> : i \in Places}
                       \cup IF kind = "overlap" THEN {<<"prev", row.prev[i]>> : i \in Places}
                            ELSE {}
           ends == (p + 1) % Ratio = 0
           ring == [row.ring EXCEPT ![p % Win] = cell]
           comp == [row.comp EXCEPT ![p \div Ratio] = IF ends THEN halves ELSE @]
           before == IF ends /\ kind = "overlap" THEN half ELSE row.prev
<1>1. cell \in Cells
  BY DEF Cells
<1>2. /\ row.ring \in [Slots -> Cells] /\ row.prev \in [Places -> Cells]
      /\ row.cur \in [Places -> Cells]
      /\ row.comp \in [Entries -> SUBSET ({"prev", "cur"} \X Cells)]
      /\ row = [ring |-> row.ring, prev |-> row.prev, cur |-> row.cur, comp |-> row.comp]
  BY DEF Buffers
<1>3. p % Win \in Slots /\ p % Ratio \in Places /\ p \div Ratio \in Entries
  BY Indices
<1>4. new = [ring |-> ring, prev |-> before, cur |-> half, comp |-> comp]
  <2>1. new = [row EXCEPT !.ring[p % Win] = cell, !.cur = half,
                          !.comp[p \div Ratio] = IF ends THEN halves ELSE @,
                          !.prev = IF ends /\ kind = "overlap" THEN half ELSE @]
    BY DEF OnePosition
  <2> HIDE DEF half, ends, halves, cell
  <2> QED  BY <2>1, <1>2 DEF Buffers
<1>5. half \in [Places -> Cells] /\ ring \in [Slots -> Cells] /\ before \in [Places -> Cells]
  BY <1>1, <1>2, <1>3
<1>6. halves \in SUBSET ({"prev", "cur"} \X Cells)
  <2> HIDE DEF half
  <2> QED  BY <1>5, <1>2
<1>7. comp \in [Entries -> SUBSET ({"prev", "cur"} \X Cells)]
  <2> HIDE DEF halves, ends
  <2> QED  BY <1>6, <1>2, <1>3
<1>8. new \in Buffers
  <2> HIDE DEF half, ring, before, comp
  <2> QED  BY <1>4, <1>5, <1>7 DEF Buffers
<1>9. /\ \A s \in Slots : new.ring[s] = IF s = p % Win THEN cell ELSE row.ring[s]
      /\ \A i \in Places : new.cur[i] = IF i = p % Ratio THEN cell ELSE row.cur[i]
  BY <1>4, <1>2
<1>10. new.cur = half /\ new.prev = before /\ new.comp = comp
  BY <1>4
<1>11. /\ \A g \in Entries : g # p \div Ratio \/ ~ends => comp[g] = row.comp[g]
       /\ ends => comp[p \div Ratio] = halves
  <2> HIDE DEF halves, ends
  <2> QED  BY <1>2, <1>3
<1> QED  BY <1>8, <1>9, <1>10, <1>11 DEF Wrote

LEMMA FullIsUpTo ==
  ASSUME NEW row, NEW input, NEW n \in Nat, RingFull(row, input, n)
  PROVE  RingUpTo(row, input, n)
<1>1. Win \in Nat \ {0}
  BY CacheAssumption
<1> QED  BY <1>1 DEF RingFull, RingUpTo

\* Another position less than a window away has another slot, and another
\* position of the group another place.
LEMMA OtherSlot ==
  ASSUME NEW n \in Nat \ {0}, NEW p \in Nat, NEW q \in Nat, q < p, p - q < n
  PROVE  q % n # p % n
<1> SUFFICES ASSUME q % n = p % n PROVE FALSE
  OBVIOUS
<1>1. q <= p
  OBVIOUS
<1>2. q = p
  BY <1>1, SameSlot, Zenon
<1> QED  BY <1>2

LEMMA RingStep ==
  ASSUME NEW kind, NEW row, NEW input, NEW p \in 0..MaxSeq - 1,
         RingUpTo(row, input, p),
         NEW new, Wrote(kind, row, p, input[p], new)
  PROVE  RingFull(new, input, p + 1)
<1>1. Win \in Nat \ {0} /\ p \in Nat
  BY CacheAssumption
<1>2. \A s \in Slots : new.ring[s] = IF s = p % Win THEN <<p, input[p]>> ELSE row.ring[s]
  BY DEF Wrote
<1>3. PICK n \in Nat : n = p + 1
  BY <1>1
<1>4. ASSUME NEW q \in Nat, n - Win <= q, q < n
      PROVE  new.ring[q % Win] = <<q, input[q]>>
  <2>1. q % Win \in Slots
    BY <1>1, DivMod DEF Slots
  <2>2. CASE q = p
    BY <1>2, <2>1, <2>2
  <2>3. CASE q < p
    <3>1. p - q < Win /\ p - Win < q
      BY <1>1, <1>3, <1>4, <2>3
    <3>2. q % Win # p % Win
      BY <1>1, <2>3, <3>1, OtherSlot, Zenon
    <3>3. row.ring[q % Win] = <<q, input[q]>>
      BY <2>3, <3>1 DEF RingUpTo
    <3> QED  BY <1>2, <2>1, <3>2, <3>3
  <2> QED  BY <1>1, <1>3, <1>4, <2>2, <2>3
<1>5. RingFull(new, input, n)
  BY <1>4 DEF RingFull
<1> QED  BY <1>3, <1>5

\* After position p: the state has the positions of its group up to p.
HalfTo(row, input, p) ==
  \A q \in Nat : (p \div Ratio) * Ratio <= q /\ q <= p => row.cur[q % Ratio] = <<q, input[q]>>

LEMMA WholeHalf ==
  ASSUME NEW kind, NEW row, NEW input, NEW p \in 0..MaxSeq - 1,
         HalfAt(row, input, p),
         NEW new, Wrote(kind, row, p, input[p], new)
  PROVE  HalfTo(new, input, p)
<1> SUFFICES ASSUME NEW q \in Nat, (p \div Ratio) * Ratio <= q, q <= p
             PROVE  new.cur[q % Ratio] = <<q, input[q]>>
  BY DEF HalfTo
<1>1. Ratio \in Nat \ {0} /\ p \in Nat
  BY CacheAssumption
<1>2. \A i \in Places : new.cur[i] = IF i = p % Ratio THEN <<p, input[p]>> ELSE row.cur[i]
  BY DEF Wrote
<1>3. (p \div Ratio) * Ratio <= q /\ q <= p
  OBVIOUS
<1>4. q % Ratio \in Places
  BY <1>1, DivMod DEF Places
<1>5. CASE q = p
  BY <1>2, <1>4, <1>5
<1>6. CASE q < p
  <2>1. p < (p \div Ratio) * Ratio + Ratio /\ (p \div Ratio) * Ratio \in Nat
    <3>1. PICK g \in Nat : g = p \div Ratio
      BY <1>1, DivMod
    <3>2. g * Ratio \in Nat
      BY <1>1
    <3> QED  BY <1>1, <3>1, <3>2, DivMod
  <2>2. p - q < Ratio
    BY <1>1, <1>3, <2>1
  <2>3. q % Ratio # p % Ratio
    BY <1>1, <1>6, <2>2, OtherSlot
  <2>4. row.cur[q % Ratio] = <<q, input[q]>>
    BY <1>3, <1>6 DEF HalfAt
  <2> QED  BY <1>2, <1>4, <2>3, <2>4
<1> QED  BY <1>1, <1>3, <1>5, <1>6

\* The places of a group.
LEMMA PlaceOf ==
  ASSUME NEW g \in Nat, NEW i \in Places
  PROVE  /\ g * Ratio + i \in Nat /\ (g * Ratio + i) % Ratio = i
         /\ (g * Ratio + i) \div Ratio = g
<1>1. Ratio \in Nat \ {0} /\ i \in 0..Ratio - 1 /\ g * Ratio \in Nat
  BY CacheAssumption DEF Places
<1>2. PICK x \in Nat : x = g * Ratio + i
  BY <1>1
<1>3. x \in g * Ratio .. g * Ratio + Ratio - 1
  BY <1>1, <1>2
<1>4. x % Ratio = x - g * Ratio /\ x \div Ratio = g
  BY <1>1, <1>3, GroupIs
<1> QED  BY <1>1, <1>2, <1>4

\* The cells of a group, read off the places that hold it.
LEMMA GroupPlaces ==
  ASSUME NEW input, NEW g \in Nat, NEW half, NEW held,
         \A i \in Places : held[i] = <<g * Ratio + i, input[g * Ratio + i]>>
  PROVE  {<<half, held[i]>> : i \in Places} = Group(input, g, half)
<1> DEFINE first == g * Ratio
<1>1. Ratio \in Nat \ {0} /\ first \in Nat
  BY CacheAssumption
<1> HIDE DEF first
<1>2. ASSUME NEW i \in Places
      PROVE  <<half, held[i]>> \in {<<half, <<p, input[p]>>>> : p \in first .. first + Ratio - 1}
  <2>1. held[i] = <<first + i, input[first + i]>>
    BY DEF first
  <2>2. first + i \in first .. first + Ratio - 1
    BY <1>1 DEF Places
  <2> QED  BY <2>1, <2>2
<1>3. ASSUME NEW p \in first .. first + Ratio - 1
      PROVE  <<half, <<p, input[p]>>>> \in {<<half, held[i]>> : i \in Places}
  <2>1. PICK i \in Places : p = first + i
    <3>1. p - first \in Places /\ p = first + (p - first)
      BY <1>1 DEF Places
    <3> QED  BY <3>1
  <2>2. held[i] = <<p, input[p]>>
    BY <2>1 DEF first
  <2> QED  BY <2>2
<1> QED  BY <1>2, <1>3 DEF Group, first

\* One position more of the text.
LEMMA StateStep ==
  ASSUME NEW kind, NEW row, NEW input, NEW p \in 0..MaxSeq - 1,
         StateAt(kind, row, input, p), kind = "overlap" => p >= Ratio,
         NEW new, Wrote(kind, row, p, input[p], new)
  PROVE  StateAt(kind, new, input, p + 1)
<1>1. Ratio \in Nat \ {0} /\ p \in Nat
  BY CacheAssumption
<1>2. PICK g \in Nat : g = p \div Ratio
  BY <1>1, DivMod
<1>3. g * Ratio \in Nat /\ g * Ratio <= p /\ p < g * Ratio + Ratio
  BY <1>1, <1>2, DivMod
<1>4. \A q \in Nat : g * Ratio <= q /\ q <= p => new.cur[q % Ratio] = <<q, input[q]>>
  <2>1. HalfAt(row, input, p)
    BY DEF StateAt
  <2>2. HalfTo(new, input, p)
    BY <2>1, WholeHalf
  <2> QED  BY <1>2, <2>2 DEF HalfTo
<1>5. CASE (p + 1) % Ratio # 0
  <2>1. (p + 1) \div Ratio = g
    BY <1>1, <1>2, <1>5, NextGroup
  <2>2. new.prev = row.prev /\ \A e \in Entries : new.comp[e] = row.comp[e]
    BY <1>5 DEF Wrote
  <2>3. HalfAt(new, input, p + 1)
    <3>1. \A q \in Nat : q < p + 1 => q <= p
      BY <1>1
    <3> QED  BY <2>1, <3>1, <1>4 DEF HalfAt
  <2>4. kind = "overlap" => OverlapAt(new, input, p + 1)
    BY <2>1, <2>2, <1>2 DEF StateAt, OverlapAt
  <2>5. EntriesAt(kind, new, input, p + 1)
    BY <2>1, <2>2, <1>2 DEF StateAt, EntriesAt
  <2> QED  BY <2>3, <2>4, <2>5 DEF StateAt
<1>6. CASE (p + 1) % Ratio = 0
  <2>1. PICK h \in Nat : h = g + 1
    OBVIOUS
  <2>2. (p + 1) \div Ratio = h /\ p + 1 = g * Ratio + Ratio
    BY <1>1, <1>2, <1>6, <2>1, NextGroup
  <2>3. h * Ratio = g * Ratio + Ratio
    BY <1>1, <2>1
  <2>4. \A i \in Places : new.cur[i] = <<g * Ratio + i, input[g * Ratio + i]>>
    <3> SUFFICES ASSUME NEW i \in Places
                 PROVE  new.cur[i] = <<g * Ratio + i, input[g * Ratio + i]>>
      OBVIOUS
    <3>1. PICK x \in Nat : x = g * Ratio + i
      BY PlaceOf
    <3>2. x % Ratio = i
      BY <3>1, PlaceOf
    <3>3. i \in 0..Ratio - 1
      BY DEF Places
    <3>4. g * Ratio <= x /\ x <= p
      BY <3>1, <3>3, <2>2, <1>1, <1>3
    <3> QED  BY <3>1, <3>2, <3>4, <1>4
  <2>5. HalfAt(new, input, p + 1)
    <3>1. \A q \in Nat : ~(h * Ratio <= q /\ q < p + 1)
      BY <2>2, <2>3, <1>3
    <3> QED  BY <2>2, <3>1 DEF HalfAt
  <2>6. kind = "overlap" => OverlapAt(new, input, p + 1)
    <3> SUFFICES ASSUME kind = "overlap" PROVE OverlapAt(new, input, p + 1)
      OBVIOUS
    <3>1. new.prev = new.cur
      BY <1>6 DEF Wrote
    <3>2. h * Ratio - Ratio = g * Ratio
      BY <2>3, <1>1, <1>3
    <3> QED  BY <3>1, <3>2, <2>4, <2>2 DEF OverlapAt
  <2>7. new.comp[g] = Pooled(kind, input, g)
    <3>1. {<<"cur", new.cur[i]>> : i \in Places} = Group(input, g, "cur")
      BY <2>4, GroupPlaces
    <3>2. new.comp[g] =
            {<<"cur", new.cur[i]>> : i \in Places}
              \cup IF kind = "overlap" THEN {<<"prev", row.prev[i]>> : i \in Places} ELSE {}
      BY <1>2, <1>6 DEF Wrote
    <3>3. CASE kind # "overlap"
      BY <3>1, <3>2, <3>3 DEF Pooled
    <3>4. CASE kind = "overlap"
      <4>1. PICK f \in Nat : g = f + 1
        <5>1. g # 0
          BY <1>1, <1>3, <3>4
        <5>2. g - 1 \in Nat /\ g = (g - 1) + 1
          BY <5>1
        <5> QED  BY <5>2
      <4>2. g * Ratio - Ratio = f * Ratio /\ f * Ratio \in Nat
        BY <1>1, <4>1
      <4>3. \A i \in Places : row.prev[i] = <<f * Ratio + i, input[f * Ratio + i]>>
        BY <1>2, <3>4, <4>1, <4>2 DEF StateAt, OverlapAt
      <4>4. {<<"prev", row.prev[i]>> : i \in Places} = Group(input, f, "prev")
        <5>1. PICK held : held = row.prev
          OBVIOUS
        <5>2. \A i \in Places : held[i] = <<f * Ratio + i, input[f * Ratio + i]>>
          BY <4>3, <5>1, Zenon
        <5>3. {<<"prev", held[i]>> : i \in Places} = Group(input, f, "prev")
          BY <5>2, GroupPlaces
        <5> QED  BY <5>1, <5>3
      <4>5. g > 0 /\ g - 1 = f
        BY <4>1
      <4> QED  BY <3>1, <3>2, <3>4, <4>4, <4>5 DEF Pooled
    <3> QED  BY <3>3, <3>4
  <2>8. EntriesAt(kind, new, input, p + 1)
    <3>1. \A e \in Entries : e # g => new.comp[e] = row.comp[e]
      BY <1>2 DEF Wrote
    <3>2. \A e \in Entries : e < g => row.comp[e] = Pooled(kind, input, e)
      BY <1>2 DEF StateAt, EntriesAt
    <3>3. \A e \in Entries : e \in Nat
      <4>1. MaxSeq \div Ratio \in Nat
        BY <1>1, CacheAssumption, DivMod
      <4> QED  BY <4>1 DEF Entries
    <3>4. \A e \in Entries : e < h => e = g \/ e < g
      BY <3>3, <2>1
    <3> QED  BY <3>1, <3>2, <3>4, <2>2, <2>7 DEF EntriesAt
  <2> QED  BY <2>5, <2>6, <2>8 DEF StateAt
<1> QED  BY <1>5, <1>6

\* Writing position p again, before its group ends or without overlap, does no
\* harm to the state before p.
LEMMA StateRedo ==
  ASSUME NEW kind, NEW row, NEW input, NEW p \in 0..MaxSeq - 1, NEW token,
         StateAt(kind, row, input, p), kind = "overlap" => (p + 1) % Ratio # 0,
         NEW new, Wrote(kind, row, p, token, new)
  PROVE  StateAt(kind, new, input, p)
<1>1. Ratio \in Nat \ {0} /\ p \in Nat
  BY CacheAssumption
<1>2. PICK g \in Nat : g = p \div Ratio
  BY <1>1, DivMod
<1>3. g * Ratio \in Nat /\ g * Ratio <= p /\ p < g * Ratio + Ratio
  BY <1>1, <1>2, DivMod
<1>4. HalfAt(new, input, p)
  <2>1. ASSUME NEW q \in Nat, g * Ratio <= q, q < p
        PROVE  new.cur[q % Ratio] = <<q, input[q]>>
    <3>1. q % Ratio \in Places
      BY <1>1, DivMod DEF Places
    <3>2. p - q < Ratio
      BY <1>1, <1>3, <2>1
    <3>3. q % Ratio # p % Ratio
      BY <1>1, <2>1, <3>2, OtherSlot, Zenon
    <3>4. row.cur[q % Ratio] = <<q, input[q]>>
      BY <1>2, <2>1 DEF StateAt, HalfAt
    <3>5. new.cur[q % Ratio] = row.cur[q % Ratio]
      BY <3>1, <3>3 DEF Wrote
    <3> QED  BY <3>4, <3>5
  <2> QED  BY <1>2, <2>1 DEF HalfAt
<1>5. kind = "overlap" => OverlapAt(new, input, p)
  <2>1. kind = "overlap" => new.prev = row.prev
    BY DEF Wrote
  <2> QED  BY <2>1 DEF StateAt, OverlapAt
<1>6. EntriesAt(kind, new, input, p)
  <2>1. \A e \in Entries : e < g => e # g
    BY <1>2
  <2>2. \A e \in Entries : e < g => new.comp[e] = row.comp[e]
    BY <2>1, <1>2 DEF Wrote
  <2> QED  BY <2>2, <1>2 DEF StateAt, EntriesAt
<1> QED  BY <1>4, <1>5, <1>6 DEF StateAt

\* Only the text before n matters.
Agree(input, other, n) == \A q \in Nat : q < n => input[q] = other[q]

LEMMA RingAgrees ==
  ASSUME NEW row, NEW input, NEW other, NEW n \in Nat, Agree(input, other, n),
         RingUpTo(row, input, n)
  PROVE  RingUpTo(row, other, n)
BY DEF RingUpTo, Agree

LEMMA GroupAgrees ==
  ASSUME NEW input, NEW other, NEW n \in Nat, Agree(input, other, n), NEW half,
         NEW g \in Nat, g < n \div Ratio
  PROVE  Group(input, g, half) = Group(other, g, half)
<1>1. Ratio \in Nat \ {0}
  BY CacheAssumption
<1>2. PICK h \in Nat : h = n \div Ratio
  BY <1>1, DivMod
<1>3. h * Ratio \in Nat /\ h * Ratio <= n /\ g * Ratio \in Nat
  BY <1>1, <1>2, DivMod
<1>4. h * Ratio >= g * Ratio + Ratio
  <2>1. Ratio * h >= Ratio * (g + 1)
    BY <1>1, <1>2
  <2>2. Ratio * (g + 1) = g * Ratio + Ratio /\ Ratio * h = h * Ratio
    BY <1>1
  <2> QED  BY <2>1, <2>2
<1>5. \A p \in g * Ratio .. g * Ratio + Ratio - 1 : p \in Nat /\ p < n
  BY <1>1, <1>3, <1>4
<1>6. \A p \in g * Ratio .. g * Ratio + Ratio - 1 : input[p] = other[p]
  BY <1>5 DEF Agree
<1> QED  BY <1>6 DEF Group

LEMMA StateAgrees ==
  ASSUME NEW kind, NEW row, NEW input, NEW other, NEW n \in Nat, Agree(input, other, n),
         StateAt(kind, row, input, n)
  PROVE  StateAt(kind, row, other, n)
<1>1. Ratio \in Nat \ {0}
  BY CacheAssumption
<1>2. PICK h \in Nat : h = n \div Ratio
  BY <1>1, DivMod
<1>3. h * Ratio \in Nat /\ h * Ratio <= n
  BY <1>1, <1>2, DivMod
<1>4. HalfAt(row, other, n)
  BY DEF StateAt, HalfAt, Agree
<1>5. kind = "overlap" => OverlapAt(row, other, n)
  <2> SUFFICES ASSUME kind = "overlap", h > 0, NEW i \in Places
               PROVE  row.prev[i] = <<h * Ratio - Ratio + i, other[h * Ratio - Ratio + i]>>
    BY <1>2 DEF OverlapAt
  <2>1. PICK f \in Nat : h = f + 1
    <3>1. h - 1 \in Nat /\ h = (h - 1) + 1
      BY <1>2
    <3> QED  BY <3>1
  <2>2. h * Ratio - Ratio = f * Ratio /\ f * Ratio \in Nat
    BY <1>1, <2>1
  <2>3. h * Ratio - Ratio + i \in Nat /\ h * Ratio - Ratio + i < n
    BY <2>2, <1>1, <1>3 DEF Places
  <2>4. row.prev[i] = <<h * Ratio - Ratio + i, input[h * Ratio - Ratio + i]>>
    BY <1>2 DEF StateAt, OverlapAt
  <2> QED  BY <2>3, <2>4 DEF Agree
<1>6. EntriesAt(kind, row, other, n)
  <2> SUFFICES ASSUME NEW g \in Entries, g < h
               PROVE  row.comp[g] = Pooled(kind, other, g)
    BY <1>2 DEF EntriesAt
  <2>1. g \in Nat
    <3>1. MaxSeq \div Ratio \in Nat
      BY <1>1, CacheAssumption, DivMod
    <3> QED  BY <3>1 DEF Entries
  <2>2. row.comp[g] = Pooled(kind, input, g)
    BY <1>2 DEF StateAt, EntriesAt
  <2>3. Group(input, g, "cur") = Group(other, g, "cur")
    BY <1>2, <2>1, GroupAgrees
  <2>4. CASE g > 0
    <3>1. g - 1 \in Nat /\ g - 1 < h
      BY <1>2, <2>1, <2>4
    <3>2. Group(input, g - 1, "prev") = Group(other, g - 1, "prev")
      BY <1>2, <3>1, GroupAgrees
    <3> QED  BY <2>2, <2>3, <3>2 DEF Pooled
  <2>5. CASE ~(g > 0)
    BY <2>2, <2>3, <2>5 DEF Pooled
  <2> QED  BY <2>4, <2>5
<1> QED  BY <1>4, <1>5, <1>6 DEF StateAt

-----------------------------------------------------------------------------
(* Passes *)

\* The tokens before n are there.
Typed(input, n) == \A q \in Nat : q < n => input[q] \in Token \cup {None}

\* The last of the positions before n that falls on slot s.
LEMMA LatestOf ==
  ASSUME NEW n \in Nat, NEW s \in Slots, s < n
  PROVE  \E p \in Larger(0, n - Win)..n - 1 : p % Win = s
<1>1. Win \in Nat \ {0} /\ s \in 0..Win - 1
  BY CacheAssumption DEF Slots
<1>2. PICK x \in Nat : x = n - 1 - s
  <2>1. n - 1 - s \in Nat
    BY <1>1
  <2> QED  BY <2>1
<1>3. PICK k \in Nat : k = x \div Win
  BY <1>1, DivMod
<1>4. k * Win \in Nat /\ k * Win <= x /\ x < k * Win + Win
  BY <1>1, <1>3, DivMod
<1>5. PICK p \in Nat : p = k * Win + s
  BY <1>1, <1>4
<1>6. p \in k * Win .. k * Win + Win - 1
  BY <1>1, <1>4, <1>5
<1>7. p % Win = s
  <2>1. p % Win = p - k * Win
    BY <1>1, <1>6, GroupIs
  <2> QED  BY <2>1, <1>1, <1>4, <1>5
<1>8. p <= n - 1 /\ n - Win <= p
  BY <1>1, <1>2, <1>4, <1>5
<1>9. Larger(0, n - Win) <= p /\ Larger(0, n - Win) \in Nat
  BY <1>1, <1>8 DEF Larger
<1>10. p \in Larger(0, n - Win)..n - 1
  BY <1>1, <1>8, <1>9
<1> QED  BY <1>7, <1>10

LEMMA GroupTyped ==
  ASSUME NEW input, NEW n \in Nat, Typed(input, n), NEW half \in {"prev", "cur"},
         NEW g \in Nat, g < n \div Ratio
  PROVE  Group(input, g, half) \in SUBSET ({"prev", "cur"} \X Cells)
<1>1. Ratio \in Nat \ {0}
  BY CacheAssumption
<1>2. PICK h \in Nat : h = n \div Ratio
  BY <1>1, DivMod
<1>3. h * Ratio \in Nat /\ h * Ratio <= n /\ g * Ratio \in Nat
  BY <1>1, <1>2, DivMod
<1>4. h * Ratio >= g * Ratio + Ratio
  <2>1. Ratio * h >= Ratio * (g + 1)
    BY <1>1, <1>2
  <2>2. Ratio * (g + 1) = g * Ratio + Ratio /\ Ratio * h = h * Ratio
    BY <1>1
  <2> QED  BY <2>1, <2>2
<1>5. \A p \in g * Ratio .. g * Ratio + Ratio - 1 : p \in Nat /\ p < n
  BY <1>1, <1>3, <1>4
<1>6. \A p \in g * Ratio .. g * Ratio + Ratio - 1 : <<p, input[p]>> \in Cells
  BY <1>5 DEF Typed, Cells
<1> QED  BY <1>6 DEF Group

LEMMA PooledTyped ==
  ASSUME NEW kind, NEW input, NEW n \in Nat, Typed(input, n),
         NEW g \in Nat, g < n \div Ratio
  PROVE  Pooled(kind, input, g) \in SUBSET ({"prev", "cur"} \X Cells)
<1>1. Group(input, g, "cur") \in SUBSET ({"prev", "cur"} \X Cells)
  BY GroupTyped
<1>2. ASSUME g > 0
      PROVE  Group(input, g - 1, "prev") \in SUBSET ({"prev", "cur"} \X Cells)
  <2>1. Ratio \in Nat \ {0}
    BY CacheAssumption
  <2>2. n \div Ratio \in Nat
    BY <2>1, DivMod
  <2>3. g - 1 \in Nat /\ g - 1 < n \div Ratio
    BY <1>2, <2>2
  <2> QED  BY <2>3, GroupTyped
<1> QED  BY <1>1, <1>2 DEF Pooled

LEMMA FirstPassFacts ==
  ASSUME NEW kind, NEW row \in Buffers, NEW input, NEW n \in 1..MaxSeq, Typed(input, n),
         NEW new, new = FirstPass(kind, row, input, n)
  PROVE  new \in Buffers /\ RingFull(new, input, n) /\ StateAt(kind, new, input, n)
<1> DEFINE Latest(s) == CHOOSE p \in Larger(0, n - Win)..n - 1 : p % Win = s
<1>1. Ratio \in Nat \ {0} /\ Win \in Nat \ {0} /\ n \in Nat /\ MaxSeq \in Nat
  BY CacheAssumption
<1>2. PICK full \in Nat : full = n \div Ratio
  BY <1>1, DivMod
<1>3. PICK cutoff \in Nat : cutoff = full * Ratio
  BY <1>1
<1>4. cutoff <= n /\ n < cutoff + Ratio
  BY <1>1, <1>2, <1>3, DivMod
<1>5. full > 0 => cutoff >= Ratio
  <2> SUFFICES ASSUME full > 0 PROVE cutoff >= Ratio
    OBVIOUS
  <2>1. PICK f \in Nat : full = f + 1
    <3>1. full - 1 \in Nat /\ full = (full - 1) + 1
      OBVIOUS
    <3> QED  BY <3>1
  <2>2. full * Ratio = f * Ratio + Ratio /\ f * Ratio \in Nat
    BY <1>1, <2>1
  <2> QED  BY <1>1, <1>3, <2>2
<1>6. \A s \in Slots : s < n =>
        /\ Latest(s) \in Nat /\ n - Win <= Latest(s) /\ Latest(s) < n
        /\ Latest(s) % Win = s
  <2> SUFFICES ASSUME NEW s \in Slots, s < n
               PROVE  /\ Latest(s) \in Nat /\ n - Win <= Latest(s) /\ Latest(s) < n
                      /\ Latest(s) % Win = s
    OBVIOUS
  <2>1. Latest(s) \in Larger(0, n - Win)..n - 1 /\ Latest(s) % Win = s
    BY <1>1, LatestOf
  <2> HIDE DEF Latest
  <2> QED  BY <1>1, <2>1 DEF Larger
<1>7. /\ new.ring = [s \in Slots |->
                      IF s < n THEN <<Latest(s), input[Latest(s)]>> ELSE row.ring[s]]
      /\ new.prev = [i \in Places |->
                      IF kind = "overlap" /\ full > 0
                        THEN <<cutoff - Ratio + i, input[cutoff - Ratio + i]>>
                        ELSE row.prev[i]]
      /\ new.cur = [i \in Places |->
                     IF cutoff + i < n THEN <<cutoff + i, input[cutoff + i]>> ELSE row.cur[i]]
      /\ new.comp = [g \in Entries |->
                      IF g < full THEN Pooled(kind, input, g) ELSE row.comp[g]]
      /\ new = [ring |-> new.ring, prev |-> new.prev, cur |-> new.cur, comp |-> new.comp]
  BY <1>2, <1>3 DEF FirstPass
<1> HIDE DEF Latest
<1>8. \A p \in Nat : p < n => <<p, input[p]>> \in Cells
  BY DEF Typed, Cells
<1>9. new \in Buffers
  <2>1. new.ring \in [Slots -> Cells]
    BY <1>6, <1>7, <1>8 DEF Buffers
  <2>2. new.prev \in [Places -> Cells]
    <3>1. \A i \in Places : full > 0 => cutoff - Ratio + i \in Nat /\ cutoff - Ratio + i < n
      BY <1>1, <1>4, <1>5 DEF Places
    <3> QED  BY <3>1, <1>7, <1>8 DEF Buffers
  <2>3. new.cur \in [Places -> Cells]
    <3>1. \A i \in Places : cutoff + i \in Nat
      BY DEF Places
    <3> QED  BY <3>1, <1>7, <1>8 DEF Buffers
  <2>4. new.comp \in [Entries -> SUBSET ({"prev", "cur"} \X Cells)]
    <3>1. \A g \in Entries : g \in Nat
      <4>1. MaxSeq \div Ratio \in Nat
        BY <1>1, DivMod
      <4> QED  BY <4>1 DEF Entries
    <3>2. \A g \in Entries : g < full => Pooled(kind, input, g) \in SUBSET ({"prev", "cur"} \X Cells)
      BY <3>1, <1>1, <1>2, PooledTyped
    <3> QED  BY <3>2, <1>7 DEF Buffers
  <2> QED  BY <1>7, <2>1, <2>2, <2>3, <2>4 DEF Buffers
<1>10. RingFull(new, input, n)
  <2> SUFFICES ASSUME NEW q \in Nat, n - Win <= q, q < n
               PROVE  new.ring[q % Win] = <<q, input[q]>>
    BY DEF RingFull
  <2>1. PICK s \in Slots : s = q % Win
    BY <1>1, DivMod DEF Slots
  <2>2. s <= q
    <3>1. Win * (q \div Win) \in Nat /\ q = Win * (q \div Win) + s /\ s \in Nat
      <4>1. PICK k \in Nat : k = q \div Win
        BY <1>1, DivMod
      <4>2. q = Win * k + s
        BY <1>1, <2>1, <4>1, DivMod
      <4>3. Win * k \in Nat /\ s \in Nat
        BY <1>1 DEF Slots
      <4> QED  BY <4>1, <4>2, <4>3
    <3> QED  BY <3>1
  <2>3. s < n
    BY <2>2, <1>1 DEF Slots
  <2>4. PICK p \in Nat : p = Latest(s)
    BY <1>6, <2>3
  <2>5. n - Win <= p /\ p < n /\ p % Win = s
    BY <1>6, <2>3, <2>4
  <2>6. p = q
    <3>1. CASE p <= q
      <4>1. q - p < Win
        BY <1>1, <2>5
      <4> QED  BY <1>1, <2>1, <2>5, <3>1, <4>1, SameSlot, Zenon
    <3>2. CASE q <= p
      <4>1. p - q < Win
        BY <1>1, <2>5
      <4> QED  BY <1>1, <2>1, <2>5, <3>2, <4>1, SameSlot, Zenon
    <3> QED  BY <3>1, <3>2
  <2> QED  BY <1>7, <2>1, <2>3, <2>4, <2>6
<1>11. HalfAt(new, input, n)
  <2> SUFFICES ASSUME NEW q \in Nat, cutoff <= q, q < n
               PROVE  new.cur[q % Ratio] = <<q, input[q]>>
    BY <1>2, <1>3 DEF HalfAt
  <2>1. q \in full * Ratio .. full * Ratio + Ratio - 1
    BY <1>1, <1>3, <1>4
  <2>2. q % Ratio = q - cutoff
    BY <2>1, <1>1, <1>3, GroupIs
  <2>3. PICK i \in Places : i = q % Ratio
    BY <1>1, DivMod DEF Places
  <2>4. cutoff + i = q
    BY <2>2, <2>3
  <2> QED  BY <1>7, <2>3, <2>4
<1>12. kind = "overlap" => OverlapAt(new, input, n)
  BY <1>2, <1>3, <1>7 DEF OverlapAt
<1>13. EntriesAt(kind, new, input, n)
  BY <1>2, <1>7 DEF EntriesAt
<1> QED  BY <1>9, <1>10, <1>11, <1>12, <1>13 DEF StateAt

\* A later pass goes from position to position.
Steps(f, kind, row, input, start, end) ==
  /\ f[start] = row
  /\ \A p \in start..end - 1 : f[p + 1] = OnePosition(kind, f[p], p, input[p])

LEMMA LaterPassSteps ==
  ASSUME NEW kind, NEW row, NEW input, NEW start \in Nat, NEW end \in Nat, start <= end
  PROVE  \E f : /\ Steps(f, kind, row, input, start, end)
                /\ LaterPass(kind, row, input, start, end) = f[end]
<1> DEFINE Upto(f, e) ==
             f = [p \in start..e |->
                   IF p = start THEN row ELSE OnePosition(kind, f[p - 1], p - 1, input[p - 1])]
           S == {e \in Nat : \E f : Upto(f, e)}
<1>1. start \in S
  <2> DEFINE f == [p \in start..start |-> row]
  <2>1. Upto(f, start)
    <3>1. \A p \in start..start : p = start
      OBVIOUS
    <3> QED  BY <3>1
  <2> QED  BY <2>1
<1>2. \A e \in start..end - 1 : e \in S => e + 1 \in S
  <2> SUFFICES ASSUME NEW e \in start..end - 1, NEW f, Upto(f, e)
               PROVE  \E g : Upto(g, e + 1)
    OBVIOUS
  <2> DEFINE g == [p \in start..e + 1 |->
                    IF p = start THEN row
                    ELSE OnePosition(kind, f[p - 1], p - 1, input[p - 1])]
  <2>1. ASSUME NEW p \in start..e
        PROVE  g[p] = f[p]
    <3>1. p \in start..e + 1
      OBVIOUS
    <3>2. f[p] = IF p = start THEN row ELSE OnePosition(kind, f[p - 1], p - 1, input[p - 1])
      BY <2>1 DEF Upto
    <3> QED  BY <3>1, <3>2
  <2>2. ASSUME NEW p \in start..e + 1, p # start
        PROVE  g[p] = OnePosition(kind, g[p - 1], p - 1, input[p - 1])
    <3>1. p - 1 \in start..e
      BY <2>2
    <3>2. g[p - 1] = f[p - 1]
      BY <2>1, <3>1
    <3>3. g[p] = OnePosition(kind, f[p - 1], p - 1, input[p - 1])
      BY <2>2
    <3> HIDE DEF g
    <3> QED  BY <3>2, <3>3
  <2>3. \A p \in start..e + 1 : p = start => g[p] = row
    OBVIOUS
  <2>4. g = [p \in start..e + 1 |-> g[p]]
    OBVIOUS
  <2> HIDE DEF g
  <2>5. Upto(g, e + 1)
    BY <2>2, <2>3, <2>4
  <2> QED  BY <2>5
<1> HIDE DEF S
<1>3. end \in S
  <2>1. start..end \subseteq S
    BY <1>1, <1>2, Upward
  <2> QED  BY <2>1
<1> DEFINE h == CHOOSE f : Upto(f, end)
<1>4. Upto(h, end)
  BY <1>3 DEF S
<1>5. LaterPass(kind, row, input, start, end) = h[end]
  BY DEF LaterPass
<1> HIDE DEF h
<1>6. h[start] = row
  BY <1>4
<1>7. ASSUME NEW p \in start..end - 1
      PROVE  h[p + 1] = OnePosition(kind, h[p], p, input[p])
  <2>1. p + 1 \in start..end /\ p + 1 # start /\ (p + 1) - 1 = p
    OBVIOUS
  <2> QED  BY <1>4, <2>1
<1> QED  BY <1>5, <1>6, <1>7 DEF Steps

\* The overlap of the first group is not of this request: what a later pass
\* makes of it is right only when the first group is over.
Past(kind, n) == kind = "overlap" => n >= Ratio

\* What is kept from position to position, if it was there at the start.
Kept(kind, row, input, start, new, n) ==
  /\ new \in Buffers
  /\ RingUpTo(row, input, start) => RingUpTo(new, input, n)
  /\ StateAt(kind, row, input, start) /\ Past(kind, start) => StateAt(kind, new, input, n)

LEMMA LaterPassFacts ==
  ASSUME NEW kind, NEW row \in Buffers, NEW input, NEW start \in Nat,
         NEW last \in Nat, start <= last, last < MaxSeq, Typed(input, last + 1),
         NEW new, new = LaterPass(kind, row, input, start, last + 1)
  PROVE  \E mid : /\ Kept(kind, row, input, start, mid, last)
                  /\ new = OnePosition(kind, mid, last, input[last])
<1>1. Ratio \in Nat \ {0} /\ Win \in Nat \ {0} /\ MaxSeq \in Nat \ {0}
  BY CacheAssumption
<1>2. PICK end \in Nat : end = last + 1
  OBVIOUS
<1>3. PICK f : /\ Steps(f, kind, row, input, start, end)
               /\ LaterPass(kind, row, input, start, end) = f[end]
  BY <1>2, LaterPassSteps
<1> DEFINE S == {p \in Nat : Kept(kind, row, input, start, f[p], p)}
<1>4. start \in S
  BY <1>3 DEF Kept, Steps
<1>5. \A p \in start..last - 1 : p \in S => p + 1 \in S
  <2> SUFFICES ASSUME NEW p \in start..last - 1, Kept(kind, row, input, start, f[p], p)
               PROVE  Kept(kind, row, input, start, f[p + 1], p + 1)
    OBVIOUS
  <2>1. p \in 0..MaxSeq - 1 /\ p \in Nat /\ start <= p /\ p < end
    BY <1>1, <1>2
  <2>2. PICK new1 : new1 = f[p + 1]
    OBVIOUS
  <2>3. new1 = OnePosition(kind, f[p], p, input[p])
    BY <1>3, <2>1, <2>2 DEF Steps
  <2>4. input[p] \in Token \cup {None}
    BY <1>2, <2>1 DEF Typed
  <2>5. new1 \in Buffers /\ Wrote(kind, f[p], p, input[p], new1)
    BY <2>1, <2>3, <2>4, OneWrites DEF Kept
  <2>6. ASSUME RingUpTo(row, input, start)
        PROVE  RingUpTo(new1, input, p + 1)
    <3>1. RingFull(new1, input, p + 1)
      BY <2>1, <2>5, <2>6, RingStep DEF Kept
    <3>2. p + 1 \in Nat
      BY <2>1
    <3> QED  BY <3>1, <3>2, FullIsUpTo
  <2>7. ASSUME StateAt(kind, row, input, start), Past(kind, start)
        PROVE  StateAt(kind, new1, input, p + 1)
    <3>1. kind = "overlap" => p >= Ratio
      BY <1>1, <2>1, <2>7 DEF Past
    <3>2. StateAt(kind, f[p], input, p)
      BY <2>7 DEF Kept
    <3> QED  BY <2>1, <2>5, <3>1, <3>2, StateStep
  <2> QED  BY <2>2, <2>5, <2>6, <2>7 DEF Kept
<1>6. last \in S
  <2> HIDE DEF S
  <2>1. start..last \subseteq S
    BY <1>4, <1>5, Upward
  <2> QED  BY <2>1
<1>7. new = OnePosition(kind, f[last], last, input[last])
  BY <1>2, <1>3 DEF Steps
<1> QED  BY <1>6, <1>7

\* A pass from start to last, of whichever kind.
LEMMA AfterPassFacts ==
  ASSUME NEW kind, NEW row \in Buffers, NEW input, NEW start \in Nat,
         NEW last \in Nat, start <= last, last < MaxSeq, Typed(input, last + 1),
         NEW new, new = AfterPass(kind, row, input, start, last + 1)
  PROVE  /\ new \in Buffers
         /\ RingUpTo(row, input, start) => RingFull(new, input, last + 1)
         /\ StateAt(kind, row, input, start) /\ (start > 0 => Past(kind, start)) =>
              StateAt(kind, new, input, last + 1)
         /\ /\ StateAt(kind, row, input, start) /\ start > 0 /\ Past(kind, start)
            /\ kind = "overlap" => (last + 1) % Ratio # 0
            => StateAt(kind, new, input, last)
<1>1. /\ Ratio \in Nat \ {0} /\ MaxSeq \in Nat \ {0}
      /\ last + 1 \in 1..MaxSeq /\ last \in 0..MaxSeq - 1
  BY CacheAssumption
<1>2. CASE start = 0
  <2>1. new = FirstPass(kind, row, input, last + 1)
    BY <1>2 DEF AfterPass
  <2>2. /\ new \in Buffers /\ RingFull(new, input, last + 1)
        /\ StateAt(kind, new, input, last + 1)
    BY <1>1, <2>1, FirstPassFacts
  <2>3. ~(start > 0)
    BY <1>2
  <2> QED  BY <2>2, <2>3
<1>3. CASE start # 0
  <2>1. new = LaterPass(kind, row, input, start, last + 1)
    BY <1>3 DEF AfterPass
  <2>2. PICK mid : /\ Kept(kind, row, input, start, mid, last)
                   /\ new = OnePosition(kind, mid, last, input[last])
    BY <2>1, LaterPassFacts
  <2>3. input[last] \in Token \cup {None}
    BY DEF Typed
  <2>4. new \in Buffers /\ Wrote(kind, mid, last, input[last], new)
    BY <1>1, <2>2, <2>3, OneWrites DEF Kept
  <2>5. RingUpTo(row, input, start) => RingFull(new, input, last + 1)
    BY <1>1, <2>2, <2>4, RingStep DEF Kept
  <2>6. ASSUME StateAt(kind, row, input, start), Past(kind, start)
        PROVE  StateAt(kind, new, input, last + 1)
    <3>1. kind = "overlap" => last >= Ratio
      BY <1>1, <2>6 DEF Past
    <3>2. StateAt(kind, mid, input, last)
      BY <2>2, <2>6 DEF Kept
    <3> QED  BY <1>1, <2>4, <3>1, <3>2, StateStep
  <2>7. ASSUME StateAt(kind, row, input, start), Past(kind, start),
               kind = "overlap" => (last + 1) % Ratio # 0
        PROVE  StateAt(kind, new, input, last)
    <3>1. StateAt(kind, mid, input, last)
      BY <2>2, <2>7 DEF Kept
    <3> QED  BY <1>1, <2>4, <2>7, <3>1, StateRedo
  <2>8. start > 0
    BY <1>3
  <2>9. StateAt(kind, row, input, start) /\ (start > 0 => Past(kind, start)) =>
          StateAt(kind, new, input, last + 1)
    BY <2>6, <2>8
  <2>10. /\ StateAt(kind, row, input, start) /\ start > 0 /\ Past(kind, start)
         /\ kind = "overlap" => (last + 1) % Ratio # 0
         => StateAt(kind, new, input, last)
    BY <2>7
  <2> QED  BY <2>4, <2>5, <2>9, <2>10
<1> QED  BY <1>2, <1>3

-----------------------------------------------------------------------------
(* What queries read *)

\* The next position of the same slot.
LEMMA NextOfSlot ==
  ASSUME NEW n \in Nat \ {0}, NEW q \in Nat
  PROVE  (q + n) % n = q % n
<1>1. PICK k \in Nat : k = q \div n
  BY DivMod
<1>2. k * n \in Nat /\ k * n <= q /\ q < k * n + n /\ q % n = q - k * n
  <2>1. k * n \in Nat /\ k * n <= q /\ q < k * n + n
    BY <1>1, DivMod
  <2>2. q \in k * n .. k * n + n - 1
    BY <2>1
  <2> QED  BY <2>1, <2>2, GroupIs
<1>3. PICK j \in Nat : j = k + 1
  OBVIOUS
<1>4. j * n = k * n + n
  BY <1>3
<1>5. PICK x \in Nat : x = q + n
  OBVIOUS
<1>6. x \in j * n .. j * n + n - 1
  BY <1>2, <1>4, <1>5
<1>7. x % n = x - j * n
  BY <1>6, GroupIs
<1> QED  BY <1>2, <1>4, <1>5, <1>7

\* A later query reads nothing but its window.
LEMMA ReadsWindow ==
  ASSUME NEW row, NEW input, NEW p \in Nat, NEW end \in Nat, p < end,
         RingFull(row, input, end)
  PROVE  RingRead(row, p, end) \subseteq Window(input, p)
<1>1. Win \in Nat \ {0}
  BY CacheAssumption
<1> DEFINE read == IF p >= Win - 1 THEN Slots ELSE 0..p
           later == {q % Win : q \in p + 1..end - 1}
<1>2. SUFFICES ASSUME NEW s \in read \ later
               PROVE  row.ring[s] \in Window(input, p)
  BY DEF RingRead
<1>3. s \in Slots /\ s < p + 1
  BY <1>1 DEF Slots
<1>4. PICK q \in Larger(0, (p + 1) - Win)..(p + 1) - 1 : q % Win = s
  <2>1. p + 1 \in Nat
    OBVIOUS
  <2> QED  BY <1>3, <2>1, LatestOf
<1>5. q \in Nat /\ q <= p /\ p + 1 - Win <= q
  BY <1>1, <1>4 DEF Larger
<1>6. end - Win <= q
  <2> SUFFICES ASSUME q + Win < end PROVE FALSE
    BY <1>1, <1>5
  <2>1. q + Win \in p + 1..end - 1
    BY <1>1, <1>5
  <2>2. (q + Win) % Win = s
    BY <1>1, <1>4, <1>5, NextOfSlot
  <2>3. s \in later
    BY <2>1, <2>2
  <2> QED  BY <2>3
<1>7. row.ring[s] = <<q, input[q]>>
  BY <1>4, <1>5, <1>6 DEF RingFull
<1>8. q \in Larger(0, p - Win + 1)..p
  BY <1>1, <1>5 DEF Larger
<1> QED  BY <1>7, <1>8 DEF Window

\* It reads all of it in a pass of one position, or within the first window.
LEMMA ReadsWholeWindow ==
  ASSUME NEW row, NEW input, NEW p \in Nat, NEW end \in Nat, p < end,
         RingFull(row, input, end), end = p + 1 \/ end <= Win
  PROVE  Window(input, p) \subseteq RingRead(row, p, end)
<1>1. Win \in Nat \ {0}
  BY CacheAssumption
<1> DEFINE read == IF p >= Win - 1 THEN Slots ELSE 0..p
           later == {q % Win : q \in p + 1..end - 1}
<1>2. SUFFICES ASSUME NEW q \in Larger(0, p - Win + 1)..p
               PROVE  <<q, input[q]>> \in RingRead(row, p, end)
  BY DEF Window
<1>3. q \in Nat /\ q <= p /\ p - Win + 1 <= q
  BY <1>1 DEF Larger
<1>4. PICK s \in Slots : s = q % Win
  BY <1>1, <1>3, DivMod DEF Slots
<1>5. s <= q
  <2>1. PICK k \in Nat : k = q \div Win
    BY <1>1, <1>3, DivMod
  <2>2. q = Win * k + s
    BY <1>1, <1>3, <1>4, <2>1, DivMod
  <2>3. Win * k \in Nat /\ s \in Nat
    BY <1>1 DEF Slots
  <2> QED  BY <2>2, <2>3
<1>6. s \in read
  BY <1>1, <1>3, <1>5 DEF Slots
<1>7. s \notin later
  <2> SUFFICES ASSUME NEW l \in p + 1..end - 1, l % Win = s PROVE FALSE
    OBVIOUS
  <2>1. l \in Nat /\ q < l /\ l - q < Win
    BY <1>1, <1>3
  <2> QED  BY <1>1, <1>3, <1>4, <2>1, OtherSlot
<1>8. row.ring[s] = <<q, input[q]>>
  <2>1. end - Win <= q /\ q < end
    BY <1>1, <1>3
  <2> QED  BY <1>3, <1>4, <2>1 DEF RingFull
<1> QED  BY <1>6, <1>7, <1>8 DEF RingRead

\* The offered entries are in the buffers, and over.
LEMMA OfferedFacts ==
  ASSUME NEW kind, NEW p \in Nat, NEW end \in Nat, p < end, end <= MaxSeq,
         NEW g \in Offered(kind, p)
  PROVE  g \in Entries /\ g < end \div Ratio
<1>1. Ratio \in Nat \ {0} /\ MaxSeq \in Nat
  BY CacheAssumption
<1>2. PICK x \in Nat : x = p + 1
  OBVIOUS
<1>3. PICK a \in Nat : a = x \div Ratio
  BY <1>1, DivMod
<1>4. PICK b \in Nat : b = end \div Ratio
  BY <1>1, DivMod
<1>5. PICK c \in Nat : c = MaxSeq \div Ratio
  BY <1>1, DivMod
<1>6. /\ Ratio * a \in Nat /\ Ratio * a <= x
      /\ Ratio * b \in Nat /\ Ratio * b <= end /\ end < Ratio * b + Ratio
      /\ Ratio * c \in Nat /\ MaxSeq < Ratio * c + Ratio
  BY <1>1, <1>3, <1>4, <1>5, DivMod
<1>7. a <= b
  <2> SUFFICES ASSUME a >= b + 1 PROVE FALSE
    OBVIOUS
  <2>1. Ratio * a >= Ratio * (b + 1)
    BY <1>1
  <2>2. Ratio * (b + 1) = Ratio * b + Ratio
    BY <1>1
  <2> QED  BY <1>1, <1>2, <1>6, <2>1, <2>2
<1>8. b <= c
  <2> SUFFICES ASSUME b >= c + 1 PROVE FALSE
    OBVIOUS
  <2>1. Ratio * b >= Ratio * (c + 1)
    BY <1>1
  <2>2. Ratio * (c + 1) = Ratio * c + Ratio
    BY <1>1
  <2> QED  BY <1>1, <1>6, <2>1, <2>2
<1>9. g \in 0..a - 1
  BY <1>2, <1>3 DEF Offered
<1> QED  BY <1>4, <1>5, <1>7, <1>8, <1>9 DEF Entries

\* A query of a pass, given the buffers after the pass.
LEMMA QueryFacts ==
  ASSUME NEW kind, NEW row, NEW input, NEW start \in Nat, NEW end \in Nat,
         NEW p \in start..end - 1, end <= MaxSeq, RingFull(row, input, end)
  PROVE  /\ EntriesAt(kind, row, input, end) => ReadsRight(kind, row, input, start, p, end)
         /\ start = 0 \/ end = start + 1 \/ end <= Win => ReadsAll(row, input, start, p, end)
<1>1. p \in Nat /\ p < end
  OBVIOUS
<1>2. CellsRead(row, input, start, p, end) \subseteq Window(input, p)
  BY <1>1, ReadsWindow DEF CellsRead
<1>3. EntriesAt(kind, row, input, end) =>
        \A g \in Offered(kind, p) : row.comp[g] = Pooled(kind, input, g)
  BY <1>1, OfferedFacts DEF EntriesAt
<1>4. start = 0 \/ end = start + 1 \/ end <= Win =>
        Window(input, p) \subseteq CellsRead(row, input, start, p, end)
  <2>1. CASE start = 0
    BY <2>1 DEF CellsRead
  <2>2. CASE start # 0 /\ (end = start + 1 \/ end <= Win)
    <3>1. end = p + 1 \/ end <= Win
      BY <2>2
    <3>2. Window(input, p) \subseteq RingRead(row, p, end)
      BY <1>1, <3>1, ReadsWholeWindow
    <3> QED  BY <2>2, <3>2 DEF CellsRead
  <2> QED  BY <2>1, <2>2
<1> QED  BY <1>2, <1>3, <1>4 DEF ReadsRight, ReadsAll

-----------------------------------------------------------------------------
(* The passes of the loop *)

\* Nothing has spoilt the overlap of this request.
Sound == job.kind = "overlap" => ~drifted /\ ~ShortStart

\* What the buffers hold of the rows before position n.
Holds(rows, input, n) ==
  \A r \in Rows : /\ rows[r] \in Buffers
                  /\ RingUpTo(rows[r], input[r], n)
                  /\ Sound => StateAt(job.kind, rows[r], input[r], n)

TypedRows(input, n) == \A r \in Rows : Typed(input[r], n)

\* With sound buffers a pass may start at n.
MayStart(n) == n > 0 /\ Sound => Past(job.kind, n)

Verdicts == {"exact", "short", "wrong"}

LEMMA JudgeFacts ==
  ASSUME NEW rows, NEW input, NEW start \in Nat, NEW end \in Nat, end <= MaxSeq,
         \A r \in Rows : RingFull(rows[r], input[r], end)
  PROVE  /\ Judge(rows, input, start, end) \in Verdicts
         /\ (\A r \in Rows : EntriesAt(job.kind, rows[r], input[r], end)) =>
              Judge(rows, input, start, end) # "wrong"
         /\ start = 0 \/ end = start + 1 \/ end <= Win =>
              Judge(rows, input, start, end) # "short"
<1> DEFINE queries == {<<r, p>> : r \in Rows, p \in start..end - 1}
           Right(q) == ReadsRight(job.kind, rows[q[1]], input[q[1]], start, q[2], end)
           All(q) == ReadsAll(rows[q[1]], input[q[1]], start, q[2], end)
<1>1. Judge(rows, input, start, end) =
        CASE \E q \in queries : ~Right(q) -> "wrong"
          [] \A q \in queries : Right(q) /\ All(q) -> "exact"
          [] OTHER -> "short"
  BY DEF Judge
<1>2. \A q \in queries : q[1] \in Rows /\ q[2] \in start..end - 1
  OBVIOUS
<1>3. ASSUME \A r \in Rows : EntriesAt(job.kind, rows[r], input[r], end)
      PROVE  \A q \in queries : Right(q)
  BY <1>2, <1>3, QueryFacts
<1>4. ASSUME start = 0 \/ end = start + 1 \/ end <= Win
      PROVE  \A q \in queries : All(q)
  <2> SUFFICES ASSUME NEW q \in queries PROVE All(q)
    OBVIOUS
  <2>1. PICK r \in Rows, p \in start..end - 1 : q = <<r, p>>
    OBVIOUS
  <2>2. RingFull(rows[r], input[r], end)
    OBVIOUS
  <2>3. ReadsAll(rows[r], input[r], start, p, end)
    BY <1>4, <2>2, QueryFacts
  <2> QED  BY <2>1, <2>3
<1> HIDE DEF queries, Right, All
<1> QED  BY <1>1, <1>3, <1>4 DEF Verdicts

LEMMA PassFacts ==
  ASSUME NEW from, NEW input, NEW start \in Nat, NEW last \in Nat, start <= last,
         last < MaxSeq, TypedRows(input, last + 1), from.seen \in Verdicts,
         Holds(from.rows, input, start), MayStart(start),
         NEW pass, pass = Pass(from, input, start, last + 1)
  PROVE  /\ pass = [rows |-> pass.rows, seen |-> pass.seen]
         /\ DOMAIN pass.rows = Rows
         /\ Holds(pass.rows, input, last + 1)
         /\ \A r \in Rows : RingFull(pass.rows[r], input[r], last + 1)
         /\ /\ Sound /\ start > 0
            /\ job.kind = "overlap" => (last + 1) % Ratio # 0
            => \A r \in Rows : StateAt(job.kind, pass.rows[r], input[r], last)
         /\ pass.seen \in Verdicts
         /\ pass.seen = "exact" => from.seen = "exact"
         /\ pass.seen = "wrong" => from.seen = "wrong" \/ ~Sound
         /\ pass.seen = "short" =>
              from.seen = "short" \/ (start > 0 /\ start < last /\ Win < last + 1)
<1> DEFINE rows == [r \in Rows |-> AfterPass(job.kind, from.rows[r], input[r], start, last + 1)]
           judged == Judge(rows, input, start, last + 1)
<1>1. pass = [rows |-> rows, seen |-> Worse(from.seen, judged)]
  BY DEF Pass
<1>2. ASSUME NEW r \in Rows
      PROVE  /\ rows[r] \in Buffers
             /\ RingFull(rows[r], input[r], last + 1)
             /\ Sound => StateAt(job.kind, rows[r], input[r], last + 1)
             /\ /\ Sound /\ start > 0
                /\ job.kind = "overlap" => (last + 1) % Ratio # 0
                => StateAt(job.kind, rows[r], input[r], last)
  <2>1. /\ from.rows[r] \in Buffers /\ RingUpTo(from.rows[r], input[r], start)
        /\ Sound => StateAt(job.kind, from.rows[r], input[r], start)
        /\ Typed(input[r], last + 1)
    BY DEF Holds, TypedRows
  <2>2. PICK new : new = rows[r]
    OBVIOUS
  <2>3. new = AfterPass(job.kind, from.rows[r], input[r], start, last + 1)
    BY <2>2
  <2> HIDE DEF rows
  <2>4. /\ new \in Buffers
        /\ RingFull(new, input[r], last + 1)
        /\ StateAt(job.kind, from.rows[r], input[r], start) /\ (start > 0 => Past(job.kind, start))
             => StateAt(job.kind, new, input[r], last + 1)
        /\ /\ StateAt(job.kind, from.rows[r], input[r], start) /\ start > 0
           /\ Past(job.kind, start)
           /\ job.kind = "overlap" => (last + 1) % Ratio # 0
           => StateAt(job.kind, new, input[r], last)
    BY <2>1, <2>3, AfterPassFacts
  <2> QED  BY <2>1, <2>2, <2>4 DEF MayStart
<1>3. \A r \in Rows : RingUpTo(rows[r], input[r], last + 1)
  <2> HIDE DEF rows
  <2>1. last + 1 \in Nat
    OBVIOUS
  <2> QED  BY <1>2, <2>1, FullIsUpTo
<1>4. DOMAIN rows = Rows
  OBVIOUS
<1> HIDE DEF rows
<1>5. last + 1 \in Nat /\ last + 1 <= MaxSeq
  BY CacheAssumption
<1>6. /\ judged \in Verdicts
      /\ (\A r \in Rows : EntriesAt(job.kind, rows[r], input[r], last + 1)) => judged # "wrong"
      /\ start = 0 \/ last + 1 = start + 1 \/ last + 1 <= Win => judged # "short"
  BY <1>2, <1>5, JudgeFacts
<1>7. Sound => judged # "wrong"
  BY <1>2, <1>6 DEF StateAt
<1>8. judged = "short" => start > 0 /\ start < last /\ Win < last + 1
  <2>1. Win \in Nat
    BY CacheAssumption
  <2> QED  BY <1>6, <2>1
<1> HIDE DEF judged
<1>9. pass.rows = rows /\ pass.seen = Worse(from.seen, judged)
  BY <1>1
<1>10. /\ pass.seen \in Verdicts
       /\ pass.seen = "exact" => from.seen = "exact"
       /\ pass.seen = "wrong" => from.seen = "wrong" \/ ~Sound
       /\ pass.seen = "short" =>
            from.seen = "short" \/ (start > 0 /\ start < last /\ Win < last + 1)
  BY <1>6, <1>7, <1>8, <1>9 DEF Worse, Verdicts
<1> QED  BY <1>1, <1>2, <1>3, <1>4, <1>9, <1>10 DEF Holds

\* Where the passes of a cut pass end, and where the one that ends at e starts.
Stops(start, end, cuts) == {start, end} \cup {p \in cuts : start < p /\ p < end}
Previous(start, end, cuts, e) ==
  Most({start} \cup {p \in {p \in cuts : start < p /\ p < end} : p < e})

LEMMA StopsFacts ==
  ASSUME NEW start \in Nat, NEW end \in Nat, start < end, NEW cuts, cuts \subseteq Nat,
         NEW e \in Stops(start, end, cuts), e # start
  PROVE  /\ Previous(start, end, cuts, e) \in Stops(start, end, cuts)
         /\ Previous(start, end, cuts, e) \in Nat
         /\ start <= Previous(start, end, cuts, e) /\ Previous(start, end, cuts, e) < e
         /\ \A c \in Stops(start, end, cuts) : c <= Previous(start, end, cuts, e) \/ e <= c
<1> DEFINE inside == {p \in cuts : start < p /\ p < end}
           T == {start} \cup {p \in inside : p < e}
           b == Most(T)
<1>1. e \in Nat /\ start < e /\ e <= end
  BY DEF Stops
<1>2. T # {} /\ T \subseteq 0..end
  <2>1. \A p \in inside : p \in 0..end
    OBVIOUS
  <2> HIDE DEF inside
  <2>2. \A x \in T : x = start \/ x \in inside
    OBVIOUS
  <2>3. start \in T /\ start \in 0..end
    OBVIOUS
  <2> HIDE DEF T
  <2> QED  BY <2>1, <2>2, <2>3
<1>3. b \in T /\ \A y \in T : y <= b
  BY <1>2, MostFacts
<1>4. b = Previous(start, end, cuts, e)
  BY DEF Previous
<1> HIDE DEF b
<1>5. b \in Stops(start, end, cuts) /\ b \in Nat /\ start <= b /\ b < e
  BY <1>1, <1>3 DEF Stops
<1>6. ASSUME NEW c \in Stops(start, end, cuts)
      PROVE  c <= b \/ e <= c
  <2>1. c \in Nat
    BY DEF Stops
  <2>2. CASE e <= c
    BY <2>2
  <2>3. CASE c < e
    <3>1. c \in T
      BY <1>1, <2>3 DEF Stops
    <3> QED  BY <1>3, <3>1
  <2> QED  BY <1>1, <2>1, <2>2, <2>3
<1> QED  BY <1>4, <1>5, <1>6

\* A cut pass goes from stop to stop.
Runs(f, from, input, start, end, cuts) ==
  /\ f[start] = from
  /\ \A e \in Stops(start, end, cuts) \ {start} :
       f[e] = Pass(f[Previous(start, end, cuts, e)], input, Previous(start, end, cuts, e), e)

RunsTo(from, input, start, end, cuts, pass) ==
  \E f : Runs(f, from, input, start, end, cuts) /\ pass = f[end]

LEMMA PassesSteps ==
  ASSUME NEW from, NEW input, NEW start \in Nat, NEW end \in Nat, start < end,
         NEW cuts, cuts \subseteq Nat
  PROVE  RunsTo(from, input, start, end, cuts, Passes(from, input, start, end, cuts))
<1> DEFINE D == Stops(start, end, cuts)
           Before(e) == Previous(start, end, cuts, e)
           Upto(f, n) ==
             f = [e \in {e \in D : e <= n} |->
                   IF e = start THEN from ELSE Pass(f[Before(e)], input, Before(e), e)]
           S == {n \in Nat : \E f : Upto(f, n)}
<1>1. \A e \in D : e \in Nat /\ start <= e /\ e <= end
  BY DEF Stops
<1>2. \A e \in D : e # start => Before(e) \in D /\ Before(e) \in Nat /\ Before(e) < e
  BY StopsFacts
<1>3. start \in D /\ end \in D
  BY DEF Stops
<1> HIDE DEF D, Before
<1>4. start \in S
  <2> DEFINE f == [e \in {e \in D : e <= start} |-> from]
  <2>1. \A e \in {e \in D : e <= start} : e = start
    BY <1>1
  <2>2. Upto(f, start)
    BY <2>1
  <2> QED  BY <2>2
<1> HIDE DEF S
<1>5. \A n \in start..end - 1 : n \in S => n + 1 \in S
  <2> SUFFICES ASSUME NEW n \in start..end - 1, n \in S PROVE n + 1 \in S
    OBVIOUS
  <2>0. PICK f : Upto(f, n)
    BY DEF S
  <2> DEFINE g == [e \in {e \in D : e <= n + 1} |->
                    IF e = start THEN from
                    ELSE Pass(f[Before(e)], input, Before(e), e)]
  <2>1. ASSUME NEW e \in D, e <= n
        PROVE  g[e] = f[e]
    <3>1. e \in {d \in D : d <= n} /\ e \in {d \in D : d <= n + 1}
      BY <1>1, <2>1
    <3>2. f[e] = IF e = start THEN from ELSE Pass(f[Before(e)], input, Before(e), e)
      BY <2>0, <3>1 DEF Upto
    <3> QED  BY <3>1, <3>2
  <2>2. ASSUME NEW e \in D, e <= n + 1, e # start
        PROVE  g[e] = Pass(g[Before(e)], input, Before(e), e)
    <3>1. Before(e) \in D /\ Before(e) <= n
      BY <1>1, <1>2, <2>2
    <3>2. g[Before(e)] = f[Before(e)]
      BY <2>1, <3>1
    <3>3. g[e] = Pass(f[Before(e)], input, Before(e), e)
      BY <2>2
    <3> HIDE DEF g
    <3> QED  BY <3>2, <3>3
  <2>3. \A e \in {e \in D : e <= n + 1} : e = start => g[e] = from
    OBVIOUS
  <2>4. g = [e \in {e \in D : e <= n + 1} |-> g[e]]
    OBVIOUS
  <2> HIDE DEF g
  <2>5. Upto(g, n + 1)
    BY <2>2, <2>3, <2>4
  <2>6. n + 1 \in Nat
    OBVIOUS
  <2> QED  BY <2>5, <2>6 DEF S
<1>6. end \in S
  <2>1. start..end \subseteq S
    BY <1>4, <1>5, Upward
  <2> QED  BY <2>1
<1> DEFINE h == CHOOSE f : f = [e \in D |-> IF e = start THEN from
                                           ELSE Pass(f[Before(e)], input, Before(e), e)]
<1>7. {e \in D : e <= end} = D
  BY <1>1
<1>8. h = [e \in D |-> IF e = start THEN from ELSE Pass(h[Before(e)], input, Before(e), e)]
  <2>1. PICK f : Upto(f, end)
    BY <1>6 DEF S
  <2>2. f = [e \in D |-> IF e = start THEN from ELSE Pass(f[Before(e)], input, Before(e), e)]
    BY <1>7, <2>1, Zenon
  <2> QED  BY <2>2
<1>9. Passes(from, input, start, end, cuts) = h[end]
  BY DEF Passes, D, Before, Stops, Previous
<1> HIDE DEF h
<1>10. h[start] = from
  BY <1>3, <1>8
<1>11. \A e \in D \ {start} : h[e] = Pass(h[Before(e)], input, Before(e), e)
  BY <1>8
<1> QED  BY <1>9, <1>10, <1>11 DEF RunsTo, Runs, D, Before

\* A pass of several positions, not the first one, that goes past the window.
LongStop(start, end, cuts) ==
  \E a, b \in Stops(start, end, cuts) :
    /\ a > 0 /\ a + 1 < b /\ Win < b
    /\ \A c \in Stops(start, end, cuts) : c <= a \/ b <= c

\* What a pass that ends before n has made of the buffers and the verdict.
Good(from, input, start, end, cuts, n, pass) ==
  /\ Holds(pass.rows, input, n)
  /\ pass.seen \in Verdicts
  /\ pass.seen = "exact" => from.seen = "exact"
  /\ pass.seen = "wrong" => from.seen = "wrong" \/ ~Sound
  /\ pass.seen = "short" => from.seen = "short" \/ LongStop(start, end, cuts)

\* The same with what only holds after a pass.
Done(from, input, start, end, cuts, n, pass) ==
  /\ Good(from, input, start, end, cuts, n, pass)
  /\ DOMAIN pass.rows = Rows
  /\ \A r \in Rows : RingFull(pass.rows[r], input[r], n)
  /\ /\ Sound /\ start > 0
     /\ job.kind = "overlap" => n % Ratio # 0
     => \A r \in Rows : StateAt(job.kind, pass.rows[r], input[r], n - 1)

LEMMA PassesFacts ==
  ASSUME NEW from, NEW input, NEW start \in Nat, NEW end \in Nat, start < end, end <= MaxSeq,
         NEW cuts, cuts \subseteq Nat,
         TypedRows(input, end), from.seen \in Verdicts, Holds(from.rows, input, start),
         \A n \in Stops(start, end, cuts) : n < end => MayStart(n)
  PROVE  Done(from, input, start, end, cuts, end, Passes(from, input, start, end, cuts))
<1> DEFINE D == Stops(start, end, cuts)
           Before(e) == Previous(start, end, cuts, e)
           G(n, pass) == Good(from, input, start, end, cuts, n, pass)
<1>1. PICK f : /\ Runs(f, from, input, start, end, cuts)
               /\ Passes(from, input, start, end, cuts) = f[end]
  <2>1. RunsTo(from, input, start, end, cuts, Passes(from, input, start, end, cuts))
    BY PassesSteps
  <2> QED  BY <2>1 DEF RunsTo
<1>2. /\ f[start] = from
      /\ \A e \in D \ {start} : f[e] = Pass(f[Before(e)], input, Before(e), e)
  BY <1>1 DEF Runs
<1>3. \A e \in D : e \in Nat /\ start <= e /\ e <= end
  BY DEF Stops
<1>4. \A e \in D : e # start =>
        /\ Before(e) \in D /\ Before(e) \in Nat /\ start <= Before(e) /\ Before(e) < e
        /\ \A c \in D : c <= Before(e) \/ e <= c
  BY StopsFacts
<1>5. start \in D /\ end \in D
  BY DEF Stops
<1>6. G(start, from)
  BY DEF Good
<1>7. ASSUME NEW e \in D, e # start, G(Before(e), f[Before(e)])
      PROVE  Done(from, input, start, end, cuts, e, f[e])
  <2>1. PICK b \in Nat : b = Before(e)
    BY <1>4, <1>7
  <2>2. b \in D /\ start <= b /\ b < e /\ e <= end /\ \A c \in D : c <= b \/ e <= c
    BY <1>3, <1>4, <1>7, <2>1
  <2>3. PICK last \in Nat : last = e - 1
    <3>1. e - 1 \in Nat
      BY <1>3, <2>2
    <3> QED  BY <3>1
  <2>4. last + 1 = e /\ b <= last /\ last < MaxSeq
    BY <1>3, <2>2, <2>3, CacheAssumption
  <2>5. TypedRows(input, last + 1)
    BY <2>2, <2>4 DEF TypedRows, Typed
  <2>6. MayStart(b)
    BY <2>2
  <2>7. PICK pass : pass = f[e]
    OBVIOUS
  <2>8. PICK mid : mid = f[b]
    OBVIOUS
  <2>9. pass = Pass(mid, input, b, last + 1)
    BY <1>2, <1>7, <2>1, <2>4, <2>7, <2>8
  <2>10. G(b, mid)
    BY <1>7, <2>1, <2>8
  <2>11. mid.seen \in Verdicts /\ Holds(mid.rows, input, b)
    BY <2>10 DEF Good
  <2>12. /\ DOMAIN pass.rows = Rows
         /\ Holds(pass.rows, input, last + 1)
         /\ \A r \in Rows : RingFull(pass.rows[r], input[r], last + 1)
         /\ /\ Sound /\ b > 0
            /\ job.kind = "overlap" => (last + 1) % Ratio # 0
            => \A r \in Rows : StateAt(job.kind, pass.rows[r], input[r], last)
         /\ pass.seen \in Verdicts
         /\ pass.seen = "exact" => mid.seen = "exact"
         /\ pass.seen = "wrong" => mid.seen = "wrong" \/ ~Sound
         /\ pass.seen = "short" =>
              mid.seen = "short" \/ (b > 0 /\ b < last /\ Win < last + 1)
    BY <2>4, <2>5, <2>6, <2>9, <2>11, PassFacts
  <2>13. b > 0 /\ b < last /\ Win < last + 1 => LongStop(start, end, cuts)
    <3>1. b < last => b + 1 < e
      BY <2>4
    <3> QED  BY <2>2, <2>4, <3>1 DEF LongStop
  <2>14. G(e, pass)
    BY <2>4, <2>10, <2>12, <2>13 DEF Good
  <2>15. start > 0 => b > 0
    BY <2>2
  <2> HIDE DEF G
  <2> QED  BY <2>3, <2>4, <2>7, <2>12, <2>14, <2>15 DEF Done, G
<1> DEFINE S == {n \in Nat : \A e \in D : e <= n => G(e, f[e])}
<1> HIDE DEF D, Before, G
<1>8. start \in S
  <2>1. \A e \in D : e <= start => e = start
    BY <1>3
  <2> QED  BY <2>1, <1>2, <1>6
<1>9. \A n \in start..end - 1 : n \in S => n + 1 \in S
  <2> SUFFICES ASSUME NEW n \in start..end - 1, \A e \in D : e <= n => G(e, f[e]),
                      NEW e \in D, e <= n + 1
               PROVE  G(e, f[e])
    OBVIOUS
  <2>1. CASE e = start
    BY <1>2, <1>6, <2>1
  <2>2. CASE e # start
    <3>1. Before(e) \in D /\ Before(e) <= n
      BY <1>3, <1>4, <2>2
    <3>2. Done(from, input, start, end, cuts, e, f[e])
      BY <3>1, <1>7, <2>2
    <3> QED  BY <3>2 DEF Done, G
  <2> QED  BY <2>1, <2>2
<1>10. end \in S
  <2> HIDE DEF S
  <2>1. start..end \subseteq S
    BY <1>8, <1>9, Upward
  <2> QED  BY <2>1
<1>11. Before(end) \in D /\ Before(end) <= end /\ end # start
  BY <1>3, <1>4, <1>5
<1>12. G(Before(end), f[Before(end)])
  BY <1>10, <1>11
<1> QED  BY <1>1, <1>5, <1>7, <1>11, <1>12

-----------------------------------------------------------------------------
(* The call *)

JobOK ==
  /\ job.lens \in Lens /\ job.chunk \in Nat
  /\ job.start \in {0, Ratio} /\ job.start < Shortest
  /\ job.cuts \subseteq Nat /\ \A p \in job.cuts : p >= Ratio
  /\ job.start > 0 \/ job.cuts # {} => Len(job.lens) = 1
  /\ job.spec \in {"off", "pair", "two_len1"}
  /\ job.spec # "off" => ~job.sampled /\ \A r \in Rows : job.lens[r] = job.lens[1]
  /\ \A r \in Rows : job.stop[r] \in Nat /\ job.lens[r] <= job.stop[r] /\ job.stop[r] <= Total

LEMMA TotalFacts ==
  ASSUME NEW lens \in Lens
  PROVE  /\ DOMAIN lens = 1..Len(lens) /\ Len(lens) \in Nat /\ 1 \in DOMAIN lens
         /\ \A r \in DOMAIN lens : lens[r] \in 1..MaxSeq /\ lens[r] <= TotalOf(lens)
         /\ TotalOf(lens) \in Nat /\ TotalOf(lens) <= MaxSeq
         /\ Len(lens) = 1 =>
              TotalOf(lens) = IF MaxSeq <= MaxNew + lens[1] THEN MaxSeq ELSE MaxNew + lens[1]
<1>1. lens \in Seq(1..MaxSeq) /\ lens # <<>> /\ MaxNew \in Nat /\ MaxSeq \in Nat
  BY GenerationAssumption, CacheAssumption
<1>2. /\ DOMAIN lens = 1..Len(lens) /\ Len(lens) \in Nat /\ 1 \in DOMAIN lens
      /\ \A r \in DOMAIN lens : lens[r] \in 1..MaxSeq
  BY <1>1
<1> DEFINE L == {lens[r] : r \in DOMAIN lens}
           m == Most(L)
           T == {MaxSeq, MaxNew + m}
<1>3. L # {} /\ L \subseteq 0..MaxSeq
  BY <1>1, <1>2
<1>4. m \in L /\ \A y \in L : y <= m
  BY <1>1, <1>3, MostFacts
<1>5. m \in 1..MaxSeq
  BY <1>2, <1>4
<1> HIDE DEF m
<1>6. T # {} /\ T \subseteq Nat
  BY <1>1, <1>5
<1>7. Least(T) \in T /\ \A y \in T : Least(T) <= y
  BY <1>6, LeastFacts
<1>8. TotalOf(lens) = Least(T)
  BY DEF TotalOf, m
<1>9. PICK total : total = TotalOf(lens)
  OBVIOUS
<1>10. total \in {MaxSeq, MaxNew + m} /\ total <= MaxSeq /\ total <= MaxNew + m
  BY <1>7, <1>8, <1>9
<1>11. \A r \in DOMAIN lens : lens[r] <= m /\ lens[r] \in Nat
  BY <1>2, <1>4
<1>12. Len(lens) = 1 => m = lens[1]
  <2>1. Len(lens) = 1 => L = {lens[1]}
    BY <1>2
  <2> QED  BY <1>4, <2>1
<1>13. total \in Nat /\ \A r \in DOMAIN lens : lens[r] <= total
  BY <1>1, <1>2, <1>5, <1>10, <1>11
<1>14. Len(lens) = 1 => total = IF MaxSeq <= MaxNew + lens[1] THEN MaxSeq ELSE MaxNew + lens[1]
  BY <1>1, <1>5, <1>10, <1>12
<1> QED  BY <1>2, <1>9, <1>10, <1>13, <1>14

LEMMA RowsFacts ==
  ASSUME JobOK
  PROVE  /\ Rows = 1..Len(job.lens) /\ 1 \in Rows /\ Len(job.lens) \in Nat
         /\ \A r \in Rows : /\ job.lens[r] \in 1..MaxSeq /\ Shortest <= job.lens[r]
                            /\ job.lens[r] <= Total
         /\ \E r \in Rows : Shortest = job.lens[r]
         /\ Shortest \in 1..MaxSeq /\ Shortest <= Total
         /\ Total \in Nat /\ Total <= MaxSeq /\ MaxSeq \in Nat
         /\ Span = 0..Total - 1
<1>1. /\ Rows = 1..Len(job.lens) /\ 1 \in Rows /\ Len(job.lens) \in Nat
      /\ \A r \in Rows : job.lens[r] \in 1..MaxSeq /\ job.lens[r] <= Total
      /\ Total \in Nat /\ Total <= MaxSeq
  BY TotalFacts DEF JobOK, Rows, Total
<1> DEFINE L == {job.lens[r] : r \in Rows}
<1>2. L # {} /\ L \subseteq Nat
  <2>1. \A r \in Rows : job.lens[r] \in Nat
    BY <1>1
  <2> QED  BY <1>1, <2>1
<1>3. Least(L) \in L /\ \A y \in L : Least(L) <= y
  BY <1>2, LeastFacts
<1>4. Shortest = Least(L)
  BY DEF Shortest
<1>5. PICK s : s = Shortest
  OBVIOUS
<1>6. s \in L /\ \A r \in Rows : s <= job.lens[r]
  BY <1>3, <1>4, <1>5
<1>7. s \in 1..MaxSeq /\ s <= Total
  BY <1>1, <1>6
<1>8. \E r \in Rows : s = job.lens[r]
  BY <1>6
<1> QED  BY <1>1, <1>5, <1>6, <1>7, <1>8, CacheAssumption DEF Span

TypeOK ==
  /\ JobOK
  /\ text \in [Rows -> [Span -> Token \cup {None}]]
  /\ drafts \in [Rows -> Token] \cup {None}
  /\ seen \in Verdicts

\* Before the prefill the loop is at the end of the shortest prompt; then each
\* pass starts at the position before the one it finds.
Where ==
  /\ cur \in Nat /\ prev \in Nat /\ cur <= Total
  /\ \/ prev = job.start /\ cur = Shortest
     \/ prev = cur - 1 /\ Shortest <= prev

Reads ==
  /\ Holds(layer, text, prev)
  /\ seen = "wrong" => ~Sound
  /\ seen = "short" =>
       /\ job.spec = "pair" \/ job.chunk > 0 \/ job.cuts # {} \/ job.start > 0
       /\ cur > Win

ReadsInv == TypeOK /\ Where /\ Reads

LEMMA WriteFacts ==
  ASSUME TypeOK, NEW rows \in [Rows -> [Span -> Token \cup {None}]], NEW p \in Span,
         NEW t \in [Rows -> Token]
  PROVE  /\ WriteAt(rows, p, t) \in [Rows -> [Span -> Token \cup {None}]]
         /\ \A r \in Rows : \A q \in Span :
              WriteAt(rows, p, t)[r][q] = IF q = p THEN Written(r, p, t) ELSE rows[r][q]
<1>1. \A r \in Rows : Written(r, p, t) \in Token \cup {None}
  BY DEF TypeOK, Written
<1> QED  BY <1>1 DEF WriteAt

\* Texts that differ from n on only.
AgreeRows(input, other, n) == \A r \in Rows : Agree(input[r], other[r], n)

LEMMA HoldsAgrees ==
  ASSUME NEW rows, NEW input, NEW other, NEW n \in Nat, AgreeRows(input, other, n),
         Holds(rows, input, n)
  PROVE  Holds(rows, other, n)
<1> SUFFICES ASSUME NEW r \in Rows
             PROVE  /\ rows[r] \in Buffers
                    /\ RingUpTo(rows[r], other[r], n)
                    /\ Sound => StateAt(job.kind, rows[r], other[r], n)
  BY DEF Holds
<1>1. Agree(input[r], other[r], n)
  BY DEF AgreeRows
<1>2. /\ rows[r] \in Buffers
      /\ RingUpTo(rows[r], input[r], n)
      /\ Sound => StateAt(job.kind, rows[r], input[r], n)
  BY DEF Holds
<1> QED  BY <1>1, <1>2, RingAgrees, StateAgrees

LEMMA TypedFacts ==
  ASSUME TypeOK, NEW rows \in [Rows -> [Span -> Token \cup {None}]], NEW n \in Nat, n <= Total
  PROVE  TypedRows(rows, n)
<1>1. \A q \in Nat : q < n => q \in Span
  BY RowsFacts DEF TypeOK
<1> QED  BY <1>1 DEF TypedRows, Typed

\* Under Sound no pass but the first starts in the first group.
LEMMA StartFacts ==
  ASSUME TypeOK, NEW n \in Nat,
         \/ n = job.start \/ n \in job.cuts \/ Shortest <= n
         \/ /\ job.chunk > 0 /\ ~job.sampled /\ job.start < n
            /\ (n - job.start) % job.chunk = 0
  PROVE  MayStart(n)
<1> SUFFICES ASSUME n > 0, Sound, job.kind = "overlap" PROVE n >= Ratio
  BY DEF MayStart, Past
<1>1. Ratio \in Nat \ {0}
  BY CacheAssumption
<1>2. JobOK /\ Shortest \in Nat /\ job.chunk \in Nat
  <2>1. JobOK
    BY DEF TypeOK
  <2>2. Shortest \in 1..MaxSeq
    BY <2>1, RowsFacts
  <2>3. job.chunk \in Nat
    BY <2>1 DEF JobOK
  <2> QED  BY <2>1, <2>2, <2>3, CacheAssumption
<1>3. ~ShortStart
  BY DEF Sound
<1>4. CASE job.start = Ratio
  BY <1>1, <1>2, <1>4 DEF JobOK
<1>5. CASE job.start = 0
  <2>1. ~(Shortest < Ratio)
    BY <1>3, <1>5 DEF ShortStart
  <2>2. job.chunk > 0 /\ ~job.sampled => job.chunk >= Ratio
    BY <1>1, <1>2, <1>3, <1>5 DEF ShortStart
  <2>3. CASE n = job.start \/ n \in job.cuts \/ Shortest <= n
    BY <1>1, <1>2, <1>5, <2>1, <2>3 DEF JobOK
  <2>4. CASE /\ job.chunk > 0 /\ ~job.sampled /\ job.start < n
             /\ (n - job.start) % job.chunk = 0
    <3>1. PICK c \in Nat \ {0} : c = job.chunk
      BY <1>2, <2>4
    <3>2. n % c = 0
      BY <1>5, <2>4, <3>1
    <3>3. n >= c
      <4> SUFFICES ASSUME n < c PROVE FALSE
        BY <3>1
      <4>1. n \in 0 * c .. 0 * c + c - 1
        BY <3>1
      <4>2. n % c = n - 0 * c
        BY <4>1, <3>1, GroupIs
      <4> QED  BY <3>1, <3>2, <4>2
    <3> QED  BY <1>1, <2>2, <2>4, <3>1, <3>3
  <2> QED  BY <2>3, <2>4
<1> QED  BY <1>2, <1>4, <1>5 DEF JobOK

\* The pass, or the passes, of the prefill.
LEMMA PrefillPass ==
  ASSUME ReadsInv, prev < Shortest, cur < Total
  PROVE  /\ Done(Now, text, prev, cur, PrefillCuts, cur, Passes(Now, text, prev, cur, PrefillCuts))
         /\ prev = job.start /\ cur = Shortest
         /\ LongStop(prev, cur, PrefillCuts) =>
              (job.chunk > 0 \/ job.cuts # {} \/ job.start > 0) /\ cur > Win
<1>1. prev \in Nat /\ cur \in Nat /\ cur <= MaxSeq /\ Win \in Nat
  BY RowsFacts, CacheAssumption DEF ReadsInv, TypeOK, Where
<1>2. prev = job.start /\ cur = Shortest /\ prev < cur
  <2>1. ~(Shortest <= prev)
    BY <1>1, RowsFacts DEF ReadsInv, TypeOK
  <2> QED  BY <2>1 DEF ReadsInv, Where
<1>3. PrefillCuts \subseteq Nat
  BY <1>1 DEF PrefillCuts, ReadsInv, TypeOK, JobOK
<1>4. ASSUME NEW n \in Stops(prev, cur, PrefillCuts), n < cur
      PROVE  MayStart(n)
  <2>1. n \in Nat
    BY <1>1, <1>3 DEF Stops
  <2>2. \/ n = job.start \/ n \in job.cuts
        \/ /\ job.chunk > 0 /\ ~job.sampled /\ job.start < n
           /\ (n - job.start) % job.chunk = 0
    BY <1>1, <1>2, <1>4, <2>1 DEF Stops, PrefillCuts
  <2> QED  BY <2>1, <2>2, StartFacts DEF ReadsInv
<1>5. TypedRows(text, cur)
  BY <1>1, TypedFacts DEF ReadsInv, TypeOK, Where
<1>6. Now.seen \in Verdicts /\ Holds(Now.rows, text, prev)
  BY DEF Now, ReadsInv, TypeOK, Reads
<1>7. Done(Now, text, prev, cur, PrefillCuts, cur, Passes(Now, text, prev, cur, PrefillCuts))
  BY <1>1, <1>2, <1>3, <1>4, <1>5, <1>6, PassesFacts
<1>8. ASSUME LongStop(prev, cur, PrefillCuts)
      PROVE  (job.chunk > 0 \/ job.cuts # {} \/ job.start > 0) /\ cur > Win
  <2>1. PICK a, b \in Stops(prev, cur, PrefillCuts) : a > 0 /\ a + 1 < b /\ Win < b
    BY <1>8 DEF LongStop
  <2>2. a \in Nat /\ b \in Nat /\ b <= cur
    BY <1>1, <1>2, <1>3, <2>1 DEF Stops
  <2>3. a = prev \/ a \in PrefillCuts
    BY <1>1, <2>1, <2>2 DEF Stops
  <2>4. a \in PrefillCuts => job.chunk > 0 \/ job.cuts # {}
    BY DEF PrefillCuts
  <2> QED  BY <1>1, <1>2, <2>1, <2>2, <2>3, <2>4
<1> QED  BY <1>2, <1>7, <1>8

\* The pass of one position.
LEMMA DecodePass ==
  ASSUME ReadsInv, ~(prev < Shortest), cur < Total
  PROVE  /\ Done(Now, text, prev, cur, {}, cur, Pass(Now, text, prev, cur))
         /\ prev = cur - 1
         /\ ~LongStop(prev, cur, {})
<1>1. prev \in Nat /\ cur \in Nat /\ cur <= MaxSeq
  BY RowsFacts DEF ReadsInv, TypeOK, Where
<1>2. prev = cur - 1 /\ Shortest <= prev /\ Shortest \in Nat
  BY <1>1, RowsFacts DEF ReadsInv, TypeOK, JobOK, Where
<1>3. MayStart(prev)
  BY <1>1, <1>2, StartFacts DEF ReadsInv
<1>4. TypedRows(text, cur)
  BY <1>1, TypedFacts DEF ReadsInv, TypeOK, Where
<1>5. Now.seen \in Verdicts /\ Holds(Now.rows, text, prev)
  BY DEF Now, ReadsInv, TypeOK, Reads
<1>6. Stops(prev, cur, {}) = {prev, cur}
  BY DEF Stops
<1>7. ~LongStop(prev, cur, {})
  BY <1>1, <1>2, <1>6 DEF LongStop
<1>8. PICK pass : pass = Pass(Now, text, prev, cur)
  OBVIOUS
<1>9. cur = prev + 1 /\ prev < MaxSeq
  BY <1>1, <1>2, CacheAssumption
<1>10. pass = Pass(Now, text, prev, prev + 1) /\ TypedRows(text, prev + 1)
  BY <1>4, <1>8, <1>9
<1>11. /\ DOMAIN pass.rows = Rows
       /\ Holds(pass.rows, text, prev + 1)
       /\ \A r \in Rows : RingFull(pass.rows[r], text[r], prev + 1)
       /\ /\ Sound /\ prev > 0
          /\ job.kind = "overlap" => (prev + 1) % Ratio # 0
          => \A r \in Rows : StateAt(job.kind, pass.rows[r], text[r], prev)
       /\ pass.seen \in Verdicts
       /\ pass.seen = "exact" => Now.seen = "exact"
       /\ pass.seen = "wrong" => Now.seen = "wrong" \/ ~Sound
       /\ pass.seen = "short" => Now.seen = "short" \/ (prev > 0 /\ prev < prev /\ Win < prev + 1)
  BY <1>1, <1>3, <1>5, <1>9, <1>10, PassFacts
<1> QED  BY <1>1, <1>2, <1>7, <1>8, <1>9, <1>11 DEF Done, Good

\* The pass, or the two passes, over the last token and the draft.
LEMMA DraftedFacts ==
  ASSUME ReadsInv, VerifyNow
  PROVE  /\ Drafted \in [Rows -> [Span -> Token \cup {None}]]
         /\ AgreeRows(text, Drafted, cur)
         /\ \A r \in Rows : Drafted[r][cur] = drafts[r]
         /\ cur \in Nat /\ cur + 1 < Total
<1>1. cur \in Nat /\ cur + 1 < Total /\ Total \in Nat
  BY RowsFacts DEF VerifyNow, ReadsInv, TypeOK, Where
<1>2. cur \in Span /\ \A q \in Nat : q < cur => q \in Span /\ q # cur
  BY <1>1 DEF Span
<1>3. drafts \in [Rows -> Token] /\ text \in [Rows -> [Span -> Token \cup {None}]]
  BY DEF VerifyNow, ReadsInv, TypeOK
<1>4. Drafted \in [Rows -> [Span -> Token \cup {None}]]
  BY <1>2, <1>3 DEF Drafted
<1>5. \A r \in Rows : \A q \in Span : Drafted[r][q] = IF q = cur THEN drafts[r] ELSE text[r][q]
  BY <1>2, <1>3 DEF Drafted
<1> QED  BY <1>1, <1>2, <1>4, <1>5 DEF AgreeRows, Agree

LEMMA VerifyPassFacts ==
  ASSUME ReadsInv, ~(prev < Shortest), VerifyNow
  PROVE  /\ \E cuts : /\ Done(Now, Drafted, prev, cur + 1, cuts, cur + 1, VerifyPass)
                      /\ LongStop(prev, cur + 1, cuts) => job.spec = "pair" /\ cur + 1 > Win
         /\ prev = cur - 1 /\ prev > 0
<1>1. prev \in Nat /\ cur \in Nat /\ cur + 1 <= MaxSeq /\ cur + 1 <= Total /\ prev > 0 /\ Win \in Nat
  BY RowsFacts, DraftedFacts, CacheAssumption DEF ReadsInv, TypeOK, Where, VerifyNow
<1>2. prev = cur - 1 /\ Shortest <= prev /\ Shortest \in Nat
  BY <1>1, RowsFacts DEF ReadsInv, TypeOK, JobOK, Where
<1> DEFINE cuts == IF job.spec = "two_len1" THEN {cur} ELSE {}
<1>3. PICK c : c = cuts
  OBVIOUS
<1>4. PICK end \in Nat : end = cur + 1
  BY <1>1
<1>5. c \subseteq Nat /\ Stops(prev, end, c) \subseteq {prev, cur, end}
  BY <1>1, <1>3 DEF Stops
<1>6. \A n \in Stops(prev, end, c) : n < end => MayStart(n)
  <2>1. \A n \in {prev, cur} : n \in Nat /\ Shortest <= n
    BY <1>1, <1>2
  <2>2. \A n \in {prev, cur} : MayStart(n)
    BY <2>1, StartFacts DEF ReadsInv
  <2>3. ~(end < end)
    OBVIOUS
  <2> QED  BY <1>5, <2>2, <2>3
<1>7. TypedRows(Drafted, end)
  BY <1>1, <1>4, DraftedFacts, TypedFacts DEF ReadsInv
<1>8. Now.seen \in Verdicts /\ Holds(Now.rows, Drafted, prev)
  <2>1. Holds(layer, text, prev) /\ seen \in Verdicts
    BY DEF ReadsInv, TypeOK, Reads
  <2>2. AgreeRows(text, Drafted, prev)
    BY <1>1, <1>2, DraftedFacts DEF AgreeRows, Agree
  <2> QED  BY <1>1, <2>1, <2>2, HoldsAgrees DEF Now
<1>9. Done(Now, Drafted, prev, end, c, end, Passes(Now, Drafted, prev, end, c))
  <2>1. prev < end /\ end <= MaxSeq
    BY <1>1, <1>2, <1>4
  <2>2. c \subseteq Nat
    BY <1>5
  <2> QED  BY <1>1, <1>4, <1>6, <1>7, <1>8, <2>1, <2>2, PassesFacts
<1>10. VerifyPass = Passes(Now, Drafted, prev, end, c)
  BY <1>3, <1>4 DEF VerifyPass
<1>11. ASSUME LongStop(prev, end, c)
       PROVE  job.spec = "pair" /\ end > Win
  <2>1. PICK a, b \in Stops(prev, end, c) :
          /\ a > 0 /\ a + 1 < b /\ Win < b
          /\ \A d \in Stops(prev, end, c) : d <= a \/ b <= d
    BY <1>11 DEF LongStop
  <2>2. a = prev /\ b = end
    BY <1>1, <1>2, <1>4, <1>5, <2>1
  <2>3. job.spec # "two_len1"
    <3> SUFFICES ASSUME job.spec = "two_len1" PROVE FALSE
      OBVIOUS
    <3>1. cur \in Stops(prev, end, c)
      BY <1>1, <1>2, <1>3, <1>4 DEF Stops
    <3> QED  BY <1>1, <1>2, <1>4, <2>1, <2>2, <3>1
  <2>4. job.spec \in {"off", "pair", "two_len1"} /\ job.spec # "off"
    BY DEF ReadsInv, TypeOK, JobOK, VerifyNow
  <2> QED  BY <2>1, <2>2, <2>3, <2>4
<1> QED  BY <1>1, <1>2, <1>4, <1>9, <1>10, <1>11

-----------------------------------------------------------------------------
(* The reads *)

LEMMA SameJob ==
  ASSUME JobOK, job' = job
  PROVE  /\ JobOK' /\ Rows' = Rows /\ Span' = Span /\ Total' = Total
         /\ Shortest' = Shortest /\ ShortStart' = ShortStart
<1>1. Rows' = Rows /\ Total' = Total
  BY DEF Rows, Total
<1>2. Shortest' = Shortest /\ Span' = Span
  BY <1>1 DEF Shortest, Span
<1> QED  BY <1>1, <1>2 DEF JobOK, ShortStart

\* A step whose passes end at n, and which goes on at n, or at the last
\* position before it when that one is written again.
LEMMA PassStep ==
  ASSUME ReadsInv, job' = job, Where', cur <= cur', drifted => drifted',
         NEW input, NEW n \in Nat, n > 0, NEW cuts, NEW pass,
         Done(Now, input, prev, n, cuts, n, pass),
         layer' = pass.rows, seen' = pass.seen,
         LongStop(prev, n, cuts) =>
           /\ job.spec = "pair" \/ job.chunk > 0 \/ job.cuts # {} \/ job.start > 0
           /\ cur' > Win,
         text' \in [Rows -> [Span -> Token \cup {None}]],
         drafts' \in [Rows -> Token] \cup {None},
         AgreeRows(input, text', prev'),
         \/ prev' = n
         \/ prev' = n - 1 /\ prev > 0 /\ (job.kind = "overlap" => drifted' \/ n % Ratio # 0)
  PROVE  ReadsInv'
<1>1. /\ JobOK' /\ Rows' = Rows /\ Span' = Span /\ Total' = Total
      /\ Shortest' = Shortest /\ ShortStart' = ShortStart
  BY SameJob DEF ReadsInv, TypeOK
<1>2. Good(Now, input, prev, n, cuts, n, pass)
  BY DEF Done
<1>3. TypeOK'
  BY <1>1, <1>2 DEF TypeOK, Good
<1>4. Sound' => Sound
  BY <1>1 DEF Sound
<1>5. prev' \in Nat
  BY DEF Where
<1>6. \A r \in Rows : /\ pass.rows[r] \in Buffers
                      /\ RingUpTo(pass.rows[r], text'[r], prev')
                      /\ Sound' => StateAt(job.kind, pass.rows[r], text'[r], prev')
  <2>1. CASE prev' = n
    <3>1. Holds(pass.rows, input, n)
      BY <1>2 DEF Good
    <3>2. PICK other : other = text'
      OBVIOUS
    <3>3. AgreeRows(input, other, n)
      BY <2>1, <3>2
    <3>4. Holds(pass.rows, other, n)
      BY <3>1, <3>3, HoldsAgrees
    <3> QED  BY <1>4, <2>1, <3>2, <3>4 DEF Holds
  <2>2. CASE prev' = n - 1 /\ prev > 0 /\ (job.kind = "overlap" => drifted' \/ n % Ratio # 0)
    <3> SUFFICES ASSUME NEW r \in Rows
                 PROVE  /\ pass.rows[r] \in Buffers
                        /\ RingUpTo(pass.rows[r], text'[r], prev')
                        /\ Sound' => StateAt(job.kind, pass.rows[r], text'[r], prev')
      OBVIOUS
    <3>1. PICK m \in Nat : m = prev'
      BY <1>5
    <3>2. PICK other : other = text'[r]
      OBVIOUS
    <3>3. Agree(input[r], other, m)
      BY <3>1, <3>2 DEF AgreeRows
    <3>4. RingUpTo(pass.rows[r], input[r], m)
      <4>1. RingFull(pass.rows[r], input[r], n)
        BY DEF Done
      <4>2. m = n - 1 /\ Win \in Nat
        BY <2>2, <3>1, CacheAssumption
      <4>3. \A q \in Nat : m - Win < q /\ q < m => n - Win <= q /\ q < n
        BY <4>2
      <4> QED  BY <4>1, <4>3 DEF RingFull, RingUpTo
    <3>5. ASSUME Sound'
          PROVE  StateAt(job.kind, pass.rows[r], input[r], m)
      <4>1. Sound /\ (job.kind = "overlap" => n % Ratio # 0)
        BY <1>4, <2>2, <3>5 DEF Sound
      <4> QED  BY <2>2, <3>1, <4>1 DEF Done
    <3>6. pass.rows[r] \in Buffers
      BY <1>2 DEF Good, Holds
    <3>7. RingUpTo(pass.rows[r], other, m)
      BY <3>3, <3>4, RingAgrees
    <3>8. Sound' => StateAt(job.kind, pass.rows[r], other, m)
      BY <3>3, <3>5, StateAgrees
    <3> QED  BY <3>1, <3>2, <3>6, <3>7, <3>8
  <2> QED  BY <2>1, <2>2
<1>7. Holds(layer, text, prev)'
  BY <1>1, <1>6 DEF Holds
<1>8. seen' = "wrong" => ~Sound'
  BY <1>2, <1>4 DEF Good, Now, ReadsInv, Reads
<1>9. seen' = "short" =>
        /\ job.spec = "pair" \/ job.chunk > 0 \/ job.cuts # {} \/ job.start > 0
        /\ cur' > Win
  <2>1. cur > Win => cur' > Win
    BY CacheAssumption DEF ReadsInv, Where
  <2> QED  BY <1>2, <2>1 DEF Good, Now, ReadsInv, Reads
<1> QED  BY <1>3, <1>7, <1>8, <1>9 DEF ReadsInv, Reads

\* One position is written, or two.
LEMMA OneWritten ==
  ASSUME TypeOK, Where, cur < Total, NEW t \in [Rows -> Token]
  PROVE  /\ WriteAt(text, cur, t) \in [Rows -> [Span -> Token \cup {None}]]
         /\ \A r \in Rows : \A q \in Span :
              WriteAt(text, cur, t)[r][q] = IF q = cur THEN Written(r, cur, t) ELSE text[r][q]
         /\ AgreeRows(text, WriteAt(text, cur, t), cur)
<1>1. cur \in Span /\ \A q \in Nat : q < cur => q \in Span /\ q # cur
  BY RowsFacts DEF TypeOK, Where
<1>2. text \in [Rows -> [Span -> Token \cup {None}]]
  BY DEF TypeOK
<1>3. /\ WriteAt(text, cur, t) \in [Rows -> [Span -> Token \cup {None}]]
      /\ \A r \in Rows : \A q \in Span :
           WriteAt(text, cur, t)[r][q] = IF q = cur THEN Written(r, cur, t) ELSE text[r][q]
  BY <1>1, <1>2, WriteFacts
<1> QED  BY <1>1, <1>3 DEF AgreeRows, Agree

LEMMA TwoWritten ==
  ASSUME TypeOK, Where, cur + 1 < Total, NEW t \in [Rows -> Token], NEW u \in [Rows -> Token]
  PROVE  /\ WriteAt(WriteAt(text, cur, t), cur + 1, u) \in [Rows -> [Span -> Token \cup {None}]]
         /\ \A r \in Rows : \A q \in Span :
              WriteAt(WriteAt(text, cur, t), cur + 1, u)[r][q] =
                IF q = cur + 1 THEN Written(r, cur + 1, u)
                ELSE IF q = cur THEN Written(r, cur, t) ELSE text[r][q]
<1>1. cur \in Nat /\ cur < Total /\ cur + 1 \in Span
  BY RowsFacts DEF TypeOK, Where
<1>2. PICK rows : rows = WriteAt(text, cur, t)
  OBVIOUS
<1>3. /\ rows \in [Rows -> [Span -> Token \cup {None}]]
      /\ \A r \in Rows : \A q \in Span :
           rows[r][q] = IF q = cur THEN Written(r, cur, t) ELSE text[r][q]
  BY <1>1, <1>2, OneWritten
<1>4. /\ WriteAt(rows, cur + 1, u) \in [Rows -> [Span -> Token \cup {None}]]
      /\ \A r \in Rows : \A q \in Span :
           WriteAt(rows, cur + 1, u)[r][q] =
             IF q = cur + 1 THEN Written(r, cur + 1, u) ELSE rows[r][q]
  BY <1>1, <1>3, WriteFacts
<1> QED  BY <1>2, <1>3, <1>4

\* The loop goes on one or two positions further.
LEMMA Onward ==
  ASSUME TypeOK, Where, job' = job, NEW n \in {1, 2}, Advance(n), cur + n <= Total,
         Shortest <= cur
  PROVE  Where' /\ prev' = cur + n - 1 /\ cur <= cur'
<1>1. cur \in Nat /\ Total \in Nat /\ Shortest \in Nat
  BY RowsFacts DEF TypeOK, Where
<1>2. Rows' = Rows /\ Total' = Total /\ Shortest' = Shortest
  BY SameJob DEF TypeOK
<1>3. prev' = cur + n - 1 /\ cur' = cur + n
  BY DEF Advance
<1> QED  BY <1>1, <1>2, <1>3 DEF Where

LEMMA PastPrompt ==
  ASSUME TypeOK, Where
  PROVE  Shortest <= cur
BY RowsFacts DEF TypeOK, Where

LEMMA PrefillReads ==
  ASSUME ReadsInv, Prefill
  PROVE  ReadsInv'
<1>1. PICK pass : pass = Passes(Now, text, prev, cur, PrefillCuts)
  OBVIOUS
<1>2. PICK t \in Choices(text, cur - 1, pass.seen) :
        layer' = pass.rows /\ seen' = pass.seen /\ text' = WriteAt(text, cur, t)
  BY <1>1 DEF Prefill
<1>3. /\ cur < Total /\ prev < Shortest /\ Advance(1) /\ job' = job
      /\ drafts' = drafts /\ drifted' = drifted
  BY DEF Prefill
<1>4. TypeOK /\ Where /\ cur \in Nat /\ Total \in Nat
  BY RowsFacts DEF ReadsInv, TypeOK, Where
<1>5. t \in [Rows -> Token]
  BY DEF Choices
<1>6. Where' /\ prev' = cur + 1 - 1 /\ cur <= cur'
  BY <1>3, <1>4, PastPrompt, Onward
<1>7. prev' = cur /\ cur > 0
  BY <1>3, <1>4, <1>6 DEF Where
<1>8. /\ text' \in [Rows -> [Span -> Token \cup {None}]]
      /\ AgreeRows(text, text', cur)
  BY <1>2, <1>3, <1>4, <1>5, OneWritten
<1>9. /\ Done(Now, text, prev, cur, PrefillCuts, cur, pass)
      /\ LongStop(prev, cur, PrefillCuts) =>
           (job.chunk > 0 \/ job.cuts # {} \/ job.start > 0) /\ cur > Win
  BY <1>1, <1>3, PrefillPass
<1>10. cur > Win => cur' > Win
  BY <1>4, <1>6, CacheAssumption DEF Where
<1>11. drafts' \in [Rows -> Token] \cup {None}
  BY <1>3, <1>4 DEF TypeOK
<1> QED  BY <1>2, <1>3, <1>4, <1>6, <1>7, <1>8, <1>9, <1>10, <1>11, PassStep

LEMMA DraftsAreTokens ==
  ASSUME TypeOK, Draft
  PROVE  drafts' \in [Rows -> Token] \cup {None}
BY DEF TypeOK, Draft

LEMMA DecodeReads ==
  ASSUME ReadsInv, Decode
  PROVE  ReadsInv'
<1>1. PICK pass : pass = Pass(Now, text, prev, cur)
  OBVIOUS
<1>2. PICK t \in Choices(text, cur - 1, pass.seen) :
        layer' = pass.rows /\ seen' = pass.seen /\ text' = WriteAt(text, cur, t)
  BY <1>1 DEF Decode
<1>3. /\ cur < Total /\ prev >= Shortest /\ Advance(1) /\ job' = job
      /\ drifted' = drifted /\ Draft
  BY DEF Decode
<1>4. TypeOK /\ Where /\ cur \in Nat /\ prev \in Nat /\ Total \in Nat /\ Shortest \in Nat
  BY RowsFacts DEF ReadsInv, TypeOK, Where
<1>5. t \in [Rows -> Token]
  BY DEF Choices
<1>6. Where' /\ prev' = cur + 1 - 1 /\ cur <= cur'
  BY <1>3, <1>4, PastPrompt, Onward
<1>7. /\ text' \in [Rows -> [Span -> Token \cup {None}]]
      /\ AgreeRows(text, text', cur)
  BY <1>2, <1>3, <1>4, <1>5, OneWritten
<1>8. ~(prev < Shortest)
  BY <1>3, <1>4
<1>9. /\ Done(Now, text, prev, cur, {}, cur, pass)
      /\ prev = cur - 1
      /\ ~LongStop(prev, cur, {})
  BY <1>1, <1>3, <1>8, DecodePass
<1>10. prev' = cur /\ cur > 0
  BY <1>4, <1>6, <1>9
<1>11. drafts' \in [Rows -> Token] \cup {None}
  BY <1>3, <1>4, DraftsAreTokens
<1> QED  BY <1>2, <1>3, <1>4, <1>6, <1>7, <1>9, <1>10, <1>11, PassStep

\* An accepted draft is the token that is written at its place.
LEMMA AcceptReads ==
  ASSUME ReadsInv, Accept
  PROVE  ReadsInv'
<1>1. PICK pass : pass = VerifyPass
  OBVIOUS
<1>2. PICK t \in Choices(text, cur - 1, pass.seen), u \in Choices(Drafted, cur, pass.seen) :
        /\ Accepts(t) /\ layer' = pass.rows /\ seen' = pass.seen
        /\ text' = WriteAt(WriteAt(text, cur, t), cur + 1, u)
  BY <1>1 DEF Accept
<1>3. /\ prev >= Shortest /\ VerifyNow /\ Advance(2) /\ job' = job
      /\ drifted' = drifted /\ Draft
  BY DEF Accept
<1>4. /\ TypeOK /\ Where /\ cur \in Nat /\ prev \in Nat /\ Total \in Nat /\ Shortest \in Nat
      /\ cur + 1 < Total
  BY <1>3, RowsFacts, DraftedFacts DEF ReadsInv, TypeOK, Where
<1>5. t \in [Rows -> Token] /\ u \in [Rows -> Token]
  BY DEF Choices
<1>6. Where' /\ prev' = cur + 2 - 1 /\ cur <= cur'
  BY <1>3, <1>4, PastPrompt, Onward
<1>7. cur' = cur + 2
  BY <1>3 DEF Advance
<1>8. PICK n \in Nat : n = cur + 1
  BY <1>4
<1>9. ~(prev < Shortest)
  BY <1>3, <1>4
<1>10. PICK cuts : /\ Done(Now, Drafted, prev, n, cuts, n, pass)
                   /\ LongStop(prev, n, cuts) => job.spec = "pair" /\ n > Win
  BY <1>1, <1>3, <1>8, <1>9, VerifyPassFacts
<1>11. /\ text' \in [Rows -> [Span -> Token \cup {None}]]
       /\ \A r \in Rows : \A q \in Span :
            text'[r][q] = IF q = n THEN Written(r, n, u)
                          ELSE IF q = cur THEN Written(r, cur, t) ELSE text[r][q]
  BY <1>2, <1>4, <1>5, <1>8, TwoWritten
<1>12. AgreeRows(Drafted, text', n)
  <2>1. PICK other : other = text'
    OBVIOUS
  <2>2. \A r \in Rows : \A q \in Span : q < n =>
          other[r][q] = IF q = cur THEN drafts[r] ELSE text[r][q]
    BY <1>2, <1>4, <1>8, <1>11, <2>1 DEF Accepts
  <2>3. \A q \in Nat : q < n => q \in Span /\ (q = cur \/ q < cur)
    BY <1>4, <1>8 DEF Span
  <2>4. AgreeRows(text, Drafted, cur) /\ \A r \in Rows : Drafted[r][cur] = drafts[r]
    BY <1>3, DraftedFacts
  <2>5. \A r \in Rows : \A q \in Nat : q < n => Drafted[r][q] = other[r][q]
    BY <2>2, <2>3, <2>4 DEF AgreeRows, Agree
  <2> QED  BY <2>1, <2>5 DEF AgreeRows, Agree
<1>13. prev' = n /\ n > 0
  BY <1>4, <1>6, <1>8
<1>14. n > Win => cur' > Win
  BY <1>4, <1>7, <1>8, CacheAssumption
<1>15. drafts' \in [Rows -> Token] \cup {None}
  BY <1>3, <1>4, DraftsAreTokens
<1> QED  BY <1>2, <1>3, <1>6, <1>10, <1>11, <1>12, <1>13, <1>14, <1>15, PassStep

\* After a rejection the pass starts again at the position of the draft.
LEMMA RejectReads ==
  ASSUME ReadsInv, Reject
  PROVE  ReadsInv'
<1>1. PICK pass : pass = VerifyPass
  OBVIOUS
<1>2. PICK t \in Choices(text, cur - 1, pass.seen) :
        layer' = pass.rows /\ seen' = pass.seen /\ text' = WriteAt(text, cur, t)
  BY <1>1 DEF Reject
<1>3. /\ cur < Total /\ prev >= Shortest /\ VerifyNow /\ Advance(1) /\ job' = job
      /\ drifted' = (drifted \/ (cur + 1) % Ratio = 0) /\ Draft
  BY DEF Reject
<1>4. /\ TypeOK /\ Where /\ cur \in Nat /\ prev \in Nat /\ Total \in Nat /\ Shortest \in Nat
  BY RowsFacts DEF ReadsInv, TypeOK, Where
<1>5. t \in [Rows -> Token]
  BY DEF Choices
<1>6. Where' /\ prev' = cur + 1 - 1 /\ cur <= cur'
  BY <1>3, <1>4, PastPrompt, Onward
<1>7. cur' = cur + 1
  BY <1>3 DEF Advance
<1>8. PICK n \in Nat : n = cur + 1
  BY <1>4
<1>9. ~(prev < Shortest)
  BY <1>3, <1>4
<1>10. PICK cuts : /\ Done(Now, Drafted, prev, n, cuts, n, pass)
                   /\ LongStop(prev, n, cuts) => job.spec = "pair" /\ n > Win
  BY <1>1, <1>3, <1>8, <1>9, VerifyPassFacts
<1>11. prev > 0
  BY <1>3, <1>9, VerifyPassFacts
<1>12. /\ text' \in [Rows -> [Span -> Token \cup {None}]]
       /\ AgreeRows(text, text', cur)
  BY <1>2, <1>3, <1>4, <1>5, OneWritten
<1>13. AgreeRows(Drafted, text', cur)
  BY <1>3, <1>12, DraftedFacts DEF AgreeRows, Agree
<1>14. prev' = n - 1 /\ n > 0 /\ prev' = cur
  BY <1>4, <1>6, <1>8
<1>15. job.kind = "overlap" => drifted' \/ n % Ratio # 0
  BY <1>3, <1>8
<1>16. n > Win => cur' > Win
  BY <1>7, <1>8
<1>17. drafts' \in [Rows -> Token] \cup {None}
  BY <1>3, <1>4, DraftsAreTokens
<1> QED  BY <1>2, <1>3, <1>6, <1>10, <1>11, <1>12, <1>13, <1>14, <1>15, <1>16, <1>17, PassStep

\* Nothing is known of the buffers at the start, or they are those of a
\* restored prefix.
LEMMA UsedFacts == Used \in Buffers
<1>1. Used.ring \in [Slots -> Cells] /\ Used.prev \in [Places -> Cells]
      /\ Used.cur \in [Places -> Cells]
  BY DEF Used, Cells
<1>2. Used.comp \in [Entries -> SUBSET ({"prev", "cur"} \X Cells)]
  <2>1. {<<"prev", Old>>} \in SUBSET ({"prev", "cur"} \X Cells)
    BY DEF Cells
  <2> QED  BY <2>1 DEF Used
<1> QED  BY <1>1, <1>2 DEF Used, Buffers

LEMMA InitFacts ==
  ASSUME Init
  PROVE  /\ TypeOK /\ Where
         /\ text = [r \in Rows |-> [p \in Span |-> IF p < job.lens[r] THEN Plain ELSE None]]
         /\ layer = [r \in Rows |-> IF job.start = 0 THEN Used
                                    ELSE FirstPass(job.kind, Used, text[r], job.start)]
         /\ prev = job.start /\ cur = Shortest /\ finished = {} /\ emitted = <<>>
         /\ seen = "exact" /\ ~done
<1>1. PICK lens \in Lens, sampled \in BOOLEAN, chunk \in Chunks,
           spec \in {"off", "pair", "two_len1"}, kind \in Kinds, start \in {0, Ratio} :
        \E stop \in [DOMAIN lens -> 1..TotalOf(lens)],
           cuts \in SUBSET {p \in 1..lens[1] : p % Ratio = 0} :
          Called(lens, sampled, chunk, spec, kind, start, stop, cuts)
  BY Zenon DEF Init
<1>2. PICK stop \in [DOMAIN lens -> 1..TotalOf(lens)],
            cuts \in SUBSET {p \in 1..lens[1] : p % Ratio = 0} :
         Called(lens, sampled, chunk, spec, kind, start, stop, cuts)
  BY <1>1
<1>3. /\ spec # "off" => ~sampled /\ \A r \in DOMAIN lens : lens[r] = lens[1]
      /\ start > 0 \/ cuts # {} => Len(lens) = 1
      /\ start < lens[1]
      /\ \A r \in DOMAIN lens : stop[r] >= lens[r]
  BY <1>2, Zenon DEF Called
<1>4. job = [lens |-> lens, sampled |-> sampled, chunk |-> chunk, spec |-> spec,
             kind |-> kind, start |-> start, cuts |-> cuts, stop |-> stop]
  BY <1>2, Zenon DEF Called
<1>5. /\ prev = start
      /\ text = [r \in DOMAIN lens |->
                  [p \in 0..TotalOf(lens) - 1 |-> IF p < lens[r] THEN Plain ELSE None]]
      /\ layer = [r \in DOMAIN lens |->
                   IF start = 0 THEN Used ELSE FirstPass(kind, Used, text[r], start)]
      /\ cur = Least({lens[r] : r \in DOMAIN lens})
  BY <1>2, Zenon DEF Called
<1>6. /\ job.lens = lens /\ job.sampled = sampled /\ job.chunk = chunk /\ job.spec = spec
      /\ job.kind = kind /\ job.start = start /\ job.cuts = cuts /\ job.stop = stop
  BY <1>4
<1>7. /\ DOMAIN lens = 1..Len(lens) /\ Len(lens) \in Nat /\ 1 \in DOMAIN lens
      /\ \A r \in DOMAIN lens : lens[r] \in 1..MaxSeq /\ lens[r] <= TotalOf(lens)
      /\ TotalOf(lens) \in Nat /\ TotalOf(lens) <= MaxSeq
  BY TotalFacts
<1>8. Rows = DOMAIN lens /\ Total = TotalOf(lens) /\ Span = 0..TotalOf(lens) - 1
  BY <1>6 DEF Rows, Total, Span
<1>9. Ratio \in Nat \ {0} /\ MaxSeq \in Nat \ {0} /\ chunk \in Nat
  BY CacheAssumption, GenerationAssumption
<1>10. Shortest = Least({lens[r] : r \in DOMAIN lens})
  BY <1>6, <1>8 DEF Shortest
<1> DEFINE L == {lens[r] : r \in DOMAIN lens}
<1>11. L # {} /\ L \subseteq Nat
  <2>1. \A r \in DOMAIN lens : lens[r] \in Nat
    BY <1>7
  <2> QED  BY <1>7, <2>1
<1>12. Least(L) \in L /\ \A y \in L : Least(L) <= y
  BY <1>11, LeastFacts
<1>13. PICK s : s = Shortest
  OBVIOUS
<1>14. s \in L /\ s \in 1..MaxSeq /\ s <= TotalOf(lens)
  BY <1>7, <1>10, <1>12, <1>13
<1>15. Len(lens) = 1 => s = lens[1]
  <2>1. Len(lens) = 1 => L = {lens[1]}
    BY <1>7
  <2> QED  BY <1>14, <2>1
<1>16. start < s
  BY <1>3, <1>9, <1>14, <1>15
<1>17. \A p \in cuts : p \in Nat /\ p >= Ratio
  <2> SUFFICES ASSUME NEW p \in cuts, p < Ratio PROVE FALSE
    BY <1>7, <1>9
  <2>1. p \in Nat /\ p > 0 /\ p % Ratio = 0
    BY <1>7
  <2>2. p \in 0 * Ratio .. 0 * Ratio + Ratio - 1
    BY <1>9, <2>1
  <2>3. p % Ratio = p - 0 * Ratio
    BY <1>9, <2>2, GroupIs
  <2> QED  BY <1>9, <2>1, <2>3
<1>18. JobOK
  <2>1. \A r \in Rows : stop[r] \in Nat /\ lens[r] <= stop[r] /\ stop[r] <= Total
    BY <1>3, <1>7, <1>8
  <2>2. job.start \in {0, Ratio} /\ job.start < Shortest
    BY <1>6, <1>13, <1>16
  <2>3. job.cuts \subseteq Nat /\ \A p \in job.cuts : p >= Ratio
    BY <1>6, <1>17
  <2> QED  BY <1>3, <1>6, <1>8, <1>9, <2>1, <2>2, <2>3 DEF JobOK
<1>19. text \in [Rows -> [Span -> Token \cup {None}]]
  BY <1>5, <1>8 DEF Token
<1>20. /\ drafts = None /\ finished = {} /\ emitted = <<>> /\ seen = "exact"
       /\ drifted = FALSE /\ done = FALSE
  BY Zenon DEF Init
<1>21. TypeOK
  BY <1>18, <1>19, <1>20 DEF TypeOK, Verdicts
<1>22. Where
  <2>1. cur = s /\ prev = start /\ start \in Nat /\ Total \in Nat
    BY <1>5, <1>7, <1>8, <1>9, <1>10, <1>13
  <2> QED  BY <1>6, <1>8, <1>13, <1>14, <2>1 DEF Where
<1> QED  BY <1>5, <1>6, <1>8, <1>10, <1>21, <1>22, <1>20

LEMMA InitReads == Init => ReadsInv
<1> SUFFICES ASSUME Init PROVE ReadsInv
  OBVIOUS
<1>1. TypeOK /\ Where /\ JobOK
  BY InitFacts DEF TypeOK
<1>2. Ratio \in Nat \ {0} /\ prev \in Nat /\ Total \in Nat /\ MaxSeq \in Nat /\ Total <= MaxSeq
  BY <1>1, RowsFacts, CacheAssumption DEF Where
<1>3. Holds(layer, text, prev)
  <2>1. CASE job.start = 0
    <3>1. prev = 0 /\ \A r \in Rows : layer[r] = Used
      BY <2>1, InitFacts
    <3>2. 0 \div Ratio = 0
      BY <1>2
    <3>3. \A r \in Rows : RingUpTo(Used, text[r], 0) /\ HalfAt(Used, text[r], 0)
      BY DEF RingUpTo, HalfAt
    <3>4. \A r \in Rows : OverlapAt(Used, text[r], 0) /\ EntriesAt(job.kind, Used, text[r], 0)
      BY <3>2 DEF OverlapAt, EntriesAt, Entries
    <3> QED  BY <3>1, <3>3, <3>4, UsedFacts DEF Holds, StateAt
  <2>2. CASE job.start = Ratio
    <3>1. prev = Ratio /\ Ratio < Shortest
      BY <1>1, <2>2, InitFacts DEF JobOK
    <3>2. Ratio \in 1..MaxSeq /\ Ratio <= Total
      BY <1>1, <1>2, <3>1, RowsFacts
    <3> SUFFICES ASSUME NEW r \in Rows
                 PROVE  /\ layer[r] \in Buffers
                        /\ RingUpTo(layer[r], text[r], prev)
                        /\ Sound => StateAt(job.kind, layer[r], text[r], prev)
      BY DEF Holds
    <3>3. PICK new : new = layer[r]
      OBVIOUS
    <3>4. new = FirstPass(job.kind, Used, text[r], Ratio)
      BY <1>2, <2>2, <3>3, InitFacts
    <3>5. Typed(text[r], Ratio)
      BY <1>1, <1>2, <3>2, TypedFacts DEF TypedRows, TypeOK
    <3>6. new \in Buffers /\ RingFull(new, text[r], Ratio) /\ StateAt(job.kind, new, text[r], Ratio)
      BY <3>2, <3>4, <3>5, UsedFacts, FirstPassFacts
    <3>7. RingUpTo(new, text[r], Ratio)
      BY <3>6, FullIsUpTo, CacheAssumption
    <3> QED  BY <3>1, <3>3, <3>6, <3>7
  <2> QED  BY <1>1, <2>1, <2>2 DEF JobOK
<1> QED  BY <1>1, <1>3, InitFacts DEF ReadsInv, Reads

LEMMA StillReads ==
  ASSUME ReadsInv, job' = job, text' = text, layer' = layer, prev' = prev, cur' = cur,
         drafts' = drafts, seen' = seen, drifted' = drifted
  PROVE  ReadsInv'
<1>1. /\ JobOK' /\ Rows' = Rows /\ Span' = Span /\ Total' = Total
      /\ Shortest' = Shortest /\ ShortStart' = ShortStart
  BY SameJob DEF ReadsInv, TypeOK
<1>2. TypeOK' /\ Where'
  BY <1>1 DEF ReadsInv, TypeOK, Where
<1>3. Sound' = Sound
  BY <1>1 DEF Sound
<1>4. Holds(layer, text, prev)'
  BY <1>1, <1>3 DEF ReadsInv, Reads, Holds
<1> QED  BY <1>2, <1>3, <1>4 DEF ReadsInv, Reads

(***************************************************************************)
(* The buffers at every pass hold the text before it, the ring as far back *)
(* as the window goes, and the compressed entries and the half-state too   *)
(* as long as neither exception with an overlapping compressor has come.   *)
(* So the passes of the loop, the prefill in pieces, the decoding of one   *)
(* position and the verify passes accepted or not, read only the request's *)
(* own tokens (generation.py and the forward of Attention).                *)
(***************************************************************************)
THEOREM BuffersHoldTheText == Spec => []ReadsInv
<1>1. ReadsInv /\ [Next]_vars => ReadsInv'
  <2> SUFFICES ASSUME ReadsInv, [Next]_vars PROVE ReadsInv'
    OBVIOUS
  <2>1. CASE Prefill
    BY <2>1, PrefillReads
  <2>2. CASE Decode
    BY <2>2, DecodeReads
  <2>3. CASE Accept
    BY <2>3, AcceptReads
  <2>4. CASE Reject
    BY <2>4, RejectReads
  <2>5. CASE NoRoom
    BY <2>5, StillReads DEF NoRoom
  <2>6. CASE UNCHANGED vars
    BY <2>6, StillReads DEF vars
  <2> QED  BY <2>1, <2>2, <2>3, <2>4, <2>5, <2>6 DEF Next
<1> QED  BY <1>1, InitReads, PTL DEF Spec

\* A query reads only what was computed from the request's own tokens before
\* it, and all of it, with the exceptions ReadsAsIntended names: for any
\* window, ratio, context, batch, chunk size and drafts.
THEOREM QueriesReadAsIntended == Spec => []ReadsAsIntended
<1>1. ReadsInv => ReadsAsIntended
  BY DEF ReadsInv, Reads, ReadsAsIntended, Sound
<1> QED  BY <1>1, BuffersHoldTheText, PTL

-----------------------------------------------------------------------------
(* The text *)

\* The prompts are never written over.
Prompted ==
  \A r \in Rows, q \in Span : InPrompt(r, q) => text[r][q] = Plain

\* As long as every query has read what it should, greedy rows are greedy.
Followed ==
  seen = "exact" /\ ~job.sampled =>
    \A r \in Rows, q \in Span : q < cur => text[r][q] = Greedy(r, q)

\* A row is finished by an end token that it met.
Met ==
  \A r \in finished : r \in Rows /\ \E p \in Span :
    /\ ~InPrompt(r, p) /\ p < cur
    /\ text[r][p] = Eos

\* The loop is over for one of two reasons, and goes on for neither.
Over ==
  /\ done => finished = Rows \/ cur >= Total
  /\ finished = Rows => done

TextInv == ReadsInv /\ Prompted /\ Followed /\ Met /\ Over

\* The tokens that a greedy pass finds on a greedy text.
LEMMA FoundGreedy ==
  ASSUME TypeOK, Prompted, ~job.sampled, NEW input, NEW p \in Int, NEW n \in Span, n = p + 1,
         NEW t \in Choices(input, p, "exact"),
         \A r \in Rows : \A q \in Span : q <= p => input[r][q] = Greedy(r, q)
  PROVE  \A r \in Rows : Written(r, n, t) = Greedy(r, n)
<1> SUFFICES ASSUME NEW r \in Rows PROVE Written(r, n, t) = Greedy(r, n)
  OBVIOUS
<1>1. Total \in Nat /\ job.lens[r] \in Nat /\ job.stop[r] \in Nat /\ job.lens[r] <= job.stop[r]
  <2>1. Total \in Nat /\ job.lens[r] \in 1..MaxSeq
    BY RowsFacts DEF TypeOK
  <2> QED  BY <2>1 DEF TypeOK, JobOK
<1>2. CASE InPrompt(r, n)
  <2>1. text[r][n] = Plain /\ n # job.stop[r]
    BY <1>1, <1>2 DEF Prompted, InPrompt, Span
  <2> QED  BY <1>2, <2>1 DEF Written, Greedy
<1>3. CASE ~InPrompt(r, n)
  <2>1. \A q \in 0..p : q \in Span /\ q <= p
    BY <1>1 DEF Span
  <2>2. \A q \in 0..p : input[r][q] = Greedy(r, q)
    BY <2>1
  <2>3. t[r] \in Finds(r, input, p, "exact")
    BY DEF Choices
  <2>4. t[r] = Greedy(r, p + 1)
    BY <2>2, <2>3 DEF Finds
  <2> QED  BY <1>3, <2>4 DEF Written
<1> QED  BY <1>2, <1>3

\* A step that writes positions from cur on, up to the next cur.
LEMMA TextStep ==
  ASSUME TextInv, ReadsInv', job' = job, cur <= cur', cur' <= Total,
         \A r \in Rows : \A q \in Span : q < cur \/ InPrompt(r, q) => text'[r][q] = text[r][q],
         seen' = "exact" => seen = "exact",
         seen' = "exact" /\ ~job.sampled =>
           \A r \in Rows : \A q \in Span : cur <= q /\ q < cur' => text'[r][q] = Greedy(r, q),
         \A r \in finished' : r \in finished \/ (r \in Rows /\ \E p \in Span :
           ~InPrompt(r, p) /\ p < cur' /\ text'[r][p] = Eos),
         done' = (finished' = Rows \/ cur' >= Total)
  PROVE  TextInv'
<1>1. Rows' = Rows /\ Span' = Span /\ Total' = Total
  BY SameJob DEF TextInv, ReadsInv, TypeOK
<1>2. cur \in Nat /\ cur' \in Nat /\ Span \subseteq Nat
  BY RowsFacts DEF TextInv, ReadsInv, TypeOK, Where, Span
<1>3. \A r, q : InPrompt(r, q)' = InPrompt(r, q) /\ Greedy(r, q)' = Greedy(r, q)
  BY DEF InPrompt, Greedy
<1>4. Prompted'
  BY <1>1, <1>3 DEF Prompted, TextInv
<1>5. Followed'
  BY <1>1, <1>2, <1>3 DEF Followed, TextInv
<1>6. Met'
  BY <1>1, <1>2, <1>3 DEF Met, TextInv
<1>7. Over'
  BY <1>1 DEF Over
<1> QED  BY <1>4, <1>5, <1>6, <1>7 DEF TextInv

\* A step that writes one position, found by a pass on a text that agrees
\* with this one.
LEMMA OneFound ==
  ASSUME TextInv, ReadsInv', job' = job, cur < Total, Advance(1), NEW pass,
         NEW t \in Choices(text, cur - 1, pass.seen),
         seen' = pass.seen, pass.seen = "exact" => seen = "exact",
         text' = WriteAt(text, cur, t),
         finished' = finished \cup Ended(cur, t)
  PROVE  TextInv'
<1>1. TypeOK /\ Where /\ cur \in Nat /\ Total \in Nat /\ cur \in Span /\ Span \subseteq Nat
  BY RowsFacts DEF TextInv, ReadsInv, TypeOK, Where, Span
<1>2. Rows' = Rows /\ Total' = Total
  BY <1>1, SameJob DEF TypeOK
<1>3. cur' = cur + 1 /\ done' = (finished' = Rows \/ cur' >= Total)
  BY <1>2 DEF Advance
<1>4. t \in [Rows -> Token]
  BY DEF Choices
<1>5. \A r \in Rows : \A q \in Span :
        text'[r][q] = IF q = cur THEN Written(r, cur, t) ELSE text[r][q]
  BY <1>1, <1>4, OneWritten
<1>6. \A r \in Rows : \A q \in Span : q < cur \/ InPrompt(r, q) => text'[r][q] = text[r][q]
  BY <1>1, <1>5 DEF Written
<1>7. ASSUME seen' = "exact", ~job.sampled
      PROVE  \A r \in Rows : Written(r, cur, t) = Greedy(r, cur)
  <2>1. \A r \in Rows : \A q \in Span : q <= cur - 1 => text[r][q] = Greedy(r, q)
    BY <1>1, <1>7 DEF TextInv, Followed
  <2>2. t \in Choices(text, cur - 1, "exact") /\ cur - 1 \in Int /\ cur = (cur - 1) + 1
    BY <1>1, <1>7
  <2>3. PICK p \in Int : p = cur - 1
    BY <2>2
  <2>4. TypeOK /\ Prompted /\ cur \in Span
    BY <1>1 DEF TextInv
  <2> QED  BY <1>7, <2>1, <2>2, <2>3, <2>4, FoundGreedy
<1>8. \A q \in Span : cur <= q /\ q < cur' => q = cur
  BY <1>1, <1>3
<1>9. \A r \in Ended(cur, t) : /\ r \in Rows /\ ~InPrompt(r, cur) /\ cur < cur'
                               /\ text'[r][cur] = Eos
  BY <1>1, <1>3, <1>5 DEF Ended, Written
<1>10. seen' = "exact" /\ ~job.sampled =>
         \A r \in Rows : \A q \in Span : cur <= q /\ q < cur' => text'[r][q] = Greedy(r, q)
  BY <1>5, <1>7, <1>8
<1>11. \A r \in finished' : r \in finished \/ (r \in Rows /\ \E p \in Span :
         ~InPrompt(r, p) /\ p < cur' /\ text'[r][p] = Eos)
  BY <1>1, <1>9
<1>12. cur <= cur' /\ cur' <= Total
  BY <1>1, <1>3
<1> QED  BY <1>3, <1>6, <1>10, <1>11, <1>12, TextStep

LEMMA PrefillText ==
  ASSUME TextInv, ReadsInv', Prefill
  PROVE  TextInv'
<1>1. PICK pass : pass = Passes(Now, text, prev, cur, PrefillCuts)
  OBVIOUS
<1>2. PICK t \in Choices(text, cur - 1, pass.seen) :
        /\ seen' = pass.seen /\ text' = WriteAt(text, cur, t)
        /\ finished' = finished \cup Ended(cur, t)
  BY <1>1 DEF Prefill
<1>3. cur < Total /\ prev < Shortest /\ Advance(1) /\ job' = job
  BY DEF Prefill
<1>4. pass.seen = "exact" => seen = "exact"
  BY <1>1, <1>3, PrefillPass DEF TextInv, Done, Good, Now
<1> QED  BY <1>2, <1>3, <1>4, OneFound

LEMMA DecodeText ==
  ASSUME TextInv, ReadsInv', Decode
  PROVE  TextInv'
<1>1. PICK pass : pass = Pass(Now, text, prev, cur)
  OBVIOUS
<1>2. PICK t \in Choices(text, cur - 1, pass.seen) :
        /\ seen' = pass.seen /\ text' = WriteAt(text, cur, t)
        /\ finished' = finished \cup Ended(cur, t)
  BY <1>1 DEF Decode
<1>3. cur < Total /\ ~(prev < Shortest) /\ Advance(1) /\ job' = job
  BY RowsFacts DEF Decode, TextInv, ReadsInv, TypeOK, Where
<1>4. pass.seen = "exact" => seen = "exact"
  BY <1>1, <1>3, DecodePass DEF TextInv, Done, Good, Now
<1> QED  BY <1>2, <1>3, <1>4, OneFound

LEMMA RejectText ==
  ASSUME TextInv, ReadsInv', Reject
  PROVE  TextInv'
<1>1. PICK pass : pass = VerifyPass
  OBVIOUS
<1>2. PICK t \in Choices(text, cur - 1, pass.seen) :
        /\ seen' = pass.seen /\ text' = WriteAt(text, cur, t)
        /\ finished' = finished \cup Ended(cur, t)
  BY <1>1 DEF Reject
<1>3. cur < Total /\ ~(prev < Shortest) /\ VerifyNow /\ Advance(1) /\ job' = job
  BY RowsFacts DEF Reject, TextInv, ReadsInv, TypeOK, Where
<1>4. pass.seen = "exact" => seen = "exact"
  BY <1>1, <1>3, VerifyPassFacts DEF TextInv, Done, Good, Now
<1> QED  BY <1>2, <1>3, <1>4, OneFound

\* Both tokens of an accepted pass: the second was found on the first.
LEMMA AcceptText ==
  ASSUME TextInv, ReadsInv', Accept
  PROVE  TextInv'
<1>1. PICK pass : pass = VerifyPass
  OBVIOUS
<1>2. PICK t \in Choices(text, cur - 1, pass.seen), u \in Choices(Drafted, cur, pass.seen) :
        /\ Accepts(t) /\ seen' = pass.seen
        /\ text' = WriteAt(WriteAt(text, cur, t), cur + 1, u)
        /\ finished' = finished \cup Ended(cur, t) \cup Ended(cur + 1, u)
  BY <1>1 DEF Accept
<1>3. /\ cur < Total /\ ~(prev < Shortest) /\ VerifyNow /\ Advance(2) /\ job' = job
  BY RowsFacts DEF Accept, TextInv, ReadsInv, TypeOK, Where
<1>4. pass.seen = "exact" => seen = "exact"
  BY <1>1, <1>3, VerifyPassFacts DEF TextInv, Done, Good, Now
<1>5. /\ TypeOK /\ Where /\ cur \in Nat /\ Total \in Nat /\ cur + 1 < Total
      /\ cur \in Span /\ cur + 1 \in Span /\ Span \subseteq Nat
  BY <1>3, DraftedFacts, RowsFacts DEF TextInv, ReadsInv, TypeOK, Where, Span
<1>6. Rows' = Rows /\ Total' = Total
  BY <1>3, <1>5, SameJob DEF TypeOK
<1>7. cur' = cur + 2 /\ done' = (finished' = Rows \/ cur' >= Total)
  BY <1>3, <1>6 DEF Advance
<1>8. PICK n \in Span : n = cur + 1
  BY <1>5
<1>9. t \in [Rows -> Token] /\ u \in [Rows -> Token]
  BY DEF Choices
<1>10. \A r \in Rows : \A q \in Span :
         text'[r][q] = IF q = n THEN Written(r, n, u)
                       ELSE IF q = cur THEN Written(r, cur, t) ELSE text[r][q]
  BY <1>2, <1>5, <1>8, <1>9, TwoWritten
<1>11. \A r \in Rows : \A q \in Span : q < cur \/ InPrompt(r, q) => text'[r][q] = text[r][q]
  BY <1>5, <1>8, <1>10 DEF Written
<1>12. ASSUME seen' = "exact", ~job.sampled
       PROVE  \A r \in Rows : /\ Written(r, cur, t) = Greedy(r, cur)
                              /\ Written(r, n, u) = Greedy(r, n)
  <2>1. \A r \in Rows : \A q \in Span : q < cur => text[r][q] = Greedy(r, q)
    BY <1>2, <1>4, <1>12 DEF TextInv, Followed
  <2>2. PICK p \in Int : p = cur - 1
    BY <1>5
  <2>3. \A r \in Rows : \A q \in Span : q <= p => text[r][q] = Greedy(r, q)
    <3>1. \A q \in Span : q <= p => q < cur
      BY <1>5, <2>2
    <3> QED  BY <2>1, <3>1
  <2>4. t \in Choices(text, p, "exact") /\ cur = p + 1
    BY <1>2, <1>5, <1>12, <2>2
  <2>5. TypeOK /\ Prompted
    BY <1>5 DEF TextInv
  <2>6. \A r \in Rows : Written(r, cur, t) = Greedy(r, cur)
    BY <1>5, <1>12, <2>2, <2>3, <2>4, <2>5, FoundGreedy
  <2>7. \A r \in Rows : Drafted[r][cur] = Greedy(r, cur)
    BY <1>2, <1>3, <2>6, DraftedFacts DEF Accepts, TextInv
  <2>8. \A r \in Rows : \A q \in Span : q <= cur => Drafted[r][q] = Greedy(r, q)
    <3>1. \A r \in Rows : \A q \in Nat : q < cur => text[r][q] = Drafted[r][q]
      BY <1>3, DraftedFacts DEF TextInv, AgreeRows, Agree
    <3>2. \A q \in Span : q \in Nat /\ (q <= cur => q < cur \/ q = cur)
      BY <1>5
    <3> QED  BY <2>1, <2>7, <3>1, <3>2
  <2>9. u \in Choices(Drafted, cur, "exact") /\ cur \in Int
    BY <1>2, <1>5, <1>12
  <2>10. PICK input : input = Drafted
    OBVIOUS
  <2>11. \A r \in Rows : Written(r, n, u) = Greedy(r, n)
    BY <1>8, <1>12, <2>5, <2>8, <2>9, <2>10, FoundGreedy
  <2> QED  BY <2>6, <2>11
<1>13. \A q \in Span : cur <= q /\ q < cur' => q = cur \/ q = n
  BY <1>5, <1>7, <1>8
<1>14. seen' = "exact" /\ ~job.sampled =>
         \A r \in Rows : \A q \in Span : cur <= q /\ q < cur' => text'[r][q] = Greedy(r, q)
  BY <1>5, <1>8, <1>10, <1>12, <1>13
<1>15. \A r \in finished' : r \in finished \/ (r \in Rows /\ \E p \in Span :
         ~InPrompt(r, p) /\ p < cur' /\ text'[r][p] = Eos)
  <2>1. Ended(cur, t) = {} /\ finished' = finished \cup Ended(n, u)
    BY <1>2, <1>8 DEF Accepts
  <2>2. \A r \in Ended(n, u) : /\ r \in Rows /\ ~InPrompt(r, n) /\ n < cur'
                               /\ text'[r][n] = Eos
    BY <1>5, <1>7, <1>8, <1>10 DEF Ended, Written
  <2> QED  BY <2>1, <2>2
<1>16. cur <= cur' /\ cur' <= Total
  BY <1>5, <1>7
<1> QED  BY <1>2, <1>3, <1>4, <1>7, <1>11, <1>14, <1>15, <1>16, TextStep

\* A prompt that fills the context ends the loop; a stutter changes nothing.
LEMMA StillText ==
  ASSUME TextInv, ReadsInv', job' = job, text' = text, cur' = cur, finished' = finished,
         seen' = seen, done' = done \/ (done' /\ cur >= Total)
  PROVE  TextInv'
<1>1. Rows' = Rows /\ Span' = Span /\ Total' = Total
  BY SameJob DEF TextInv, ReadsInv, TypeOK
<1>2. \A r, q : InPrompt(r, q)' = InPrompt(r, q) /\ Greedy(r, q)' = Greedy(r, q)
  BY DEF InPrompt, Greedy
<1>3. Prompted' /\ Followed' /\ Met'
  BY <1>1, <1>2 DEF TextInv, Prompted, Followed, Met
<1>4. Over'
  BY <1>1 DEF TextInv, Over
<1> QED  BY <1>3, <1>4 DEF TextInv

LEMMA InitText == Init => TextInv
<1> SUFFICES ASSUME Init PROVE TextInv
  OBVIOUS
<1>1. ReadsInv /\ JobOK
  BY InitReads DEF ReadsInv, TypeOK
<1>2. text = [r \in Rows |-> [p \in Span |-> IF p < job.lens[r] THEN Plain ELSE None]]
  BY InitFacts
<1>3. Prompted
  BY <1>2 DEF Prompted, InPrompt
<1>4. Followed
  <2> SUFFICES ASSUME NEW r \in Rows, NEW q \in Span, q < cur
               PROVE  text[r][q] = Greedy(r, q)
    BY DEF Followed
  <2>1. /\ cur = Shortest /\ Shortest \in Nat /\ Shortest <= job.lens[r] /\ job.lens[r] \in Nat
        /\ q \in Nat
    <3>1. job.lens[r] \in 1..MaxSeq /\ Shortest \in 1..MaxSeq /\ Total \in Nat
      BY <1>1, RowsFacts
    <3> QED  BY <1>1, <3>1, InitFacts, RowsFacts DEF Span
  <2>2. job.stop[r] \in Nat /\ job.lens[r] <= job.stop[r]
    BY <1>1 DEF JobOK
  <2>3. q < job.lens[r] /\ q # job.stop[r]
    BY <2>1, <2>2
  <2> QED  BY <1>2, <2>3 DEF Greedy
<1>5. Met /\ finished = {} /\ ~done
  BY InitFacts DEF Met
<1>6. Over
  BY <1>1, <1>5, RowsFacts DEF Over
<1> QED  BY <1>1, <1>3, <1>4, <1>5, <1>6 DEF TextInv

(***************************************************************************)
(* The tokens that the loop has written are the greedy ones as long as     *)
(* every query has read exactly what it should; a prompt is never written  *)
(* over, whatever the padding and the drafts; a row is finished only by an *)
(* end token after its prompt, and the loop ends when all rows are         *)
(* finished or the context is full (generation.py, the loop over cur_pos). *)
(***************************************************************************)
THEOREM TextIsGreedy == Spec => []TextInv
<1>1. TextInv /\ ReadsInv' /\ [Next]_vars => TextInv'
  <2> SUFFICES ASSUME TextInv, ReadsInv', [Next]_vars PROVE TextInv'
    OBVIOUS
  <2>1. CASE Prefill
    BY <2>1, PrefillText
  <2>2. CASE Decode
    BY <2>2, DecodeText
  <2>3. CASE Accept
    BY <2>3, AcceptText
  <2>4. CASE Reject
    BY <2>4, RejectText
  <2>5. CASE NoRoom
    BY <2>5, StillText DEF NoRoom
  <2>6. CASE UNCHANGED vars
    BY <2>6, StillText DEF vars
  <2> QED  BY <2>1, <2>2, <2>3, <2>4, <2>5, <2>6 DEF Next
<1> QED  BY <1>1, InitText, BuffersHoldTheText, PTL DEF Spec

-----------------------------------------------------------------------------
(* What is returned *)

Limit(r) == Least({Total, job.lens[r] + MaxNew})

\* The first position of row r that is not returned.
CutAt(r, e) ==
  /\ job.lens[r] <= e /\ e <= Limit(r)
  /\ \A q \in job.lens[r]..e - 1 : text[r][q] # Eos
  /\ e < Limit(r) => text[r][e] = Eos

LEMMA LimitFacts ==
  ASSUME TypeOK, NEW r \in Rows
  PROVE  /\ job.lens[r] \in Nat /\ Total \in Nat /\ Limit(r) \in Nat
         /\ job.lens[r] <= Limit(r) /\ Limit(r) <= Total
         /\ Len(job.lens) = 1 => Limit(r) = Total
<1>1. job.lens[r] \in 1..MaxSeq /\ job.lens[r] <= Total /\ Total \in Nat /\ MaxSeq \in Nat
  BY RowsFacts DEF TypeOK
<1>2. MaxNew \in Nat
  BY GenerationAssumption
<1> DEFINE T == {Total, job.lens[r] + MaxNew}
<1>3. T # {} /\ T \subseteq Nat
  BY <1>1, <1>2
<1>4. Least(T) \in T /\ \A y \in T : Least(T) <= y
  BY <1>3, LeastFacts
<1>5. PICK l : l = Limit(r)
  OBVIOUS
<1>6. l \in {Total, job.lens[r] + MaxNew} /\ l <= Total /\ l <= job.lens[r] + MaxNew
  BY <1>4, <1>5 DEF Limit
<1>7. Len(job.lens) = 1 => Total <= job.lens[r] + MaxNew
  <2> SUFFICES ASSUME Len(job.lens) = 1 PROVE Total <= job.lens[r] + MaxNew
    OBVIOUS
  <2>1. Rows = 1..1 /\ job.lens \in Lens
    BY RowsFacts DEF TypeOK, JobOK
  <2>2. r = 1
    BY <2>1
  <2>3. Total = IF MaxSeq <= MaxNew + job.lens[1] THEN MaxSeq ELSE MaxNew + job.lens[1]
    BY <2>1, TotalFacts DEF Total
  <2> QED  BY <1>1, <1>2, <2>2, <2>3
<1> QED  BY <1>1, <1>2, <1>5, <1>6, <1>7

LEMMA CompletionIs ==
  ASSUME TypeOK, NEW r \in Rows, NEW e \in Nat, CutAt(r, e)
  PROVE  Completion(r) = [i \in 1..e - job.lens[r] |-> text[r][job.lens[r] + i - 1]]
<1>1. PICK first \in Nat : first = job.lens[r]
  BY LimitFacts
<1>2. PICK limit \in Nat : limit = Limit(r)
  BY LimitFacts
<1> DEFINE ends == {p \in first..limit - 1 : text[r][p] = Eos}
           stop == IF ends = {} THEN limit ELSE Least(ends)
<1>3. Completion(r) = [i \in 1..stop - first |-> text[r][first + i - 1]]
  BY <1>1, <1>2 DEF Completion, Limit
<1>4. /\ first <= e /\ e <= limit /\ \A q \in first..e - 1 : text[r][q] # Eos
      /\ e < limit => text[r][e] = Eos
  BY <1>1, <1>2 DEF CutAt
<1>5. \A p \in ends : p \in Nat /\ e <= p /\ p < limit
  BY <1>4
<1>6. CASE e = limit
  <2>1. ends = {}
    BY <1>5, <1>6
  <2> QED  BY <1>1, <1>3, <1>6, <2>1
<1>7. CASE e < limit
  <2>1. e \in ends
    BY <1>4, <1>7
  <2> HIDE DEF ends
  <2>2. ends # {} /\ ends \subseteq Nat
    BY <1>5, <2>1
  <2>3. Least(ends) \in ends /\ Least(ends) <= e
    BY <2>1, <2>2, LeastFacts
  <2>4. Least(ends) = e
    BY <1>5, <2>3
  <2> QED  BY <1>1, <1>3, <2>2, <2>4
<1> QED  BY <1>4, <1>6, <1>7

\* When the loop is over the greedy text is there, to its end token or to
\* the end of the row.
LEMMA OverFacts ==
  ASSUME TextInv, done, seen = "exact", ~job.sampled, NEW r \in Rows
  PROVE  /\ \A q \in Span : q < cur => text[r][q] = Greedy(r, q)
         /\ (job.stop[r] < cur /\ job.stop[r] \in Span) \/ cur >= Total
<1>1. \A q \in Span : q < cur => text[r][q] = Greedy(r, q)
  BY DEF TextInv, Followed
<1>2. ASSUME finished = Rows
      PROVE  job.stop[r] < cur /\ job.stop[r] \in Span
  <2>1. PICK p \in Span : p < cur /\ text[r][p] = Eos
    BY <1>2 DEF TextInv, Met
  <2>2. Greedy(r, p) = Eos
    BY <1>1, <2>1
  <2> QED  BY <2>1, <2>2, GenerationAssumption DEF Greedy
<1> QED  BY <1>1, <1>2 DEF TextInv, Over

(***************************************************************************)
(* Greedy decoding returns the greedy continuation of each row, up to its  *)
(* end token, max_new_tokens and the context, however the prefill is cut,  *)
(* the batch padded and the drafts guessed, as long as every query has     *)
(* read what it should: for batches of any size and prompts of any length. *)
(***************************************************************************)
THEOREM GreedyDecodingIsGreedy == Spec => []GreedyIsGreedy
<1>1. TextInv => GreedyIsGreedy
  <2> SUFFICES ASSUME TextInv, done, seen = "exact", ~job.sampled, NEW r \in Rows,
                      NEW e, e = IF job.stop[r] \in job.lens[r]..Limit(r) - 1
                                   THEN job.stop[r] ELSE Limit(r)
               PROVE  Completion(r) = [i \in 1..e - job.lens[r] |-> Plain]
    BY Zenon DEF GreedyIsGreedy, Limit
  <2>1. TypeOK /\ JobOK
    BY DEF TextInv, ReadsInv, TypeOK
  <2>2. /\ cur \in Nat /\ Span = 0..Total - 1
        /\ job.stop[r] \in Nat /\ job.lens[r] <= job.stop[r]
    BY <2>1, RowsFacts DEF TextInv, ReadsInv, Where, JobOK
  <2>3. PICK first \in Nat, limit \in Nat, total \in Nat, stop \in Nat :
          /\ first = job.lens[r] /\ limit = Limit(r) /\ total = Total /\ stop = job.stop[r]
    BY <2>1, <2>2, LimitFacts
  <2>4. first <= limit /\ limit <= total /\ first <= stop
    BY <2>1, <2>2, <2>3, LimitFacts
  <2>5. e \in Nat /\ first <= e /\ e <= limit /\ (e < limit => e = stop)
    BY <2>3, <2>4
  <2>6. /\ \A q \in Span : q < cur => text[r][q] = Greedy(r, q)
        /\ stop < cur \/ cur >= total
    BY <2>3, OverFacts
  <2>7. \A q \in first..e - 1 : q \in Span /\ q < cur /\ q # stop
    BY <2>2, <2>3, <2>4, <2>5, <2>6
  <2>8. \A q \in first..e - 1 : text[r][q] = Plain
    BY <2>3, <2>6, <2>7 DEF Greedy
  <2>9. e < limit => text[r][e] = Eos
    <3> SUFFICES ASSUME e < limit PROVE text[r][e] = Eos
      OBVIOUS
    <3>1. e = stop /\ e \in Span /\ e < cur
      BY <2>2, <2>3, <2>4, <2>5, <2>6
    <3> QED  BY <2>3, <2>6, <3>1 DEF Greedy
  <2>10. CutAt(r, e)
    BY <2>3, <2>5, <2>8, <2>9, GenerationAssumption DEF CutAt
  <2>11. Completion(r) = [i \in 1..e - job.lens[r] |-> text[r][job.lens[r] + i - 1]]
    BY <2>1, <2>5, <2>10, CompletionIs
  <2>12. \A i \in 1..e - first : first + i - 1 \in first..e - 1
    BY <2>5
  <2> QED  BY <2>3, <2>8, <2>11, <2>12
<1> QED  BY <1>1, TextIsGreedy, PTL

-----------------------------------------------------------------------------
(* The stream *)

\* What has been yielded of a single row is what stands after its prompt, and
\* only its last token may be the end token.
Streamed ==
  Len(job.lens) = 1 =>
    /\ emitted \in Seq(Token) /\ Len(emitted) = cur - job.lens[1]
    /\ \A i \in 1..Len(emitted) : emitted[i] = text[1][job.lens[1] + i - 1]
    /\ \A q \in Span : job.lens[1] <= q /\ q < cur /\ text[1][q] = Eos =>
         q = cur - 1 /\ finished = Rows

StreamInv == TextInv /\ Streamed

LEMMA OneRow ==
  ASSUME TypeOK, Where, Len(job.lens) = 1
  PROVE  /\ Rows = {1} /\ job.lens[1] \in Nat /\ Shortest = job.lens[1]
         /\ job.lens[1] <= cur /\ cur \in Nat /\ cur <= Total /\ Total \in Nat
         /\ Span = 0..Total - 1
<1>1. Rows = 1..1 /\ \E r \in Rows : Shortest = job.lens[r]
  BY RowsFacts DEF TypeOK
<1>2. job.lens[1] \in 1..MaxSeq
  BY RowsFacts DEF TypeOK
<1>3. Shortest <= cur /\ Total \in Nat /\ Span = 0..Total - 1
  BY PastPrompt, RowsFacts DEF TypeOK
<1>4. PICK first \in Nat : first = job.lens[1]
  BY <1>2
<1>5. Rows = {1} /\ Shortest = first
  BY <1>1, <1>4
<1> QED  BY <1>3, <1>4, <1>5 DEF Where

\* The step leaves the text before cur, and writes ts from there on, where
\* only the last token may be an end token, which then finishes the row.
Continued(ts) ==
  /\ \A q \in Span : q < cur => text'[1][q] = text[1][q]
  /\ \A i \in 1..Len(ts) : text'[1][cur + i - 1] = ts[i]
  /\ \A i \in 1..Len(ts) : ts[i] = Eos => i = Len(ts) /\ finished' = Rows

LEMMA Appended ==
  ASSUME NEW s \in Seq(Token), NEW ts \in Seq(Token), NEW new, new = s \o ts
  PROVE  /\ new \in Seq(Token) /\ Len(new) = Len(s) + Len(ts)
         /\ \A i \in 1..Len(s) : new[i] = s[i]
         /\ \A i \in 1..Len(ts) : new[Len(s) + i] = ts[i]
OBVIOUS

LEMMA StreamStep ==
  ASSUME StreamInv, TextInv', job' = job, ~done,
         NEW ts \in Seq(Token), Yield(ts),
         cur' = cur + Len(ts),
         Len(job.lens) = 1 => Continued(ts)
  PROVE  StreamInv'
<1> SUFFICES ASSUME Len(job.lens) = 1 PROVE Streamed'
  BY DEF StreamInv, Streamed
<1>1. TypeOK /\ Where /\ TypeOK' /\ Where' /\ TextInv
  BY DEF StreamInv, TextInv, ReadsInv
<1>2. Rows' = Rows /\ Span' = Span /\ Total' = Total
  BY <1>1, SameJob DEF TypeOK
<1>3. /\ Rows = {1} /\ job.lens[1] \in Nat /\ job.lens[1] <= cur /\ cur \in Nat
      /\ Total \in Nat /\ Span = 0..Total - 1 /\ cur <= Total
  BY <1>1, OneRow
<1>4. /\ emitted \in Seq(Token) /\ Len(emitted) = cur - job.lens[1]
      /\ \A i \in 1..Len(emitted) : emitted[i] = text[1][job.lens[1] + i - 1]
      /\ \A q \in Span : job.lens[1] <= q /\ q < cur /\ text[1][q] = Eos =>
           q = cur - 1 /\ finished = Rows
  BY DEF StreamInv, Streamed
<1>5. finished # Rows
  BY <1>1 DEF TextInv, Over
<1>6. PICK first \in Nat, k \in Nat, m \in Nat :
        first = job.lens[1] /\ k = Len(ts) /\ m = Len(emitted)
  BY <1>3, <1>4
<1>7. cur' <= Total /\ cur' = cur + k /\ m = cur - first /\ first <= cur
  BY <1>1, <1>2, <1>3, <1>4, <1>6 DEF Where
<1>8. PICK c \in Nat : c = cur
  BY <1>3
<1>9. PICK n \in Nat : n = cur' /\ n = c + k
  BY <1>7, <1>8
<1>10. m = c - first
  BY <1>7, <1>8
<1>11. /\ emitted' \in Seq(Token) /\ Len(emitted') = m + k
       /\ \A i \in 1..m : emitted'[i] = emitted[i]
       /\ \A i \in 1..k : emitted'[m + i] = ts[i]
  <2>1. emitted' = emitted \o ts
    BY DEF Yield
  <2>2. PICK new : new = emitted'
    OBVIOUS
  <2>3. PICK old \in Seq(Token) : old = emitted
    BY <1>4
  <2>4. /\ new \in Seq(Token) /\ Len(new) = Len(old) + Len(ts)
        /\ \A i \in 1..Len(old) : new[i] = old[i]
        /\ \A i \in 1..Len(ts) : new[Len(old) + i] = ts[i]
    BY <2>1, <2>2, <2>3, Appended
  <2>5. Len(old) = m /\ Len(ts) = k
    BY <1>6, <2>3
  <2> QED  BY <2>2, <2>3, <2>4, <2>5, Zenon
<1>12. ASSUME NEW i \in 1..m + k
      PROVE  emitted'[i] = text'[1][first + i - 1]
  <2>1. CASE i <= m
    <3>1. first + i - 1 \in Span /\ first + i - 1 < cur /\ i \in 1..m
      BY <1>3, <1>7, <2>1
    <3> QED  BY <1>4, <1>6, <1>11, <3>1 DEF Continued
  <2>2. CASE i > m
    <3>1. PICK j \in 1..k : i = m + j
      <4>1. i - m \in 1..k /\ i = m + (i - m)
        BY <2>2
      <4> QED  BY <4>1
    <3>2. first + i - 1 = cur + j - 1
      BY <1>3, <1>7, <3>1
    <3>3. emitted'[i] = ts[j]
      <4>1. emitted'[m + j] = ts[j]
        BY <1>11, Zenon
      <4> QED  BY <3>1, <4>1
    <3>4. text'[1][cur + j - 1] = ts[j]
      BY <1>6 DEF Continued
    <3> QED  BY <3>2, <3>3, <3>4
  <2> QED  BY <2>1, <2>2
<1>13. ASSUME NEW q \in Span, first <= q, q < cur', text'[1][q] = Eos
       PROVE  q = cur' - 1 /\ finished' = Rows
  <2>1. CASE q < cur
    <3>1. text[1][q] = Eos
      BY <1>13, <2>1 DEF Continued
    <3> QED  BY <1>4, <1>5, <1>6, <1>13, <2>1, <3>1
  <2>2. CASE q >= cur
    <3>1. PICK j \in 1..k : q = cur + j - 1
      <4>1. q - cur + 1 \in 1..k /\ q = cur + (q - cur + 1) - 1
        BY <1>3, <1>7, <1>13, <2>2
      <4> QED  BY <4>1
    <3>2. ts[j] = Eos
      BY <1>6, <1>13, <3>1 DEF Continued
    <3>3. j = k /\ finished' = Rows
      BY <1>6, <3>1, <3>2 DEF Continued
    <3>4. q = n - 1
      BY <1>8, <1>9, <3>1, <3>3
    <3> QED  BY <1>9, <3>3, <3>4
  <2> QED  BY <1>3, <2>1, <2>2
<1>14. Len(emitted') = cur' - first /\ 1..Len(emitted') = 1..m + k
  <2>1. m + k = n - first
    BY <1>9, <1>10
  <2> QED  BY <1>11, <1>9, <2>1
<1>15. job'.lens[1] = first
  BY <1>6
<1> QED  BY <1>2, <1>11, <1>12, <1>13, <1>14, <1>15 DEF Streamed

\* A step that writes one position.
LEMMA OneYielded ==
  ASSUME StreamInv, TextInv', job' = job, ~done, cur < Total, cur' = cur + 1,
         NEW t \in [Rows -> Token],
         text' = WriteAt(text, cur, t),
         finished' = finished \cup Ended(cur, t),
         Yield(<<t[1]>>)
  PROVE  StreamInv'
<1>1. TypeOK /\ Where
  BY DEF StreamInv, TextInv, ReadsInv
<1>2. cur \in Nat /\ Total \in Nat /\ cur \in Span /\ Span \subseteq Nat /\ 1 \in Rows
  BY <1>1, RowsFacts DEF TypeOK, Where, Span
<1>3. \A r \in Rows : \A q \in Span :
        text'[r][q] = IF q = cur THEN Written(r, cur, t) ELSE text[r][q]
  BY <1>1, OneWritten
<1>4. ASSUME Len(job.lens) = 1
      PROVE  /\ \A q \in Span : q < cur => text'[1][q] = text[1][q]
             /\ text'[1][cur] = t[1]
             /\ t[1] = Eos => finished' = Rows
  <2>1. Rows = {1} /\ ~InPrompt(1, cur)
    BY <1>1, <1>4, OneRow DEF InPrompt
  <2>2. text'[1][cur] = t[1]
    BY <1>2, <1>3, <2>1 DEF Written
  <2>3. \A r \in finished' : r \in Rows
    <3>1. Rows' = Rows
      BY <1>1, SameJob DEF TypeOK
    <3> QED  BY <3>1 DEF TextInv, Met
  <2>4. t[1] = Eos => finished' = Rows
    BY <2>1, <2>3 DEF Ended
  <2> QED  BY <1>2, <1>3, <2>2, <2>4
<1>5. PICK x \in Token : x = t[1]
  BY <1>2
<1>6. <<x>> \in Seq(Token) /\ Len(<<x>>) = 1 /\ <<x>>[1] = x
  OBVIOUS
<1>7. PICK ts \in Seq(Token) : ts = <<x>> /\ Len(ts) = 1 /\ ts[1] = x
  BY <1>6
<1>8. Yield(ts)
  BY <1>5, <1>7
<1>9. ASSUME Len(job.lens) = 1
      PROVE  Continued(ts)
  <2>1. \A i \in 1..Len(ts) : i = 1 /\ cur + i - 1 = cur
    BY <1>2, <1>7
  <2> QED  BY <1>4, <1>5, <1>7, <1>9, <2>1 DEF Continued
<1>10. cur' = cur + Len(ts)
  BY <1>7
<1> QED  BY <1>8, <1>9, <1>10, StreamStep

LEMMA YieldsToken ==
  ASSUME TypeOK, Where, NEW t, Yield(IF InPrompt(1, cur) THEN <<>> ELSE <<t[1]>>)
  PROVE  Yield(<<t[1]>>)
<1>1. Len(job.lens) = 1 => ~InPrompt(1, cur)
  BY OneRow DEF InPrompt
<1>2. CASE Len(job.lens) = 1
  BY <1>1, <1>2
<1>3. CASE Len(job.lens) # 1
  BY <1>3 DEF Yield
<1> QED  BY <1>2, <1>3

\* Both tokens of an accepted pass: the first is not an end token.
LEMMA AcceptStream ==
  ASSUME StreamInv, TextInv', Accept
  PROVE  StreamInv'
<1>1. PICK pass : pass = VerifyPass
  OBVIOUS
<1>2. PICK t \in Choices(text, cur - 1, pass.seen), u \in Choices(Drafted, cur, pass.seen) :
        /\ Accepts(t)
        /\ text' = WriteAt(WriteAt(text, cur, t), cur + 1, u)
        /\ finished' = finished \cup Ended(cur, t) \cup Ended(cur + 1, u)
        /\ Yield(<<t[1], u[1]>>)
  BY <1>1 DEF Accept
<1>3. VerifyNow /\ Advance(2) /\ job' = job /\ ~done
  BY DEF Accept
<1>4. /\ TypeOK /\ Where /\ ReadsInv /\ cur \in Nat /\ cur + 1 < Total /\ 1 \in Rows
      /\ Span \subseteq Nat
  <2>1. ReadsInv
    BY DEF StreamInv, TextInv
  <2> QED  BY <1>3, <2>1, DraftedFacts, RowsFacts DEF ReadsInv, TypeOK, Span
<1>5. t \in [Rows -> Token] /\ u \in [Rows -> Token]
  BY DEF Choices
<1>6. PICK n \in Nat : n = cur + 1
  BY <1>4
<1>7. \A r \in Rows : \A q \in Span :
        text'[r][q] = IF q = n THEN Written(r, n, u)
                      ELSE IF q = cur THEN Written(r, cur, t) ELSE text[r][q]
  BY <1>2, <1>4, <1>5, <1>6, TwoWritten
<1>8. ASSUME Len(job.lens) = 1
      PROVE  /\ \A q \in Span : q < cur => text'[1][q] = text[1][q]
             /\ text'[1][cur] = t[1] /\ text'[1][n] = u[1]
             /\ t[1] # Eos
             /\ u[1] = Eos => finished' = Rows
  <2>1. Rows = {1} /\ ~InPrompt(1, cur) /\ ~InPrompt(1, n) /\ cur \in Span /\ n \in Span
    BY <1>4, <1>6, <1>8, OneRow DEF InPrompt
  <2>2. text'[1][cur] = t[1] /\ text'[1][n] = u[1]
    BY <1>4, <1>6, <1>7, <2>1 DEF Written
  <2>3. \A r \in finished' : r \in Rows
    <3>1. Rows' = Rows
      BY <1>3, <1>4, SameJob DEF TypeOK
    <3> QED  BY <3>1 DEF TextInv, Met
  <2>4. t[1] # Eos
    BY <1>2, <2>1 DEF Accepts, Ended
  <2>5. u[1] = Eos => finished' = Rows
    BY <1>2, <1>6, <2>1, <2>3 DEF Ended
  <2>6. \A q \in Span : q < cur => text'[1][q] = text[1][q]
    BY <1>4, <1>6, <1>7
  <2> QED  BY <2>2, <2>4, <2>5, <2>6
<1>9. PICK x \in Token, y \in Token : x = t[1] /\ y = u[1]
  BY <1>4, <1>5
<1>10. <<x, y>> \in Seq(Token) /\ Len(<<x, y>>) = 2 /\ <<x, y>>[1] = x /\ <<x, y>>[2] = y
  OBVIOUS
<1>11. PICK ts \in Seq(Token) : ts = <<x, y>> /\ Len(ts) = 2 /\ ts[1] = x /\ ts[2] = y
  BY <1>10
<1>12. Yield(ts)
  BY <1>2, <1>9, <1>11
<1>13. ASSUME Len(job.lens) = 1
       PROVE  Continued(ts)
  <2>1. \A i \in 1..Len(ts) : (i = 1 /\ cur + i - 1 = cur) \/ (i = 2 /\ cur + i - 1 = n)
    BY <1>4, <1>6, <1>11
  <2> QED  BY <1>8, <1>9, <1>11, <1>13, <2>1 DEF Continued
<1>14. cur' = cur + Len(ts)
  BY <1>3, <1>11 DEF Advance
<1> QED  BY <1>3, <1>12, <1>13, <1>14, StreamStep

LEMMA StreamNext ==
  ASSUME StreamInv, TextInv', [Next]_vars
  PROVE  StreamInv'
<1>1. TypeOK /\ Where
  BY DEF StreamInv, TextInv, ReadsInv
<1>2. ASSUME Prefill \/ Decode \/ Reject
      PROVE  StreamInv'
  <2>1. \E t \in [Rows -> Token] :
          /\ text' = WriteAt(text, cur, t) /\ finished' = finished \cup Ended(cur, t)
          /\ Yield(IF InPrompt(1, cur) THEN <<>> ELSE <<t[1]>>) \/ Yield(<<t[1]>>)
    BY <1>2, Zenon DEF Prefill, Decode, Reject, Choices
  <2>2. PICK t \in [Rows -> Token] :
          text' = WriteAt(text, cur, t) /\ finished' = finished \cup Ended(cur, t)
          /\ Yield(<<t[1]>>)
    BY <1>1, <2>1, YieldsToken
  <2>3. job' = job /\ ~done /\ cur < Total /\ cur' = cur + 1
    BY <1>2 DEF Prefill, Decode, Reject, Advance
  <2> QED  BY <2>2, <2>3, OneYielded
<1>3. CASE Accept
  BY <1>3, AcceptStream
<1>4. ASSUME NoRoom \/ UNCHANGED vars
      PROVE  StreamInv'
  <2>1. job' = job /\ text' = text /\ cur' = cur /\ finished' = finished /\ emitted' = emitted
    BY <1>4 DEF NoRoom, vars
  <2>2. Rows' = Rows /\ Span' = Span
    BY <1>1, <2>1, SameJob DEF TypeOK
  <2> QED  BY <2>1, <2>2 DEF StreamInv, Streamed
<1> QED  BY <1>2, <1>3, <1>4 DEF Next

LEMMA InitStream == Init => StreamInv
<1> SUFFICES ASSUME Init PROVE StreamInv
  OBVIOUS
<1>1. TextInv /\ TypeOK /\ Where
  BY InitText DEF TextInv, ReadsInv
<1>2. Streamed
  <2> SUFFICES ASSUME Len(job.lens) = 1
               PROVE  /\ emitted \in Seq(Token) /\ Len(emitted) = cur - job.lens[1]
                      /\ \A i \in 1..Len(emitted) : emitted[i] = text[1][job.lens[1] + i - 1]
                      /\ \A q \in Span : ~(job.lens[1] <= q /\ q < cur)
    BY DEF Streamed
  <2>1. job.lens[1] \in Nat /\ cur = job.lens[1] /\ Span \subseteq Nat
    BY <1>1, OneRow, InitFacts
  <2>2. emitted = <<>> /\ <<>> \in Seq(Token) /\ Len(<<>>) = 0
    BY InitFacts
  <2> QED  BY <2>1, <2>2
<1> QED  BY <1>1, <1>2 DEF StreamInv

\* A sequence is known by its elements.
LEMMA SameTokens ==
  ASSUME NEW s \in Seq(Token), NEW c, NEW k \in Nat, Len(s) = k,
         c = [i \in 1..k |-> c[i]], \A i \in 1..k : c[i] = s[i]
  PROVE  s = c
<1>1. s = [i \in 1..Len(s) |-> s[i]]
  OBVIOUS
<1> QED  BY <1>1

LEMMA LastToken ==
  ASSUME NEW s \in Seq(Token), NEW c, NEW k \in Nat, Len(s) = k + 1,
         c = [i \in 1..k |-> c[i]], \A i \in 1..k : c[i] = s[i]
  PROVE  s = Append(c, s[k + 1])
<1>1. PICK last \in Token : last = s[k + 1]
  OBVIOUS
<1>2. c \in Seq(Token) /\ Len(c) = k
  OBVIOUS
<1>3. PICK a \in Seq(Token) :
        a = Append(c, last) /\ Len(a) = k + 1
        /\ (\A i \in 1..k : a[i] = c[i]) /\ a[k + 1] = last
  <2>1. PICK d \in Seq(Token) : d = c /\ Len(d) = k
    BY <1>2
  <2>2. /\ Append(d, last) \in Seq(Token) /\ Len(Append(d, last)) = k + 1
        /\ \A i \in 1..k : Append(d, last)[i] = d[i]
        /\ Append(d, last)[k + 1] = last
    BY <2>1, AppendProperties
  <2> QED  BY <2>1, <2>2
<1>4. \A i \in 1..k + 1 : a[i] = s[i]
  BY <1>1, <1>3
<1>5. a = [i \in 1..k + 1 |-> a[i]]
  BY <1>3
<1>6. s = a
  BY <1>4, <1>5, SameTokens
<1> QED  BY <1>1, <1>3, <1>6

LEMMA StreamAlways == Spec => []StreamInv
<1>1. StreamInv /\ TextInv' /\ [Next]_vars => StreamInv'
  BY StreamNext
<1> QED  BY <1>1, InitStream, TextIsGreedy, PTL DEF Spec

(***************************************************************************)
(* What generate_stream yields of a row is the completion the same call    *)
(* returns, with the end token after it if the row met one: whichever      *)
(* drafts were accepted, and wherever the end token stood among them.      *)
(***************************************************************************)
THEOREM StreamIsTheCompletion == Spec => []StreamIsCompletion
<1>1. StreamInv => StreamIsCompletion
  <2> SUFFICES ASSUME StreamInv, done, Len(job.lens) = 1
               PROVE  emitted = IF finished = Rows THEN Append(Completion(1), Eos)
                                ELSE Completion(1)
    BY DEF StreamIsCompletion
  <2>1. TypeOK /\ Where /\ TextInv
    BY DEF StreamInv, TextInv, ReadsInv
  <2>2. /\ Rows = {1} /\ job.lens[1] <= cur /\ cur \in Nat /\ cur <= Total /\ Total \in Nat
        /\ Span = 0..Total - 1
    BY <2>1, OneRow
  <2>3. PICK first \in Nat, total \in Nat :
          first = job.lens[1] /\ total = Total /\ Limit(1) = total
    BY <2>1, <2>2, LimitFacts
  <2>4. /\ emitted \in Seq(Token) /\ Len(emitted) = cur - first
        /\ \A i \in 1..Len(emitted) : emitted[i] = text[1][first + i - 1]
        /\ \A q \in Span : first <= q /\ q < cur /\ text[1][q] = Eos =>
             q = cur - 1 /\ finished = Rows
    BY <2>3 DEF StreamInv, Streamed
  <2>5. CASE finished = Rows
    <3>1. PICK p \in Span : ~InPrompt(1, p) /\ p < cur /\ text[1][p] = Eos
      BY <2>1, <2>2, <2>5 DEF TextInv, Met
    <3>2. p \in Nat /\ first <= p /\ p = cur - 1 /\ p < total
      BY <2>2, <2>3, <2>4, <3>1 DEF InPrompt
    <3>3. \A q \in first..p - 1 : text[1][q] # Eos
      <4>1. \A q \in first..p - 1 : q \in Span /\ first <= q /\ q < cur /\ q # cur - 1
        BY <2>2, <2>3, <3>2
      <4> QED  BY <2>4, <4>1
    <3>4. CutAt(1, p)
      BY <2>3, <3>1, <3>2, <3>3 DEF CutAt
    <3>5. Completion(1) = [i \in 1..p - first |-> text[1][first + i - 1]]
      BY <2>1, <2>2, <2>3, <3>2, <3>4, CompletionIs
    <3>6. PICK k \in Nat : k = p - first
      BY <3>2
    <3>7. PICK c : c = Completion(1)
      OBVIOUS
    <3>8. c = [i \in 1..k |-> text[1][first + i - 1]]
      BY <3>5, <3>6, <3>7
    <3>9. Len(emitted) = k + 1 /\ first + (k + 1) - 1 = p
      <4>1. cur = p + 1 /\ p = first + k
        BY <2>2, <3>2, <3>6
      <4> QED  BY <2>4, <3>2, <4>1
    <3>10. c = [i \in 1..k |-> c[i]] /\ \A i \in 1..k : c[i] = emitted[i]
      BY <2>4, <3>8, <3>9
    <3>11. emitted[k + 1] = Eos
      BY <2>4, <3>1, <3>9
    <3>12. emitted = Append(c, emitted[k + 1])
      BY <2>4, <3>9, <3>10, LastToken
    <3> QED  BY <2>5, <3>7, <3>11, <3>12
  <2>6. CASE finished # Rows
    <3>1. cur = total
      BY <2>1, <2>2, <2>3, <2>6 DEF TextInv, Over
    <3>2. CutAt(1, cur)
      BY <2>2, <2>3, <2>4, <2>6, <3>1 DEF CutAt
    <3>3. Completion(1) = [i \in 1..cur - first |-> text[1][first + i - 1]]
      BY <2>1, <2>2, <2>3, <3>2, CompletionIs
    <3>4. PICK k \in Nat : k = cur - first
      BY <2>2, <2>3
    <3>5. PICK c : c = Completion(1)
      OBVIOUS
    <3>6. c = [i \in 1..k |-> c[i]] /\ \A i \in 1..k : c[i] = emitted[i]
      BY <2>4, <3>3, <3>4, <3>5
    <3>7. emitted = c
      BY <2>4, <3>4, <3>6, SameTokens
    <3> QED  BY <2>6, <3>5, <3>7
  <2> QED  BY <2>5, <2>6
<1> QED  BY <1>1, StreamAlways, PTL

=============================================================================
