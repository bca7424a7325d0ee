------------------------- MODULE MoeResidencyProofs -------------------------
(***************************************************************************)
(* Proofs about MoeResidency, for any number of layers, experts, pinned    *)
(* buffers and blocks of memory, for streams of any length, and for every  *)
(* setting of the process.                                                 *)
(***************************************************************************)
EXTENDS MoeResidency, FiniteSetTheorems, SequenceTheorems, WellFoundedInduction, TLAPS

-----------------------------------------------------------------------------
(***************************************************************************)
(* Numbers and sequences.                                                  *)
(***************************************************************************)
LEMMA LeastFacts ==
  ASSUME NEW S, S \subseteq Nat, S # {}
  PROVE  Least(S) \in S
<1>1. PICK n \in S : \A m \in S : ~(<<m, n>> \in OpToRel(<, Nat))
  BY NatLessThanWellFounded, WFMin
<1>2. \A m \in S : <<m, n>> \in OpToRel(<, Nat) <=> m < n
  BY DEF OpToRel
<1>3. \A m \in S : m \in Nat /\ n \in Nat /\ ~(m < n)
  BY <1>1, <1>2
<1>4. \A m \in S : n <= m
  BY <1>3
<1> QED  BY <1>4 DEF Least

LEMMA Wrap ==
  ASSUME NEW n \in Nat \ {0}, NEW x \in 0..n - 1
  PROVE  x % n = x /\ (x + n) % n = x
<1> DEFINE q == (x + n) \div n
           p == x \div n
<1>1. /\ q \in Int /\ (x + n) % n \in 0..n - 1 /\ x + n = n * q + ((x + n) % n)
      /\ p \in Int /\ x % n \in 0..n - 1 /\ x = n * p + (x % n)
  OBVIOUS
<1> HIDE DEF q, p
<1>2. p = 0
  <2>1. CASE p >= 1
    <3>1. n * p >= n
      BY <1>1, <2>1
    <3> QED  BY <1>1, <3>1
  <2>2. CASE p <= -1
    <3>1. n * p <= -n
      BY <1>1, <2>2
    <3> QED  BY <1>1, <3>1
  <2> QED  BY <1>1, <2>1, <2>2
<1>3. q = 1
  <2>1. CASE q >= 2
    <3>1. n * q >= n * 2
      BY <1>1, <2>1
    <3> QED  BY <1>1, <3>1
  <2>2. CASE q <= 0
    <3>1. n * q <= 0
      BY <1>1, <2>2
    <3> QED  BY <1>1, <3>1
  <2> QED  BY <1>1, <2>1, <2>2
<1> QED  BY <1>1, <1>2, <1>3

LEMMA RemoveAtFacts ==
  ASSUME NEW S, NEW q \in Seq(S), NEW i \in 1..Len(q)
  PROVE  /\ RemoveAt(q, i) \in Seq(S) /\ Len(RemoveAt(q, i)) = Len(q) - 1
         /\ \A j \in 1..Len(q) - 1 :
              RemoveAt(q, i)[j] = IF j < i THEN q[j] ELSE q[j + 1]
<1>1. /\ SubSeq(q, 1, i - 1) \in Seq(S) /\ Len(SubSeq(q, 1, i - 1)) = i - 1
      /\ \A j \in 1..i - 1 : SubSeq(q, 1, i - 1)[j] = q[j]
  <2>1. \A j \in 1..i - 1 : q[j] \in S
    BY ElementOfSeq
  <2>2. /\ SubSeq(q, 1, i - 1) \in Seq(S)
        /\ Len(SubSeq(q, 1, i - 1)) = IF 1 <= i - 1 THEN (i - 1) - 1 + 1 ELSE 0
        /\ \A j \in 1..(i - 1) - 1 + 1 : SubSeq(q, 1, i - 1)[j] = q[1 + j - 1]
    BY <2>1, SubSeqProperties
  <2> QED  BY <2>2
<1>2. /\ SubSeq(q, i + 1, Len(q)) \in Seq(S) /\ Len(SubSeq(q, i + 1, Len(q))) = Len(q) - i
      /\ \A j \in 1..Len(q) - i : SubSeq(q, i + 1, Len(q))[j] = q[i + j]
  <2>1. \A j \in i + 1..Len(q) : q[j] \in S
    BY ElementOfSeq
  <2>2. /\ SubSeq(q, i + 1, Len(q)) \in Seq(S)
        /\ Len(SubSeq(q, i + 1, Len(q))) = IF i + 1 <= Len(q) THEN Len(q) - (i + 1) + 1 ELSE 0
        /\ \A j \in 1..Len(q) - (i + 1) + 1 : SubSeq(q, i + 1, Len(q))[j] = q[i + 1 + j - 1]
    BY <2>1, SubSeqProperties
  <2> QED  BY <2>2
<1> DEFINE a == SubSeq(q, 1, i - 1)
           b == SubSeq(q, i + 1, Len(q))
<1>3. /\ a \o b \in Seq(S) /\ Len(a \o b) = (i - 1) + (Len(q) - i)
      /\ \A j \in 1..(i - 1) + (Len(q) - i) :
           (a \o b)[j] = IF j <= i - 1 THEN a[j] ELSE b[j - (i - 1)]
  <2>1. a \in Seq(S) /\ b \in Seq(S) /\ Len(a) = i - 1 /\ Len(b) = Len(q) - i
    BY <1>1, <1>2
  <2> HIDE DEF a, b
  <2>2. /\ a \o b \in Seq(S) /\ Len(a \o b) = Len(a) + Len(b)
        /\ \A j \in 1..Len(a) + Len(b) :
             (a \o b)[j] = IF j <= Len(a) THEN a[j] ELSE b[j - Len(a)]
    BY <2>1, ConcatProperties
  <2> QED  BY <2>1, <2>2
<1>4. RemoveAt(q, i) = a \o b
  BY DEF RemoveAt
<1> HIDE DEF a, b
<1>5. ASSUME NEW j \in 1..Len(q) - 1
      PROVE  (a \o b)[j] = IF j < i THEN q[j] ELSE q[j + 1]
  <2>1. CASE j < i
    BY <1>1, <1>3, <2>1 DEF a
  <2>2. CASE ~(j < i)
    <3>1. j - (i - 1) \in 1..Len(q) - i /\ i + (j - (i - 1)) = j + 1
      BY <2>2
    <3>2. b[j - (i - 1)] = q[j + 1]
      BY <1>2, <3>1 DEF b
    <3>3. j \in 1..(i - 1) + (Len(q) - i) /\ ~(j <= i - 1)
      BY <2>2
    <3>4. (a \o b)[j] = b[j - (i - 1)]
      BY <1>3, <3>3
    <3> QED  BY <2>2, <3>2, <3>4
  <2> QED  BY <2>1, <2>2
<1> QED  BY <1>3, <1>4, <1>5

\* _cache_lru as a list without duplicates.
Once(q) == \A i, j \in 1..Len(q) : q[i] = q[j] => i = j
Within(q, l) == \E i \in 1..Len(q) : q[i] = l

LEMMA PoppedFacts ==
  ASSUME NEW S, NEW q \in Seq(S), Once(q), NEW l
  PROVE  /\ Popped(q, l) \in Seq(S) /\ Once(Popped(q, l))
         /\ ~Within(Popped(q, l), l)
         /\ \A k \in S : k # l => (Within(Popped(q, l), k) <=> Within(q, k))
         /\ Len(Popped(q, l)) = IF Within(q, l) THEN Len(q) - 1 ELSE Len(q)
         /\ \A i \in 1..Len(q) : q[i] = l /\ i # Len(q) => Popped(q, l)[Len(q) - 1] = q[Len(q)]
<1>1. CASE ~Within(q, l)
  <2>1. Popped(q, l) = q
    BY <1>1 DEF Popped, Within
  <2> QED  BY <1>1, <2>1 DEF Within
<1>2. CASE Within(q, l)
  <2> DEFINE c == CHOOSE i \in DOMAIN q : q[i] = l
             p == RemoveAt(q, c)
  <2>1. c \in 1..Len(q) /\ q[c] = l /\ Popped(q, l) = p /\ Len(q) \in Nat
    BY <1>2 DEF Popped, Within
  <2> HIDE DEF c
  <2>2. /\ p \in Seq(S) /\ Len(p) = Len(q) - 1
        /\ \A j \in 1..Len(q) - 1 : p[j] = IF j < c THEN q[j] ELSE q[j + 1]
    BY <2>1, RemoveAtFacts
  <2> HIDE DEF p
  <2>3. Once(p)
    <3> SUFFICES ASSUME NEW i \in 1..Len(p), NEW j \in 1..Len(p), p[i] = p[j]  PROVE i = j
      BY DEF Once
    <3> DEFINE a == IF i < c THEN i ELSE i + 1
               b == IF j < c THEN j ELSE j + 1
    <3>1. a \in 1..Len(q) /\ b \in 1..Len(q) /\ p[i] = q[a] /\ p[j] = q[b]
      BY <2>1, <2>2
    <3>2. a = b
      BY <3>1 DEF Once
    <3> QED  BY <2>1, <2>2, <3>2
  <2>4. ~Within(p, l)
    <3> SUFFICES ASSUME NEW i \in 1..Len(p), p[i] = l  PROVE FALSE
      BY DEF Within
    <3>1. CASE i < c
      <4>1. i \in 1..Len(q) /\ q[i] = q[c]
        BY <2>1, <2>2, <3>1
      <4> QED  BY <2>1, <3>1, <4>1 DEF Once
    <3>2. CASE ~(i < c)
      <4>1. i + 1 \in 1..Len(q) /\ q[i + 1] = q[c] /\ i + 1 # c
        BY <2>1, <2>2, <3>2
      <4> QED  BY <2>1, <4>1 DEF Once
    <3> QED  BY <3>1, <3>2
  <2>5. ASSUME NEW k \in S, k # l  PROVE Within(p, k) <=> Within(q, k)
    <3>1. ASSUME NEW i \in 1..Len(p), p[i] = k  PROVE Within(q, k)
      <4>1. (i \in 1..Len(q) /\ q[i] = k) \/ (i + 1 \in 1..Len(q) /\ q[i + 1] = k)
        BY <2>1, <2>2, <3>1
      <4> QED  BY <4>1 DEF Within
    <3>2. ASSUME NEW i \in 1..Len(q), q[i] = k  PROVE Within(p, k)
      <4>1. CASE i < c
        <5>1. i \in 1..Len(p) /\ p[i] = k
          BY <2>1, <2>2, <3>2, <4>1
        <5> QED  BY <5>1 DEF Within
      <4>2. CASE ~(i < c)
        <5>1. i # c
          BY <2>1, <2>5, <3>2
        <5>2. i - 1 \in 1..Len(p) /\ p[i - 1] = k
          BY <2>1, <2>2, <3>2, <4>2, <5>1
        <5> QED  BY <5>2 DEF Within
      <4> QED  BY <4>1, <4>2
    <3> QED  BY <3>1, <3>2 DEF Within
  <2>6. ASSUME NEW i \in 1..Len(q), q[i] = l, i # Len(q)  PROVE p[Len(q) - 1] = q[Len(q)]
    <3>1. i = c
      BY <2>1, <2>6 DEF Once
    <3>2. Len(q) - 1 \in 1..Len(q) - 1 /\ ~(Len(q) - 1 < c)
      BY <2>1, <2>6, <3>1
    <3> QED  BY <2>1, <2>2, <3>2
  <2> QED  BY <1>2, <2>1, <2>2, <2>3, <2>4, <2>5, <2>6
<1> QED  BY <1>1, <1>2

LEMMA TouchedFacts ==
  ASSUME NEW S, lru \in Seq(S), Once(lru), NEW l \in S
  PROVE  /\ Touched(l) \in Seq(S) /\ Once(Touched(l))
         /\ \A k \in S : Within(Touched(l), k) <=> (Within(lru, k) \/ k = l)
         /\ Len(Touched(l)) <= Len(lru) + 1
         /\ Touched(l) # <<>> /\ Touched(l)[Len(Touched(l))] = l
<1> DEFINE p == Popped(lru, l)
           t == Append(p, l)
<1>1. /\ p \in Seq(S) /\ Once(p) /\ ~Within(p, l) /\ Len(p) <= Len(lru)
      /\ \A k \in S : k # l => (Within(p, k) <=> Within(lru, k))
  BY PoppedFacts
<1> HIDE DEF p
<1>2. /\ t \in Seq(S) /\ t # <<>> /\ Len(t) = Len(p) + 1 /\ Len(p) \in Nat /\ Len(lru) \in Nat
      /\ \A i \in 1..Len(p) : t[i] = p[i]
      /\ t[Len(p) + 1] = l
  BY <1>1, AppendProperties
<1> HIDE DEF t
<1>3. Once(t)
  <2> SUFFICES ASSUME NEW i \in 1..Len(t), NEW j \in 1..Len(t), t[i] = t[j]  PROVE i = j
    BY DEF Once
  <2>1. CASE i \in 1..Len(p) /\ j \in 1..Len(p)
    BY <1>1, <1>2, <2>1 DEF Once
  <2>2. CASE i \in 1..Len(p) /\ j = Len(p) + 1
    BY <1>1, <1>2, <2>2 DEF Within
  <2>3. CASE i = Len(p) + 1 /\ j \in 1..Len(p)
    BY <1>1, <1>2, <2>3 DEF Within
  <2> QED  BY <1>2, <2>1, <2>2, <2>3
<1>4. ASSUME NEW k \in S  PROVE Within(t, k) <=> (Within(lru, k) \/ k = l)
  <2>1. Within(t, k) <=> (Within(p, k) \/ k = l)
    BY <1>2 DEF Within
  <2> QED  BY <1>1, <2>1
<1>5. Touched(l) = t
  BY DEF Touched, t, p
<1> QED  BY <1>1, <1>2, <1>3, <1>4, <1>5

-----------------------------------------------------------------------------
(***************************************************************************)
(* The inductive invariant.  That no kernel reads too early is not         *)
(* inductive: it rests on the order of kernels and copies in both queues,  *)
(* on what a kernel that is not launched yet will wait for (Awaited), and  *)
(* on the cache of layers: that no two layers have the same memory, that   *)
(* what is staged is only added to while the memory is kept, and that the  *)
(* layer of a forward stays between its stage call and its kernel.         *)
(***************************************************************************)
Calls ==
  {c \in [op : {"stage", "demand", "launch", "release"}, layer : Layers,
          want : SUBSET Experts, fp4 : BOOLEAN, async : BOOLEAN, rows : {"one", "many"}] :
    c.op \in {"demand", "launch"} => (c.fp4 <=> (c.rows = "one" \/ env.direct))}
Waiting == {c \in Calls : c.op # "launch"}
Operations ==
  [id : 1..2 * Depth + 1, after : Nat, kind : {"copy", "kernel"}, block : Blocks,
   experts : SUBSET Experts, whole : BOOLEAN, from : 0..Buffers]
Places == [at : Blocks \cup {NoBlock}, format : Formats]

TypeOK ==
  /\ env \in AllSettings
  /\ phase \in {"prefill", "decode"}
  /\ pass \in [kind : {"none", "long", "short"}, at : Layers]
  /\ todo \in Seq(Calls) /\ (todo # <<>> => Tail(todo) \in Seq(Waiting))
  /\ int8 \in [Layers -> SUBSET Experts]
  /\ storage \in [Layers -> Places]
  /\ staged \in [Layers -> SUBSET Experts]
  /\ label \in [Layers -> Formats]
  /\ event \in [Layers -> Nat] /\ pending \in [Layers -> BOOLEAN]
  /\ lru \in Seq(Layers)
  /\ busy \in [1..Buffers -> Nat] /\ turn \in 1..Buffers
  /\ mainQ \in Seq(Operations) /\ Len(mainQ) <= Depth
  /\ copyQ \in Seq(Operations) /\ Len(copyQ) <= Depth
  /\ broken \in BOOLEAN

\* The layers in _cache_lru are those with memory, and no two have the same.
Listed ==
  /\ \A l \in Layers : storage[l].at # NoBlock <=> \E i \in 1..Len(lru) : lru[i] = l
  /\ \A i, j \in 1..Len(lru) : lru[i] = lru[j] => i = j
  /\ Len(lru) <= env.cached + 1
  /\ \A l \in Layers : storage[l].at = NoBlock => staged[l] = {}
  /\ \A k, l \in Layers : storage[k].at = storage[l].at /\ storage[k].at # NoBlock => k = l

\* What a layer says of the format of its memory.
Noted ==
  /\ env.store = "fp4" /\ ~env.drops =>
       \A l \in Layers : /\ int8[l] = Experts
                         /\ storage[l].at # NoBlock => label[l] = storage[l].format
  /\ env.store # "fp4" =>
       \A l \in Layers : label[l] = "int8" /\ storage[l].format = "int8"
  /\ (broken => env.store = "fp4" /\ env.drops)

\* A forward that is about to launch its kernel.
Launching ==
  todo # <<>> /\ call.op = "launch" =>
    /\ lru # <<>> /\ lru[Len(lru)] = me
    /\ call.want \subseteq staged[me]
    /\ call.rows = "one" \/ env.direct \/ label[me] = "int8" \/ storage[me].format = "int8"

\* Operations have different numbers.
Numbered ==
  /\ \A i, j \in 1..Len(mainQ) : mainQ[i].id = mainQ[j].id => i = j
  /\ \A i, j \in 1..Len(copyQ) : copyQ[i].id = copyQ[j].id => i = j
  /\ \A i \in 1..Len(mainQ), j \in 1..Len(copyQ) : mainQ[i].id # copyQ[j].id

\* A copy keeps the pinned buffer that it reads.
Keeps(o) == o.whole /\ (o.from # 0 => busy[o.from] = o.id)
Intact ==
  /\ \A i \in 1..Len(mainQ) : Keeps(mainQ[i])
  /\ \A i \in 1..Len(copyQ) : Keeps(copyQ[i]) /\ copyQ[i].kind = "copy"

\* A kernel that is queued for memory its layer still has uses staged experts.
Held ==
  \A n \in 1..Len(mainQ), l \in Layers :
    mainQ[n].kind = "kernel" /\ mainQ[n].block = storage[l].at =>
      mainQ[n].experts \subseteq staged[l]

\* One of the first n operations of the current stream waits for copy p or a later one.
Guarded(n, p) == \E m \in 1..n, r \in p..Len(copyQ) : mainQ[m].after = copyQ[r].id
Clash(c, o) == c.kind = "copy" /\ c.block = o.block /\ c.experts \cap o.experts # {}

\* The copies that a kernel needs come before it.
Ordered ==
  \A n \in 1..Len(mainQ) : mainQ[n].kind = "kernel" =>
    /\ \A q \in 1..Len(mainQ) : Clash(mainQ[q], mainQ[n]) => q < n
    /\ \A p \in 1..Len(copyQ) : Clash(copyQ[p], mainQ[n]) => Guarded(n, p)

\* And a kernel that is launched now will wait for the copies into its memory.
Awaited ==
  \A l \in Layers, p \in 1..Len(copyQ) :
    copyQ[p].block = storage[l].at =>
      \/ pending[l] /\ \E r \in p..Len(copyQ) : event[l] = copyQ[r].id
      \/ Guarded(Len(mainQ), p)

CacheInv == TypeOK /\ Listed /\ Noted /\ Launching
StreamInv == Numbered /\ Intact /\ Held /\ Ordered /\ Awaited /\ ~wrong
ResidencyInv == CacheInv /\ StreamInv

-----------------------------------------------------------------------------
(***************************************************************************)
(* The free number, the idle buffer, and the operations on a stream.       *)
(***************************************************************************)
LEMMA FreshFacts ==
  ASSUME ResidencyAssumption, TypeOK
  PROVE  /\ Fresh \in 1..2 * Depth + 1
         /\ \A i \in 1..Len(mainQ) : mainQ[i].id # Fresh
         /\ \A i \in 1..Len(copyQ) : copyQ[i].id # Fresh
<1> DEFINE ids == 1..2 * Depth + 1
           cells == 1..2 * Depth
           Number(c) == IF c <= Depth THEN mainQ[c].id ELSE copyQ[c - Depth].id
           f == [i \in ids |-> CHOOSE c \in cells : Number(c) = i]
           free == {i \in ids : \A o \in Ops : o.id # i}
<1>1. /\ Depth \in Nat /\ Len(mainQ) \in 0..Depth /\ Len(copyQ) \in 0..Depth
      /\ DOMAIN mainQ = 1..Len(mainQ) /\ DOMAIN copyQ = 1..Len(copyQ)
  BY DEF ResidencyAssumption, TypeOK
<1>2. free # {}
  <2> SUFFICES ASSUME free = {}  PROVE FALSE
    OBVIOUS
  <2>1. ASSUME NEW i \in ids  PROVE \E c \in cells : Number(c) = i
    <3>1. PICK o \in Ops : o.id = i
      OBVIOUS
    <3>2. CASE \E k \in 1..Len(mainQ) : o = mainQ[k]
      <4>1. PICK k \in 1..Len(mainQ) : o = mainQ[k]
        BY <3>2
      <4>2. k \in cells /\ k <= Depth
        BY <1>1
      <4> QED  BY <3>1, <4>1, <4>2
    <3>3. CASE \E k \in 1..Len(copyQ) : o = copyQ[k]
      <4>1. PICK k \in 1..Len(copyQ) : o = copyQ[k]
        BY <3>3
      <4>2. Depth + k \in cells /\ ~(Depth + k <= Depth) /\ (Depth + k) - Depth = k
        BY <1>1
      <4> QED  BY <3>1, <4>1, <4>2
    <3> QED  BY <1>1, <3>2, <3>3 DEF Ops
  <2> HIDE DEF Number
  <2>2. f \in [ids -> cells]
    BY <2>1
  <2>3. IsFiniteSet(ids) /\ IsFiniteSet(cells) /\ Cardinality(cells) < Cardinality(ids)
    <3>1. IsFiniteSet(ids) /\ Cardinality(ids) = 2 * Depth + 1
      <4>1. 1 \in Int /\ 2 * Depth + 1 \in Int /\ ~(1 > 2 * Depth + 1)
        BY <1>1
      <4>2. IsFiniteSet(ids) /\ Cardinality(ids) = (2 * Depth + 1) - 1 + 1
        BY <4>1, FS_Interval
      <4> QED  BY <1>1, <4>2
    <3>2. IsFiniteSet(cells) /\ Cardinality(cells) = 2 * Depth
      <4>1. 1 \in Int /\ 2 * Depth \in Int
        BY <1>1
      <4>2. IsFiniteSet(cells) /\ Cardinality(cells) = IF 1 > 2 * Depth THEN 0 ELSE 2 * Depth - 1 + 1
        BY <4>1, FS_Interval
      <4> QED  BY <1>1, <4>2
    <3> QED  BY <1>1, <3>1, <3>2
  <2>4. PICK x \in ids, y \in ids : x # y /\ f[x] = f[y]
    <3> HIDE DEF f, ids, cells
    <3> QED  BY <2>2, <2>3, FS_PigeonHole
  <2>5. Number(f[x]) = x /\ Number(f[y]) = y
    BY <2>1
  <2> QED  BY <2>4, <2>5
<1>3. Fresh \in free
  <2>1. free \subseteq Nat
    BY <1>1
  <2>2. Least(free) \in free
    BY <1>2, <2>1, LeastFacts, Zenon
  <2> QED  BY <2>2 DEF Fresh
<1> QED  BY <1>1, <1>3 DEF Ops

LEMMA IdleFacts ==
  ASSUME ResidencyAssumption, TypeOK, NEW b \in 1..Buffers, busy[b] = 0
  PROVE  Idle \in 1..Buffers /\ busy[Idle] = 0 /\ NextBuffer(Idle) \in 1..Buffers
<1> DEFINE order == [i \in 1..Buffers |-> ((turn + i - 2) % Buffers) + 1]
           idle == {i \in 1..Buffers : busy[order[i]] = 0}
<1>1. Buffers \in Nat \ {0} /\ turn \in 1..Buffers
  BY DEF ResidencyAssumption, TypeOK
<1>2. \E i \in 1..Buffers : order[i] = b
  <2>0. b - 1 \in 0..Buffers - 1
    BY <1>1
  <2>1. (b - 1) % Buffers = b - 1 /\ ((b - 1) + Buffers) % Buffers = b - 1
    BY <1>1, <2>0, Wrap
  <2>2. CASE b >= turn
    <3>1. (b - turn) + 1 \in 1..Buffers /\ turn + ((b - turn) + 1) - 2 = b - 1
      BY <1>1, <2>2
    <3>2. order[(b - turn) + 1] = ((b - 1) % Buffers) + 1
      BY <3>1
    <3> HIDE DEF order
    <3> QED  BY <1>1, <2>1, <3>1, <3>2
  <2>3. CASE b < turn
    <3>1. /\ (b - turn) + 1 + Buffers \in 1..Buffers
          /\ turn + ((b - turn) + 1 + Buffers) - 2 = (b - 1) + Buffers
      BY <1>1, <2>3
    <3>2. order[(b - turn) + 1 + Buffers] = (((b - 1) + Buffers) % Buffers) + 1
      BY <3>1
    <3> HIDE DEF order
    <3> QED  BY <1>1, <2>1, <3>1, <3>2
  <2> QED  BY <1>1, <2>2, <2>3
<1>3. idle # {} /\ idle \subseteq Nat
  <2>1. PICK i \in 1..Buffers : order[i] = b
    BY <1>2
  <2> HIDE DEF order
  <2>2. i \in idle
    BY <2>1
  <2> QED  BY <2>2
<1>4. Least(idle) \in idle
  BY <1>3, LeastFacts, Zenon
<1>5. Idle = order[Least(idle)]
  BY DEF Idle
<1>6. order[Least(idle)] \in 1..Buffers
  <2>1. \A i \in 1..Buffers : (turn + i - 2) % Buffers \in 0..Buffers - 1
    BY <1>1
  <2>2. \A i \in 1..Buffers : ((turn + i - 2) % Buffers) + 1 \in 1..Buffers
    BY <1>1, <2>1
  <2>3. Least(idle) \in 1..Buffers
    BY <1>4
  <2> HIDE DEF idle
  <2> QED  BY <2>2, <2>3
<1>7. \A i \in 1..Buffers : (i % Buffers) + 1 \in 1..Buffers
  BY <1>1
<1> QED  BY <1>4, <1>5, <1>6, <1>7 DEF NextBuffer

-----------------------------------------------------------------------------
(***************************************************************************)
(* The calls of a pass.                                                    *)
(***************************************************************************)
LEMMA CallFacts ==
  ASSUME TypeOK, todo # <<>>
  PROVE  /\ call \in Calls /\ me \in Layers /\ call.want \subseteq Experts
         /\ Tail(todo) \in Seq(Waiting) /\ Tail(todo) \in Seq(Calls)
<1>1. call \in Calls /\ Tail(todo) \in Seq(Calls) /\ Tail(todo) \in Seq(Waiting)
  BY HeadTailProperties DEF TypeOK, call
<1> QED  BY <1>1 DEF Calls, me

LEMMA WaitingFacts ==
  ASSUME NEW s \in Seq(Waiting)
  PROVE  s \in Seq(Calls) /\ (s # <<>> => Tail(s) \in Seq(Waiting) /\ Head(s).op # "launch")
<1>1. Waiting \subseteq Calls
  BY DEF Waiting
<1>2. s \in Seq(Calls)
  BY <1>1, SeqMonotonic
<1>3. s # <<>> => Tail(s) \in Seq(Waiting) /\ Head(s) \in Waiting
  BY HeadTailProperties
<1> QED  BY <1>2, <1>3 DEF Waiting

LEMMA FirstFacts ==
  ASSUME NEW c \in Calls, NEW s \in Seq(Waiting)
  PROVE  /\ <<c>> \o s \in Seq(Calls) /\ <<c>> \o s # <<>>
         /\ Head(<<c>> \o s) = c /\ Tail(<<c>> \o s) \in Seq(Waiting)
<1>1. s \in Seq(Calls)
  BY WaitingFacts
<1> DEFINE u == <<c>> \o s
<1>2. /\ u \in Seq(Calls) /\ Len(u) = 1 + Len(s) /\ Len(s) \in Nat
      /\ \A i \in 1..1 + Len(s) : u[i] = IF i <= 1 THEN c ELSE s[i - 1]
  <2>1. <<c>> \in Seq(Calls) /\ Len(<<c>>) = 1 /\ <<c>>[1] = c
    OBVIOUS
  <2> QED  BY <1>1, <2>1, ConcatProperties
<1> HIDE DEF u
<1>3. u # <<>> /\ Head(u) = c
  BY <1>2
<1>4. Tail(u) = s
  <2>1. /\ Tail(u) \in Seq(Calls) /\ Len(Tail(u)) = Len(s)
        /\ \A i \in 1..Len(s) : Tail(u)[i] = s[i]
    BY <1>2, <1>3, HeadTailProperties
  <2> QED  BY <1>1, <2>1, SeqEqual
<1> QED  BY <1>2, <1>3, <1>4 DEF u

LEMMA Plans ==
  ASSUME ResidencyAssumption, TypeOK, NextLayer \/ EndPrefill
  PROVE  todo' \in Seq(Waiting)
<1>0. N \in Nat \ {0} /\ pass.at \in Layers /\ env.direct \in BOOLEAN
  BY DEF ResidencyAssumption, TypeOK, AllSettings
<1>1. ASSUME NEW l \in Layers, NEW want \in SUBSET Experts, NEW fp4 \in BOOLEAN,
             NEW rows \in {"one", "many"}
      PROVE  /\ Prefetch(l, want, fp4) \in Waiting /\ <<Prefetch(l, want, fp4)>> \in Seq(Waiting)
             /\ Demand(l, want, rows) \in Waiting /\ <<Demand(l, want, rows)>> \in Seq(Waiting)
             /\ Release(l) \in Waiting
  <2>1. Prefetch(l, want, fp4) \in Waiting /\ Release(l) \in Waiting
    BY <1>1 DEF Prefetch, Release, Waiting, Calls
  <2>2. Demand(l, want, rows) \in Waiting
    BY <1>0, <1>1 DEF Demand, Waiting, Calls
  <2> QED  BY <2>1, <2>2
<1>2. \A s, t \in Seq(Waiting) : s \o t \in Seq(Waiting)
  BY ConcatProperties
<1>3. <<>> \in Seq(Waiting)
  OBVIOUS
<1>4. \A l \in Layers : Ahead(l) \in Seq(Waiting)
  <2>1. \A l \in Layers : l < N => l + 1 \in Layers
    BY <1>0 DEF Layers
  <2> QED  BY <1>0, <1>1, <1>3, <2>1 DEF Ahead
<1>5. CASE NextLayer /\ pass.kind = "long"
  <2> DEFINE l == pass.at
             first == IF l = 1 THEN <<Prefetch(1, Experts, env.direct)>> ELSE <<>>
  <2>1. PICK rest \in {<<>>, <<Demand(l, {}, "one")>>} :
          todo' = first \o IF env.early THEN Ahead(l) \o (<<Demand(l, {}, "many")>> \o rest)
                           ELSE (<<Demand(l, {}, "many")>> \o rest) \o Ahead(l)
    BY <1>5 DEF NextLayer, LongLayer
  <2>2. first \in Seq(Waiting)
    BY <1>0, <1>1, <1>3 DEF Layers
  <2>3. rest \in Seq(Waiting) /\ <<Demand(l, {}, "many")>> \in Seq(Waiting)
    BY <1>0, <1>1, <1>3
  <2>4. <<Demand(l, {}, "many")>> \o rest \in Seq(Waiting) /\ Ahead(l) \in Seq(Waiting)
    BY <1>0, <1>2, <1>4, <2>3
  <2>5. /\ Ahead(l) \o (<<Demand(l, {}, "many")>> \o rest) \in Seq(Waiting)
        /\ (<<Demand(l, {}, "many")>> \o rest) \o Ahead(l) \in Seq(Waiting)
    BY <1>2, <2>4
  <2> HIDE DEF first
  <2> QED  BY <1>2, <2>1, <2>2, <2>5
<1>6. CASE NextLayer /\ pass.kind # "long"
  <2> DEFINE l == pass.at
             next(guess) == IF l < N /\ guess # {} THEN <<Prefetch(l + 1, guess, TRUE)>> ELSE <<>>
  <2>1. PICK routes \in Routes, rows \in {"one", "many"}, guess \in SUBSET Experts :
          todo' = <<Prefetch(l, routes, TRUE)>> \o next(guess) \o <<Demand(l, routes, rows)>>
    BY <1>6 DEF NextLayer, ShortLayer
  <2>2. /\ <<Prefetch(l, routes, TRUE)>> \in Seq(Waiting)
        /\ <<Demand(l, routes, rows)>> \in Seq(Waiting)
    BY <1>0, <1>1 DEF Routes
  <2>3. next(guess) \in Seq(Waiting)
    <3>1. l < N => l + 1 \in Layers
      BY <1>0 DEF Layers
    <3> QED  BY <1>1, <1>3, <3>1
  <2> HIDE DEF next
  <2> QED  BY <1>2, <2>1, <2>2, <2>3
<1>7. CASE EndPrefill
  <2>1. todo' = [l \in 1..N |-> Release(l)]
    BY <1>7 DEF EndPrefill, Layers
  <2>2. \A l \in 1..N : Release(l) \in Waiting
    <3>1. {} \in SUBSET Experts /\ TRUE \in BOOLEAN
      OBVIOUS
    <3> QED  BY <1>1, <3>1 DEF Layers
  <2> QED  BY <1>0, <2>1, <2>2
<1> QED  BY <1>5, <1>6, <1>7 DEF NextLayer

LEMMA WantedFacts ==
  ASSUME TypeOK, Staging
  PROVE  /\ call \in Calls /\ me \in Layers /\ call.op \in {"stage", "demand"}
         /\ Asked \subseteq Experts /\ Ids \subseteq Experts /\ Missing \subseteq Experts
         /\ Missing # {} => Asked # {}
         /\ ~There => Asked = call.want /\ Asked # {}
         /\ Staged \in Seq(Calls) /\ (Staged # <<>> => Tail(Staged) \in Seq(Waiting))
         /\ call.op = "stage" /\ Staged # <<>> => Head(Staged).op # "launch"
         /\ call.op = "demand" => Head(Staged) = [call EXCEPT !.op = "launch"]
<1>1. call \in Calls /\ me \in Layers /\ Tail(todo) \in Seq(Waiting) /\ call.want \subseteq Experts
  BY CallFacts DEF Staging, Ready
<1>2. call.op \in {"stage", "demand"} /\ call.want # {}
  BY DEF Staging
<1>3. /\ Asked \subseteq Experts
      /\ ~There => Asked = call.want
  BY <1>1 DEF Asked
<1>4. Ids \subseteq Experts /\ (Ids # {} => Asked # {})
  BY <1>3 DEF Ids
<1>5. Missing \subseteq Ids
  BY DEF Missing
<1>6. CASE call.op = "stage"
  <2>1. Staged = Tail(todo)
    BY <1>6 DEF Staged
  <2> QED  BY <1>1, <1>2, <1>3, <1>4, <1>5, <1>6, <2>1, WaitingFacts
<1>7. CASE call.op = "demand"
  <2>1. [call EXCEPT !.op = "launch"] \in Calls
    BY <1>1, <1>7 DEF Calls
  <2>2. Staged = <<[call EXCEPT !.op = "launch"]>> \o Tail(todo)
    BY <1>7 DEF Staged
  <2> QED  BY <1>1, <1>2, <1>3, <1>4, <1>5, <1>7, <2>1, <2>2, FirstFacts
<1> QED  BY <1>2, <1>6, <1>7

-----------------------------------------------------------------------------
(***************************************************************************)
(* The part of the invariant about the cache of layers.                    *)
(***************************************************************************)
LEMMA ListedOnce ==
  ASSUME TypeOK, Listed
  PROVE  Once(lru) /\ lru \in Seq(Layers) /\ \A l \in Layers : Within(lru, l) <=> storage[l].at # NoBlock
BY DEF TypeOK, Listed, Once, Within

LEMMA InitCache ==
  ASSUME ResidencyAssumption, Init
  PROVE  CacheInv
<1>1. /\ env \in AllSettings /\ N \in Nat \ {0} /\ Buffers \in Nat \ {0} /\ Depth \in Nat \ {0}
      /\ env.cached \in 1..N
  BY DEF Init, ResidencyAssumption, AllSettings
<1>2. TypeOK
  <2>1. /\ phase \in {"prefill", "decode"} /\ 1 \in Layers
        /\ pass \in [kind : {"none", "long", "short"}, at : Layers] /\ broken \in BOOLEAN
    <3>1. 1 \in Layers
      BY <1>1 DEF Layers
    <3>2. phase = "prefill" /\ pass = [kind |-> "none", at |-> 1] /\ broken = FALSE
      BY DEF Init
    <3> QED  BY <3>1, <3>2
  <2>2. /\ todo \in Seq(Calls) /\ todo = <<>> /\ lru \in Seq(Layers)
        /\ mainQ \in Seq(Operations) /\ Len(mainQ) = 0
        /\ copyQ \in Seq(Operations) /\ Len(copyQ) = 0
    BY DEF Init
  <2>3. /\ int8 \in [Layers -> SUBSET Experts] /\ storage \in [Layers -> Places]
        /\ staged \in [Layers -> SUBSET Experts] /\ label \in [Layers -> Formats]
        /\ event \in [Layers -> Nat] /\ pending \in [Layers -> BOOLEAN]
    BY DEF Init, Places, NoStorage, Formats
  <2>4. busy \in [1..Buffers -> Nat] /\ turn \in 1..Buffers
    BY <1>1 DEF Init
  <2> QED  BY <1>1, <2>1, <2>2, <2>3, <2>4 DEF TypeOK
<1>3. Listed
  BY <1>1 DEF Init, Listed, NoStorage
<1>4. Noted
  BY DEF Init, Noted, NoStorage
<1> QED  BY <1>2, <1>3, <1>4 DEF CacheInv, Launching, Init

\* Nothing of the cache changes, and the next calls are not under way.
LEMMA WaitingCache ==
  ASSUME ResidencyAssumption, CacheInv, todo' \in Seq(Waiting),
         phase' \in {"prefill", "decode"}, pass' \in [kind : {"none", "long", "short"}, at : Layers],
         UNCHANGED <<env, int8, gpu, busy, turn, mainQ, copyQ, broken>>
  PROVE  CacheInv'
<1>1. Calls' = Calls /\ Waiting' = Waiting
  BY DEF Calls, Waiting
<1>2. todo' \in Seq(Calls) /\ (todo' # <<>> => Tail(todo') \in Seq(Waiting) /\ call'.op # "launch")
  BY WaitingFacts DEF call
<1>3. TypeOK'
  BY <1>1, <1>2 DEF CacheInv, TypeOK, gpu
<1> QED  BY <1>2, <1>3 DEF CacheInv, Listed, Noted, Launching, gpu

LEMMA SameCalls ==
  ASSUME env' = env
  PROVE  Calls' = Calls /\ Waiting' = Waiting
BY DEF Calls, Waiting

\* release_cache of a layer.
LEMMA DropCache ==
  ASSUME ResidencyAssumption, CacheInv, NEW l \in Layers, Drop(l), env' = env
  PROVE  /\ storage' \in [Layers -> Places] /\ staged' \in [Layers -> SUBSET Experts]
         /\ event' \in [Layers -> Nat] /\ pending' \in [Layers -> BOOLEAN] /\ lru' \in Seq(Layers)
         /\ label' = label
         /\ \A k \in Layers : IF k = l THEN storage'[k] = NoStorage
                              ELSE storage'[k] = storage[k] /\ staged'[k] = staged[k]
         /\ Listed'
         /\ lru # <<>> /\ Head(lru) = l /\ Len(lru) > 1 => lru' # <<>> /\ lru'[Len(lru')] = lru[Len(lru)]
<1>1. /\ lru' = Popped(lru, l) /\ storage' = [storage EXCEPT ![l] = NoStorage]
      /\ staged' = [staged EXCEPT ![l] = {}] /\ event' = [event EXCEPT ![l] = 0]
      /\ pending' = [pending EXCEPT ![l] = FALSE] /\ label' = label
  BY DEF Drop
<1>2. /\ storage \in [Layers -> Places] /\ staged \in [Layers -> SUBSET Experts]
      /\ event \in [Layers -> Nat] /\ pending \in [Layers -> BOOLEAN] /\ lru \in Seq(Layers)
      /\ NoStorage \in Places /\ NoStorage.at = NoBlock
  BY DEF CacheInv, TypeOK, Places, NoStorage, Formats
<1>3. Once(lru) /\ \A k \in Layers : Within(lru, k) <=> storage[k].at # NoBlock
  BY ListedOnce DEF CacheInv
<1>4. /\ lru' \in Seq(Layers) /\ Once(lru') /\ ~Within(lru', l)
      /\ \A k \in Layers : k # l => (Within(lru', k) <=> Within(lru, k))
      /\ Len(lru') = IF Within(lru, l) THEN Len(lru) - 1 ELSE Len(lru)
      /\ \A i \in 1..Len(lru) : lru[i] = l /\ i # Len(lru) => lru'[Len(lru) - 1] = lru[Len(lru)]
  BY <1>1, <1>2, <1>3, PoppedFacts
<1>5. /\ storage' \in [Layers -> Places] /\ staged' \in [Layers -> SUBSET Experts]
      /\ event' \in [Layers -> Nat] /\ pending' \in [Layers -> BOOLEAN]
      /\ \A k \in Layers : IF k = l THEN storage'[k] = NoStorage /\ staged'[k] = {}
                           ELSE storage'[k] = storage[k] /\ staged'[k] = staged[k]
  BY <1>1, <1>2
<1>6. Listed'
  <2>1. \A k \in Layers : storage'[k].at # NoBlock <=> Within(lru', k)
    BY <1>2, <1>3, <1>4, <1>5
  <2>2. Len(lru') <= env.cached + 1
    <3>1. Len(lru') <= Len(lru) /\ Len(lru) \in Nat /\ Len(lru') \in Nat /\ env.cached \in Nat
      <4>1. env.cached \in 1..N /\ N \in Nat
        BY DEF CacheInv, TypeOK, AllSettings, ResidencyAssumption
      <4>2. Len(lru) \in Nat /\ Len(lru') \in Nat
        BY <1>2, <1>4
      <4> QED  BY <1>4, <4>1, <4>2
    <3> QED  BY <3>1 DEF CacheInv, Listed
  <2>3. \A k \in Layers : storage'[k].at = NoBlock => staged'[k] = {}
    BY <1>5 DEF CacheInv, Listed
  <2>4. \A j, k \in Layers : storage'[j].at = storage'[k].at /\ storage'[j].at # NoBlock => j = k
    <3> SUFFICES ASSUME NEW j \in Layers, NEW k \in Layers,
                        storage'[j].at = storage'[k].at, storage'[j].at # NoBlock
                 PROVE  j = k
      OBVIOUS
    <3>1. storage'[j] = storage[j] /\ storage'[k] = storage[k]
      BY <1>2, <1>5
    <3> QED  BY <3>1 DEF CacheInv, Listed
  <2> QED  BY <1>4, <2>1, <2>2, <2>3, <2>4 DEF Listed, Once, Within
<1>7. ASSUME lru # <<>>, Head(lru) = l, Len(lru) > 1
      PROVE  lru' # <<>> /\ lru'[Len(lru')] = lru[Len(lru)]
  <2>1. 1 \in 1..Len(lru) /\ lru[1] = l /\ 1 # Len(lru) /\ Within(lru, l) /\ Len(lru) \in Nat
    <3>1. Len(lru) \in Nat /\ 1 \in 1..Len(lru) /\ 1 # Len(lru)
      <4>1. Len(lru) \in Nat
        BY <1>2
      <4>2. \A n \in Nat : n > 1 => 1 \in 1..n /\ 1 # n
        OBVIOUS
      <4>3. Len(lru) > 1
        BY <1>7
      <4> QED  BY <4>1, <4>2, <4>3, Zenon
    <3>2. lru[1] = l
      BY <1>7
    <3> QED  BY <3>1, <3>2 DEF Within
  <2> QED  BY <1>4, <1>7, <2>1
<1> QED  BY <1>1, <1>4, <1>5, <1>6, <1>7

-----------------------------------------------------------------------------
(***************************************************************************)
(* The operations on the streams.                                          *)
(***************************************************************************)
LEMMA OperationFacts ==
  ASSUME NEW o \in Operations, ResidencyAssumption
  PROVE  /\ o.id \in 1..2 * Depth + 1 /\ o.id \in Nat /\ o.id # 0 /\ o.after \in Nat
         /\ o.kind \in {"copy", "kernel"} /\ o.block \in Blocks /\ o.block # NoBlock
         /\ o.experts \subseteq Experts /\ o.from \in 0..Buffers
<1>1. Depth \in Nat /\ NoBlock \notin Blocks
  BY DEF ResidencyAssumption
<1>2. /\ o.id \in 1..2 * Depth + 1 /\ o.after \in Nat
      /\ o.kind \in {"copy", "kernel"} /\ o.block \in Blocks
      /\ o.experts \in SUBSET Experts /\ o.from \in 0..Buffers
  BY DEF Operations
<1>3. \A n \in 1..2 * Depth + 1 : n \in Nat /\ n # 0
  BY <1>1
<1> QED  BY <1>1, <1>2, <1>3

LEMMA QueueFacts ==
  ASSUME TypeOK
  PROVE  /\ Len(mainQ) \in Nat /\ \A i \in 1..Len(mainQ) : mainQ[i] \in Operations
         /\ Len(copyQ) \in Nat /\ \A i \in 1..Len(copyQ) : copyQ[i] \in Operations
         /\ DOMAIN mainQ = 1..Len(mainQ) /\ DOMAIN copyQ = 1..Len(copyQ)
<1>1. mainQ \in Seq(Operations) /\ copyQ \in Seq(Operations)
  BY DEF TypeOK
<1> QED  BY <1>1, ElementOfSeq

\* An operation as it is after operation i has run.
Later(o, i) == [o EXCEPT !.after = IF o.after = i THEN 0 ELSE @]

LEMMA LaterFacts ==
  ASSUME NEW o \in Operations, NEW i
  PROVE  /\ Later(o, i) \in Operations
         /\ Later(o, i).id = o.id /\ Later(o, i).kind = o.kind /\ Later(o, i).block = o.block
         /\ Later(o, i).experts = o.experts /\ Later(o, i).whole = o.whole
         /\ Later(o, i).from = o.from
         /\ Later(o, i).after = IF o.after = i THEN 0 ELSE o.after
BY DEF Later, Operations

LEMMA PastFacts ==
  ASSUME NEW q \in Seq(Operations), NEW i
  PROVE  /\ Past(q, i) \in Seq(Operations) /\ Len(Past(q, i)) = Len(q)
         /\ \A n \in 1..Len(q) : Past(q, i)[n] = Later(q[n], i)
<1>1. DOMAIN q = 1..Len(q) /\ Len(q) \in Nat /\ \A n \in 1..Len(q) : q[n] \in Operations
  BY ElementOfSeq
<1> DEFINE step(n) == IF q[n].after = i THEN [q[n] EXCEPT !.after = 0] ELSE q[n]
<1>2. ASSUME NEW n \in 1..Len(q)  PROVE step(n) = Later(q[n], i)
  <2>1. q[n] \in Operations
    BY <1>1
  <2>2. CASE q[n].after = i
    BY <2>2 DEF Later
  <2>3. CASE q[n].after # i
    <3>1. [q[n] EXCEPT !.after = q[n].after] = q[n]
      BY <2>1 DEF Operations
    <3> QED  BY <2>3, <3>1 DEF Later
  <2> QED  BY <2>2, <2>3
<1>3. Past(q, i) = [n \in 1..Len(q) |-> Later(q[n], i)]
  BY <1>1, <1>2 DEF Past
<1>4. \A n \in 1..Len(q) : Later(q[n], i) \in Operations
  BY <1>1, LaterFacts
<1> QED  BY <1>1, <1>3, <1>4

LEMMA NoTear ==
  ASSUME NEW q \in Seq(Operations), NEW b, \A n \in 1..Len(q) : b = 0 \/ q[n].from # b
  PROVE  Torn(q, b) = q
BY DEF Torn

LEMMA NumberIsNew ==
  ASSUME ResidencyAssumption, TypeOK
  PROVE  Fresh \in Nat /\ Fresh # 0
<1>1. Fresh \in 1..2 * Depth + 1 /\ Depth \in Nat
  BY FreshFacts DEF ResidencyAssumption
<1>2. \A n \in 1..2 * Depth + 1 : n \in Nat /\ n # 0
  BY <1>1
<1> QED  BY <1>1, <1>2

\* What Stage does to the streams and to the pinned buffers.
StageEffect(b, o) ==
  /\ b \in Blocks /\ b # NoBlock
  /\ IF There THEN b = storage[me].at ELSE b \in Free
  /\ storage' = [storage EXCEPT ![me] = [at |-> b, format |-> Format]]
  /\ o \in Operations /\ o.id = Fresh /\ o.kind = "copy" /\ o.block = b
  /\ o.experts = Missing /\ o.whole
  /\ o.from # 0 => busy[o.from] = 0 /\ busy'[o.from] = Fresh
  /\ \A x \in 1..Buffers : busy[x] # 0 => busy'[x] = busy[x]
  /\ busy' \in [1..Buffers -> Nat] /\ turn' \in 1..Buffers
  /\ \/ mainQ' = mainQ /\ copyQ' = Append(copyQ, o) /\ Len(copyQ) < Depth
     \/ copyQ' = copyQ /\ mainQ' = Append(mainQ, o) /\ Len(mainQ) < Depth

LEMMA StageFacts ==
  ASSUME ResidencyAssumption, CacheInv, Intact, Stage
  PROVE  \E b, o : StageEffect(b, o)
<1>1. /\ TypeOK /\ Staging /\ me \in Layers /\ Missing \subseteq Experts
      /\ NoBlock \notin Blocks /\ Fresh \in 1..2 * Depth + 1 /\ Fresh \in Nat /\ Fresh # 0
  BY WantedFacts, FreshFacts, NumberIsNew DEF CacheInv, Stage, ResidencyAssumption
<1> DEFINE from == IF Source = "workspace" THEN Idle ELSE 0
           o(b) == [id |-> Fresh, after |-> IF call.async THEN LastOn(mainQ) ELSE 0,
                    kind |-> "copy", block |-> b, experts |-> Missing, whole |-> TRUE,
                    from |-> from]
<1>2. PICK b \in IF There THEN {storage[me].at} ELSE Free :
        /\ storage' = [storage EXCEPT ![me] = [at |-> b, format |-> Format]]
        /\ Enqueue(o(b))
  BY DEF Stage
<1>3. b \in Blocks /\ b # NoBlock /\ (IF There THEN b = storage[me].at ELSE b \in Free)
  <2>1. CASE There
    <3>1. b = storage[me].at /\ storage[me] \in Places /\ storage[me].at # NoBlock
      BY <1>1, <1>2, <2>1 DEF There, TypeOK
    <3> QED  BY <2>1, <3>1 DEF Places
  <2>2. CASE ~There
    BY <1>1, <1>2, <2>2 DEF Free
  <2> QED  BY <2>1, <2>2
<1>4. /\ from \in 0..Buffers /\ (from # 0 => busy[from] = 0 /\ busy'[from] = Fresh)
      /\ \A x \in 1..Buffers : busy[x] # 0 => busy'[x] = busy[x]
      /\ busy' \in [1..Buffers -> Nat] /\ turn' \in 1..Buffers
  <2>0. Buffers \in Nat \ {0} /\ busy \in [1..Buffers -> Nat] /\ turn \in 1..Buffers
    BY <1>1 DEF TypeOK, ResidencyAssumption
  <2>1. CASE Source = "workspace"
    <3>1. /\ \E x \in 1..Buffers : busy[x] = 0
          /\ busy' = [busy EXCEPT ![Idle] = Fresh] /\ turn' = NextBuffer(Idle)
      BY <2>1 DEF Stage
    <3>2. Idle \in 1..Buffers /\ busy[Idle] = 0 /\ NextBuffer(Idle) \in 1..Buffers
      BY <1>1, <3>1, IdleFacts
    <3>3. from = Idle
      BY <2>1
    <3> HIDE DEF from
    <3> QED  BY <1>1, <2>0, <3>1, <3>2, <3>3
  <2>2. CASE Source # "workspace"
    <3>1. busy' = busy /\ turn' = turn
      BY <2>2 DEF Stage
    <3>2. from = 0
      BY <2>2
    <3> HIDE DEF from
    <3> QED  BY <2>0, <3>1, <3>2
  <2> QED  BY <2>1, <2>2
<1> HIDE DEF from
<1>5. LastOn(mainQ) \in Nat
  <2>1. CASE mainQ = <<>>
    BY <2>1 DEF LastOn
  <2>2. CASE mainQ # <<>>
    <3>1. mainQ[Len(mainQ)] \in Operations
      <4>1. mainQ \in Seq(Operations)
        BY <1>1 DEF TypeOK
      <4>2. Len(mainQ) \in 1..Len(mainQ)
        BY <2>2, <4>1
      <4> QED  BY <4>1, <4>2, ElementOfSeq
    <3>2. LastOn(mainQ) = mainQ[Len(mainQ)].id
      BY <2>2 DEF LastOn
    <3> QED  BY <3>1, <3>2, OperationFacts
  <2> QED  BY <2>1, <2>2
<1>6. /\ o(b) \in Operations /\ o(b).id = Fresh /\ o(b).kind = "copy" /\ o(b).block = b
      /\ o(b).experts = Missing /\ o(b).whole /\ o(b).from = from
  BY <1>1, <1>3, <1>4, <1>5 DEF Operations
<1> HIDE DEF o
<1>7. Torn(copyQ, from) = copyQ /\ Torn(mainQ, from) = mainQ
  <2>1. copyQ \in Seq(Operations) /\ mainQ \in Seq(Operations)
    BY <1>1 DEF TypeOK
  <2>2. ASSUME NEW n \in 1..Len(copyQ), from # 0  PROVE copyQ[n].from # from
    <3>1. copyQ[n].id # 0 /\ Keeps(copyQ[n])
      BY <2>1, ElementOfSeq, OperationFacts DEF Intact
    <3> QED  BY <1>4, <2>2, <3>1 DEF Keeps
  <2>3. ASSUME NEW n \in 1..Len(mainQ), from # 0  PROVE mainQ[n].from # from
    <3>1. mainQ[n].id # 0 /\ Keeps(mainQ[n])
      BY <2>1, ElementOfSeq, OperationFacts DEF Intact
    <3> QED  BY <1>4, <2>3, <3>1 DEF Keeps
  <2> QED  BY <2>1, <2>2, <2>3, NoTear
<1>8. \/ mainQ' = mainQ /\ copyQ' = Append(copyQ, o(b)) /\ Len(copyQ) < Depth
      \/ copyQ' = copyQ /\ mainQ' = Append(mainQ, o(b)) /\ Len(mainQ) < Depth
  <2>1. copyQ \in Seq(Operations) /\ mainQ \in Seq(Operations)
    BY <1>1 DEF TypeOK
  <2>2. /\ copyQ \o <<>> = copyQ /\ copyQ \o <<o(b)>> = Append(copyQ, o(b))
        /\ mainQ \o <<>> = mainQ /\ mainQ \o <<o(b)>> = Append(mainQ, o(b))
    BY <1>6, <2>1, ConcatEmptySeq, AppendIsConcat
  <2> QED  BY <1>2, <1>6, <1>7, <2>2 DEF Enqueue
<1> QED  BY <1>2, <1>3, <1>4, <1>6, <1>8 DEF StageEffect

-----------------------------------------------------------------------------
(***************************************************************************)
(* Every step keeps the cache part.                                        *)
(***************************************************************************)
LEMMA QueueAppend ==
  ASSUME NEW q \in Seq(Operations), Len(q) < Depth, Depth \in Nat, NEW o \in Operations
  PROVE  Append(q, o) \in Seq(Operations) /\ Len(Append(q, o)) <= Depth
BY AppendProperties

LEMMA DropNoted ==
  ASSUME Noted, env' = env, broken' = broken, label' = label, ~env.drops => int8' = int8,
         \A k \in Layers : storage'[k] = NoStorage \/ storage'[k] = storage[k]
  PROVE  Noted'
<1>1. NoStorage.at = NoBlock /\ NoStorage.format = "int8"
  BY DEF NoStorage
<1>2. ASSUME env.store = "fp4", ~env.drops, NEW l \in Layers
      PROVE  int8'[l] = Experts /\ (storage'[l].at # NoBlock => label'[l] = storage'[l].format)
  BY <1>1, <1>2 DEF Noted
<1>3. ASSUME env.store # "fp4", NEW l \in Layers
      PROVE  label'[l] = "int8" /\ storage'[l].format = "int8"
  BY <1>1, <1>3 DEF Noted
<1>4. broken' => env.store = "fp4" /\ env.drops
  BY DEF Noted
<1> QED  BY <1>2, <1>3, <1>4 DEF Noted

LEMMA ReleaseCacheCache ==
  ASSUME ResidencyAssumption, CacheInv, ReleaseCache
  PROVE  CacheInv'
<1>1. /\ todo # <<>> /\ call.op = "release" /\ Drop(me) /\ todo' = Tail(todo) /\ env' = env
      /\ int8' = IF env.drops THEN [int8 EXCEPT ![me] = {}] ELSE int8
      /\ UNCHANGED <<phase, pass, busy, turn, mainQ, copyQ, broken>>
  BY DEF ReleaseCache, Ready, streams
<1>2. TypeOK /\ me \in Layers /\ Tail(todo) \in Seq(Waiting)
  BY <1>1, CallFacts DEF CacheInv
<1>3. /\ storage' \in [Layers -> Places] /\ staged' \in [Layers -> SUBSET Experts]
      /\ event' \in [Layers -> Nat] /\ pending' \in [Layers -> BOOLEAN] /\ lru' \in Seq(Layers)
      /\ label' = label /\ Listed'
      /\ \A k \in Layers : storage'[k] = NoStorage \/ storage'[k] = storage[k]
  BY <1>1, <1>2, DropCache
<1>4. Calls' = Calls /\ Waiting' = Waiting
  BY <1>1, SameCalls
<1>5. todo' \in Seq(Calls) /\ (todo' # <<>> => Tail(todo') \in Seq(Waiting) /\ call'.op # "launch")
  BY <1>1, <1>2, WaitingFacts DEF call
<1>6. int8' \in [Layers -> SUBSET Experts] /\ (~env.drops => int8' = int8)
  BY <1>1, <1>2 DEF TypeOK
<1>7. TypeOK'
  BY <1>1, <1>2, <1>3, <1>4, <1>5, <1>6 DEF TypeOK
<1>8. Noted'
  BY <1>1, <1>3, <1>6, DropNoted DEF CacheInv
<1> QED  BY <1>3, <1>5, <1>7, <1>8 DEF CacheInv, Launching

LEMMA DropUnwantedCache ==
  ASSUME ResidencyAssumption, CacheInv, DropUnwanted
  PROVE  CacheInv'
<1>1. /\ Staging /\ Drop(me)
      /\ UNCHANGED <<env, phase, pass, todo, int8, busy, turn, mainQ, copyQ, broken>>
  BY DEF DropUnwanted, cpu, streams
<1>2. TypeOK /\ me \in Layers /\ call.op # "launch"
  BY <1>1, WantedFacts DEF CacheInv
<1>3. /\ storage' \in [Layers -> Places] /\ staged' \in [Layers -> SUBSET Experts]
      /\ event' \in [Layers -> Nat] /\ pending' \in [Layers -> BOOLEAN] /\ lru' \in Seq(Layers)
      /\ label' = label /\ Listed'
      /\ \A k \in Layers : storage'[k] = NoStorage \/ storage'[k] = storage[k]
  BY <1>1, <1>2, DropCache
<1>4. Calls' = Calls /\ Waiting' = Waiting
  BY <1>1, SameCalls
<1>5. TypeOK'
  BY <1>1, <1>2, <1>3, <1>4 DEF TypeOK
<1>6. Noted'
  BY <1>1, <1>3, DropNoted DEF CacheInv
<1>7. Launching'
  BY <1>1, <1>2 DEF Launching, call
<1> QED  BY <1>3, <1>5, <1>6, <1>7 DEF CacheInv

LEMMA EvictCache ==
  ASSUME ResidencyAssumption, CacheInv, Evict
  PROVE  CacheInv'
<1>1. /\ Len(lru) > env.cached /\ Drop(Head(lru))
      /\ UNCHANGED <<env, phase, pass, todo, int8, busy, turn, mainQ, copyQ, broken>>
  BY DEF Evict, cpu, streams
<1>2. TypeOK /\ Len(lru) > 1 /\ lru # <<>> /\ Head(lru) \in Layers
  <2>1. lru \in Seq(Layers) /\ env.cached \in 1..N /\ N \in Nat
    BY DEF CacheInv, TypeOK, AllSettings, ResidencyAssumption
  <2>2. \A n \in Nat, c \in 1..N : n > c => n > 1
    BY <2>1
  <2>3. Len(lru) > 1
    BY <1>1, <2>1, <2>2
  <2>4. lru # <<>>
    BY <2>1, <2>3
  <2> QED  BY <2>1, <2>3, <2>4 DEF CacheInv
<1>3. /\ storage' \in [Layers -> Places] /\ staged' \in [Layers -> SUBSET Experts]
      /\ event' \in [Layers -> Nat] /\ pending' \in [Layers -> BOOLEAN] /\ lru' \in Seq(Layers)
      /\ label' = label /\ Listed'
      /\ \A k \in Layers : IF k = Head(lru) THEN storage'[k] = NoStorage
                           ELSE storage'[k] = storage[k] /\ staged'[k] = staged[k]
      /\ lru' # <<>> /\ lru'[Len(lru')] = lru[Len(lru)]
  BY <1>1, <1>2, DropCache
<1>4. Calls' = Calls /\ Waiting' = Waiting
  BY <1>1, SameCalls
<1>5. TypeOK'
  BY <1>1, <1>2, <1>3, <1>4 DEF TypeOK
<1>6. Noted'
  BY <1>1, <1>3, DropNoted DEF CacheInv
<1>7. Launching'
  <2> SUFFICES ASSUME todo # <<>>, call.op = "launch"
               PROVE  /\ lru' # <<>> /\ lru'[Len(lru')] = me
                      /\ call.want \subseteq staged'[me]
                      /\ \/ call.rows = "one" \/ env.direct \/ label'[me] = "int8"
                         \/ storage'[me].format = "int8"
    BY <1>1 DEF Launching, call, me
  <2>1. /\ lru[Len(lru)] = me /\ call.want \subseteq staged[me] /\ me \in Layers
        /\ call.rows = "one" \/ env.direct \/ label[me] = "int8" \/ storage[me].format = "int8"
    BY <1>2, CallFacts DEF CacheInv, Launching
  <2>2. me # Head(lru)
    <3>1. Len(lru) \in 1..Len(lru) /\ 1 \in 1..Len(lru) /\ Len(lru) # 1
      <4>1. Len(lru) \in Nat
        BY <1>2 DEF TypeOK
      <4>2. \A n \in Nat : n > 1 => n \in 1..n /\ 1 \in 1..n /\ n # 1
        OBVIOUS
      <4> QED  BY <1>2, <4>1, <4>2, Zenon
    <3>2. lru[Len(lru)] # lru[1]
      BY <3>1 DEF CacheInv, Listed
    <3> QED  BY <2>1, <3>2
  <2> QED  BY <1>3, <2>1, <2>2
<1> QED  BY <1>3, <1>5, <1>6, <1>7 DEF CacheInv

\* _touch_cache of a layer that has memory, or gets it.
LEMMA TouchCache ==
  ASSUME ResidencyAssumption, CacheInv, NEW l \in Layers, Len(lru) <= env.cached,
         lru' = Touched(l), env' = env, storage' \in [Layers -> Places],
         staged' \in [Layers -> SUBSET Experts],
         \A k \in Layers : k # l => storage'[k] = storage[k] /\ staged'[k] = staged[k],
         storage'[l].at # NoBlock,
         storage'[l].at = storage[l].at \/ (\A k \in Layers : storage[k].at # storage'[l].at)
  PROVE  Listed' /\ lru' \in Seq(Layers) /\ lru' # <<>> /\ lru'[Len(lru')] = l
<1>1. Once(lru) /\ lru \in Seq(Layers) /\ \A k \in Layers : Within(lru, k) <=> storage[k].at # NoBlock
  BY ListedOnce DEF CacheInv
<1>2. /\ lru' \in Seq(Layers) /\ Once(lru')
      /\ \A k \in Layers : Within(lru', k) <=> (Within(lru, k) \/ k = l)
      /\ Len(lru') <= Len(lru) + 1 /\ lru' # <<>> /\ lru'[Len(lru')] = l
  BY <1>1, TouchedFacts
<1>3. \A k \in Layers : storage'[k].at # NoBlock <=> Within(lru', k)
  BY <1>1, <1>2
<1>4. Len(lru') <= env.cached + 1
  <2>1. Len(lru) \in Nat /\ Len(lru') \in Nat
    BY <1>1, <1>2
  <2>2. env.cached \in 1..N /\ N \in Nat
    BY DEF CacheInv, TypeOK, AllSettings, ResidencyAssumption
  <2> QED  BY <1>2, <2>1, <2>2
<1>5. \A k \in Layers : storage'[k].at = NoBlock => staged'[k] = {}
  BY DEF CacheInv, Listed
<1>6. \A j, k \in Layers : storage'[j].at = storage'[k].at /\ storage'[j].at # NoBlock => j = k
  BY DEF CacheInv, Listed
<1> QED  BY <1>2, <1>3, <1>4, <1>5, <1>6 DEF Listed, Once, Within

LEMMA AskedFacts ==
  ASSUME ResidencyAssumption, CacheInv, Staging
  PROVE  /\ \A S \in SUBSET Experts : staged[me] \subseteq S /\ Ids \subseteq S => call.want \subseteq S
         /\ Missing = {} => There
         /\ Missing # {} /\ ~Unwanted /\ env.store # "fp4" => Format = "int8"
         /\ Missing # {} /\ ~Unwanted /\ ~call.fp4 => Format = "int8"
<1>1. /\ me \in Layers /\ call \in Calls /\ Asked \subseteq Experts /\ call.want # {}
      /\ ~There => Asked = call.want
  BY WantedFacts DEF CacheInv, Staging
<1>2. Asked \subseteq Ids
  BY <1>1 DEF Ids
<1>3. ASSUME NEW S \in SUBSET Experts, staged[me] \subseteq S, Ids \subseteq S
      PROVE  call.want \subseteq S
  <2>1. call.want \subseteq Asked \cup staged[me]
    BY DEF Asked
  <2> QED  BY <1>2, <1>3, <2>1
<1>4. ASSUME Missing = {}  PROVE There
  <2> SUFFICES ASSUME ~There  PROVE FALSE
    OBVIOUS
  <2>1. staged[me] = {}
    BY <1>1 DEF There, CacheInv, Listed
  <2> QED  BY <1>1, <1>2, <1>4, <2>1 DEF Missing
<1>5. env.store # "fp4" \/ ~call.fp4 => Source # "fp4 arena"
  <2>1. env.store # "fp4" => Source # "fp4 arena"
    BY DEF Source
  <2>2. ~call.fp4 => Source # "fp4 arena"
    BY DEF Source
  <2> QED  BY <2>1, <2>2
<1> QED  BY <1>3, <1>4, <1>5 DEF Format

\* The format of the memory as forward will find it.
LEMMA ForwardFormat ==
  ASSUME ResidencyAssumption, CacheInv, Staging, ~Unwanted, call.op = "demand",
         call.rows # "one", ~env.direct
  PROVE  ~call.fp4 /\ (There => label[me] = "int8")
<1>1. call \in Calls /\ call.want # {} /\ (~There => Asked # {}) /\ call.rows = "many"
  <2>1. call \in Calls
    BY WantedFacts DEF CacheInv
  <2> QED  BY <2>1, WantedFacts DEF CacheInv, Staging, Calls
<1>2. ~call.fp4
  BY <1>1 DEF Calls
<1>3. ASSUME There, label[me] # "int8"  PROVE FALSE
  <2>1. Asked = call.want
    BY <1>1, <1>3 DEF Asked
  <2> QED  BY <1>1, <1>2, <1>3, <2>1 DEF Unwanted
<1> QED  BY <1>2, <1>3

LEMMA RouteCache ==
  ASSUME ResidencyAssumption, CacheInv, Route
  PROVE  CacheInv'
<1>1. /\ todo # <<>> /\ call.op = "demand" /\ env' = env
      /\ UNCHANGED <<phase, pass, int8, storage, staged, label, event, pending, lru,
                     busy, turn, mainQ, copyQ, broken>>
  BY DEF Route, Ready, cpu, gpu, streams
<1>2. PICK routes \in Routes : todo' = <<[call EXCEPT !.want = routes]>> \o Tail(todo)
  BY DEF Route
<1>3. TypeOK /\ call \in Calls /\ Tail(todo) \in Seq(Waiting)
  BY <1>1, CallFacts DEF CacheInv
<1>4. [call EXCEPT !.want = routes] \in Calls /\ [call EXCEPT !.want = routes].op = "demand"
  BY <1>1, <1>2, <1>3 DEF Calls, Routes
<1>5. /\ todo' \in Seq(Calls) /\ Tail(todo') \in Seq(Waiting)
      /\ call' = [call EXCEPT !.want = routes]
  BY <1>2, <1>3, <1>4, FirstFacts DEF call
<1>6. Calls' = Calls /\ Waiting' = Waiting
  BY <1>1, SameCalls
<1>7. TypeOK'
  BY <1>1, <1>3, <1>5, <1>6 DEF TypeOK
<1>8. Listed' /\ Noted'
  BY <1>1 DEF CacheInv, Listed, Noted
<1>9. call'.op # "launch"
  BY <1>4, <1>5
<1> QED  BY <1>7, <1>8, <1>9 DEF CacheInv, Launching

LEMMA NothingMissingCache ==
  ASSUME ResidencyAssumption, CacheInv, NothingMissing
  PROVE  CacheInv'
<1>1. /\ Staging /\ ~Unwanted /\ Missing = {} /\ lru' = Touched(me) /\ todo' = Staged
      /\ env' = env
      /\ UNCHANGED <<phase, pass, int8, storage, staged, label, event, pending,
                     busy, turn, mainQ, copyQ, broken>>
  BY DEF NothingMissing, cpu, streams
<1>2. TypeOK /\ There /\ me \in Layers /\ Len(lru) <= env.cached
  BY <1>1, WantedFacts, AskedFacts DEF CacheInv, Staging, Ready
<1>3. Listed' /\ lru' \in Seq(Layers) /\ lru' # <<>> /\ lru'[Len(lru')] = me
  <2>1. storage' \in [Layers -> Places] /\ staged' \in [Layers -> SUBSET Experts]
    BY <1>1, <1>2 DEF TypeOK
  <2> QED  BY <1>1, <1>2, <2>1, TouchCache DEF There
<1>4. Calls' = Calls /\ Waiting' = Waiting
  BY <1>1, SameCalls
<1>5. todo' \in Seq(Calls) /\ (todo' # <<>> => Tail(todo') \in Seq(Waiting))
  BY <1>1, <1>2, WantedFacts
<1>6. TypeOK'
  BY <1>1, <1>2, <1>3, <1>4, <1>5 DEF TypeOK
<1>7. Noted'
  BY <1>1 DEF CacheInv, Noted
<1>8. Launching'
  <2> SUFFICES ASSUME todo' # <<>>, call'.op = "launch"
               PROVE  /\ lru'[Len(lru')] = me' /\ call'.want \subseteq staged[me']
                      /\ call'.rows = "one" \/ env.direct \/ label[me'] = "int8"
    BY <1>1, <1>3 DEF Launching
  <2>1. call.op = "demand" /\ call' = [call EXCEPT !.op = "launch"] /\ call \in Calls
    BY <1>1, <1>2, WantedFacts DEF call
  <2>2. me' = me /\ call'.want = call.want /\ call'.rows = call.rows
    BY <2>1 DEF me, Calls
  <2>3. call.want \subseteq staged[me]
    <3>1. staged[me] \in SUBSET Experts /\ Ids \subseteq staged[me]
      BY <1>1, <1>2 DEF TypeOK, Missing
    <3> QED  BY <1>1, <3>1, AskedFacts
  <2>4. call.rows = "one" \/ env.direct \/ label[me] = "int8"
    BY <1>1, <1>2, <2>1, ForwardFormat
  <2> QED  BY <1>3, <2>2, <2>3, <2>4
<1> QED  BY <1>3, <1>6, <1>7, <1>8 DEF CacheInv

LEMMA StageCache ==
  ASSUME ResidencyAssumption, CacheInv, Intact, Stage
  PROVE  CacheInv'
<1>1. /\ Staging /\ ~Unwanted /\ Missing # {} /\ lru' = Touched(me) /\ todo' = Staged
      /\ env' = env /\ label' = Labelled
      /\ staged' = [staged EXCEPT ![me] = @ \cup Missing]
      /\ event' = [event EXCEPT ![me] = Fresh] /\ pending' = [pending EXCEPT ![me] = TRUE]
      /\ int8' = IF Format = "int8" THEN [int8 EXCEPT ![me] = @ \cup Missing] ELSE int8
      /\ UNCHANGED <<phase, pass, broken>>
  BY DEF Stage
<1>2. PICK b, o : StageEffect(b, o)
  BY StageFacts
<1>3. /\ TypeOK /\ me \in Layers /\ Len(lru) <= env.cached /\ Missing \subseteq Experts
      /\ Format \in Formats /\ Fresh \in Nat
  BY <1>1, WantedFacts, NumberIsNew DEF CacheInv, Staging, Ready, Format, Formats
<1>4. /\ storage' = [storage EXCEPT ![me] = [at |-> b, format |-> Format]]
      /\ b \in Blocks /\ b # NoBlock
      /\ storage[me].at = b \/ \A k \in Layers : storage[k].at # b
  BY <1>2 DEF StageEffect, Free
<1>5. /\ storage' \in [Layers -> Places] /\ staged' \in [Layers -> SUBSET Experts]
      /\ storage'[me].at = b /\ storage'[me].format = Format
      /\ staged'[me] = staged[me] \cup Missing
      /\ \A k \in Layers : k # me => storage'[k] = storage[k] /\ staged'[k] = staged[k]
  BY <1>1, <1>3, <1>4 DEF TypeOK, Places
<1>6. Listed' /\ lru' \in Seq(Layers) /\ lru' # <<>> /\ lru'[Len(lru')] = me
  BY <1>1, <1>3, <1>4, <1>5, TouchCache
<1>7. Calls' = Calls /\ Waiting' = Waiting
  BY <1>1, SameCalls
<1>8. todo' \in Seq(Calls) /\ (todo' # <<>> => Tail(todo') \in Seq(Waiting))
  BY <1>1, <1>3, WantedFacts
<1>9. /\ label' \in [Layers -> Formats] /\ int8' \in [Layers -> SUBSET Experts]
      /\ label'[me] = (IF Source \in {"fp4 arena", "int8 arena"} THEN Format ELSE label[me])
      /\ int8'[me] = int8[me] \/ int8'[me] = int8[me] \cup Missing
      /\ \A k \in Layers : k # me => label'[k] = label[k] /\ int8'[k] = int8[k]
  BY <1>1, <1>3 DEF TypeOK, Labelled
<1>10. /\ mainQ' \in Seq(Operations) /\ Len(mainQ') <= Depth
       /\ copyQ' \in Seq(Operations) /\ Len(copyQ') <= Depth
  <2>1. /\ mainQ \in Seq(Operations) /\ Len(mainQ) <= Depth
        /\ copyQ \in Seq(Operations) /\ Len(copyQ) <= Depth
        /\ o \in Operations /\ Depth \in Nat
    BY <1>2, <1>3 DEF StageEffect, TypeOK, ResidencyAssumption
  <2>2. CASE mainQ' = mainQ /\ copyQ' = Append(copyQ, o) /\ Len(copyQ) < Depth
    BY <2>1, <2>2, QueueAppend
  <2>3. CASE copyQ' = copyQ /\ mainQ' = Append(mainQ, o) /\ Len(mainQ) < Depth
    BY <2>1, <2>3, QueueAppend
  <2> QED  BY <1>2, <2>2, <2>3 DEF StageEffect
<1>11. TypeOK'
  <2>1. event' \in [Layers -> Nat] /\ pending' \in [Layers -> BOOLEAN]
    BY <1>1, <1>3 DEF TypeOK
  <2>2. busy' \in [1..Buffers -> Nat] /\ turn' \in 1..Buffers
    BY <1>2 DEF StageEffect
  <2> QED  BY <1>1, <1>3, <1>5, <1>6, <1>7, <1>8, <1>9, <1>10, <2>1, <2>2 DEF TypeOK
<1>12. Noted'
  <2>1. ASSUME env.store = "fp4", ~env.drops
        PROVE  Source \in {"fp4 arena", "int8 arena"} /\ int8'[me] = Experts
    <3>1. int8[me] = Experts
      BY <1>3, <2>1 DEF CacheInv, Noted
    <3>2. Complete
      BY <2>1, <3>1 DEF Complete
    <3>3. Source \in {"fp4 arena", "int8 arena"}
      <4>1. CASE call.fp4
        <5>1. Source = "fp4 arena"
          BY <2>1, <4>1 DEF Source
        <5> QED  BY <5>1
      <4>2. CASE ~call.fp4
        <5>1. Source = "int8 arena"
          BY <3>2, <4>2 DEF Source
        <5> QED  BY <5>1
      <4> QED  BY <4>1, <4>2
    <3>4. int8'[me] = Experts
      BY <1>3, <1>9, <3>1
    <3> QED  BY <3>3, <3>4
  <2>2. ASSUME env.store = "fp4", ~env.drops, NEW k \in Layers
        PROVE  int8'[k] = Experts /\ (storage'[k].at # NoBlock => label'[k] = storage'[k].format)
    BY <1>5, <1>9, <2>1, <2>2 DEF CacheInv, Noted
  <2>3. ASSUME env.store # "fp4", NEW k \in Layers
        PROVE  label'[k] = "int8" /\ storage'[k].format = "int8"
    <3>1. Format = "int8"
      BY <1>1, <2>3, AskedFacts
    <3> QED  BY <1>5, <1>9, <2>3, <3>1 DEF CacheInv, Noted
  <2>4. broken' => env.store = "fp4" /\ env.drops
    BY <1>1 DEF CacheInv, Noted
  <2> QED  BY <1>1, <2>2, <2>3, <2>4 DEF Noted
<1>13. Launching'
  <2> SUFFICES ASSUME todo' # <<>>, call'.op = "launch"
               PROVE  /\ lru'[Len(lru')] = me' /\ call'.want \subseteq staged'[me']
                      /\ call'.rows = "one" \/ env.direct \/ storage'[me'].format = "int8"
    BY <1>1, <1>6 DEF Launching
  <2>1. call.op = "demand" /\ call' = [call EXCEPT !.op = "launch"] /\ call \in Calls
    BY <1>1, <1>3, WantedFacts DEF call
  <2>2. me' = me /\ call'.want = call.want /\ call'.rows = call.rows
    BY <2>1 DEF me, Calls
  <2>3. call.want \subseteq staged'[me]
    <3>1. staged'[me] \in SUBSET Experts /\ staged[me] \subseteq staged'[me] /\ Ids \subseteq staged'[me]
      BY <1>3, <1>5 DEF Missing
    <3> QED  BY <1>1, <3>1, AskedFacts
  <2>4. call.rows = "one" \/ env.direct \/ Format = "int8"
    BY <1>1, <2>1, ForwardFormat, AskedFacts
  <2> QED  BY <1>5, <1>6, <2>2, <2>3, <2>4
<1> QED  BY <1>6, <1>11, <1>12, <1>13 DEF CacheInv

LEMMA StageRaisesCache ==
  ASSUME ResidencyAssumption, CacheInv, StageRaises
  PROVE  CacheInv'
<1>1. /\ Staging /\ ~Unwanted /\ Missing # {} /\ There /\ storage[me].format # Format
      /\ broken' = TRUE /\ env' = env
      /\ UNCHANGED <<phase, pass, todo, int8, storage, staged, label, event, pending, lru,
                     busy, turn, mainQ, copyQ>>
  BY DEF StageRaises, cpu, gpu, streams
<1>2. TypeOK /\ me \in Layers /\ Asked # {} /\ call.op # "launch"
  BY <1>1, WantedFacts DEF CacheInv
<1>3. Calls' = Calls /\ Waiting' = Waiting
  BY <1>1, SameCalls
<1>4. TypeOK'
  BY <1>1, <1>2, <1>3 DEF TypeOK
<1>5. env.store = "fp4"
  <2> SUFFICES ASSUME env.store # "fp4"  PROVE FALSE
    OBVIOUS
  <2>1. storage[me].format = "int8"
    BY <1>2 DEF CacheInv, Noted
  <2> QED  BY <1>1, <2>1, AskedFacts
<1>6. env.drops
  <2> SUFFICES ASSUME ~env.drops  PROVE FALSE
    OBVIOUS
  <2>1. label[me] = storage[me].format /\ int8[me] = Experts
    BY <1>1, <1>2, <1>5 DEF CacheInv, Noted, There
  <2>2. CASE call.fp4
    <3>1. label[me] = "fp4"
      BY <1>1, <1>2, <1>5, <2>2 DEF Unwanted
    <3>2. Format = "fp4"
      BY <1>5, <2>2 DEF Source, Format
    <3> QED  BY <1>1, <2>1, <3>1, <3>2
  <2>3. CASE ~call.fp4
    <3>1. label[me] = "int8"
      BY <1>1, <1>2, <2>3 DEF Unwanted
    <3>2. Format = "int8"
      BY <1>1, <2>3, AskedFacts
    <3> QED  BY <1>1, <2>1, <3>1, <3>2
  <2> QED  BY <2>2, <2>3
<1>7. Listed' /\ Launching'
  BY <1>1, <1>2 DEF CacheInv, Listed, Launching, call
<1>8. Noted'
  BY <1>1, <1>5, <1>6 DEF Noted
<1> QED  BY <1>4, <1>7, <1>8 DEF CacheInv

\* What Launch does to the current stream.
LaunchEffect(o) ==
  /\ o \in Operations /\ o.id = Fresh /\ o.kind = "kernel" /\ o.block = storage[me].at
  /\ o.experts = call.want /\ o.whole /\ o.from = 0 /\ o.after = AfterStage
  /\ mainQ' = Append(mainQ, o) /\ Len(mainQ) < Depth

LEMMA LaunchFacts ==
  ASSUME ResidencyAssumption, CacheInv, Launch
  PROVE  /\ me \in Layers /\ There /\ call.want \subseteq staged[me]
         /\ \E o : LaunchEffect(o)
         /\ ~wrong => ~wrong'
<1>1. /\ todo # <<>> /\ call.op = "launch" /\ Len(mainQ) < Depth
      /\ mainQ' = Append(mainQ,
            [id |-> Fresh, after |-> AfterStage, kind |-> "kernel", block |-> storage[me].at,
             experts |-> call.want, whole |-> TRUE, from |-> 0])
      /\ wrong' = (wrong \/ ~(call.want \subseteq staged[me])
                         \/ (label[me] = storage[me].format /\ KernelFormat # label[me]))
  BY DEF Launch, Ready
<1>2. TypeOK /\ me \in Layers /\ call \in Calls /\ call.want \subseteq Experts
  BY <1>1, CallFacts DEF CacheInv
<1>3. /\ lru # <<>> /\ lru[Len(lru)] = me /\ call.want \subseteq staged[me]
      /\ call.rows = "one" \/ env.direct \/ label[me] = "int8" \/ storage[me].format = "int8"
  BY <1>1 DEF CacheInv, Launching
<1>4. There
  <2>1. lru \in Seq(Layers)
    BY <1>2 DEF TypeOK
  <2>2. Len(lru) \in 1..Len(lru)
    BY <1>3, <2>1
  <2> QED  BY <1>2, <1>3, <2>2 DEF CacheInv, Listed, There
<1>5. storage[me].at \in Blocks
  BY <1>2, <1>4 DEF TypeOK, Places, There
<1> DEFINE o == [id |-> Fresh, after |-> AfterStage, kind |-> "kernel", block |-> storage[me].at,
                 experts |-> call.want, whole |-> TRUE, from |-> 0]
<1>6. o \in Operations
  <2>1. Fresh \in 1..2 * Depth + 1 /\ Buffers \in Nat
    BY <1>2, FreshFacts DEF ResidencyAssumption
  <2>2. AfterStage \in Nat
    BY <1>2 DEF AfterStage, TypeOK
  <2> QED  BY <1>2, <1>5, <2>1, <2>2 DEF Operations
<1>7. LaunchEffect(o)
  BY <1>1, <1>6 DEF LaunchEffect
<1>8. label[me] = storage[me].format => KernelFormat = label[me]
  <2>1. label[me] \in {"fp4", "int8"}
    BY <1>2 DEF TypeOK, Formats
  <2> QED  BY <1>3, <2>1 DEF KernelFormat
<1>9. ~wrong => ~wrong'
  <2>1. ~(~(call.want \subseteq staged[me]) \/ (label[me] = storage[me].format /\ KernelFormat # label[me]))
    BY <1>3, <1>8
  <2> QED  BY <1>1, <2>1
<1> QED  BY <1>2, <1>3, <1>4, <1>7, <1>9

LEMMA LaunchCache ==
  ASSUME ResidencyAssumption, CacheInv, Launch
  PROVE  CacheInv'
<1>1. /\ todo # <<>> /\ todo' = Tail(todo) /\ lru' = Touched(me) /\ Len(lru) <= env.cached
      /\ pending' = [pending EXCEPT ![me] = FALSE] /\ env' = env
      /\ UNCHANGED <<phase, pass, int8, storage, staged, label, event, busy, turn, copyQ, broken>>
  BY DEF Launch, Ready, cpu
<1>2. TypeOK /\ me \in Layers /\ There /\ Tail(todo) \in Seq(Waiting)
  BY <1>1, CallFacts, LaunchFacts DEF CacheInv
<1>3. PICK o : LaunchEffect(o)
  BY LaunchFacts
<1>4. Listed' /\ lru' \in Seq(Layers)
  <2>1. storage' \in [Layers -> Places] /\ staged' \in [Layers -> SUBSET Experts]
    BY <1>1, <1>2 DEF TypeOK
  <2> QED  BY <1>1, <1>2, <2>1, TouchCache DEF There
<1>5. Calls' = Calls /\ Waiting' = Waiting
  BY <1>1, SameCalls
<1>6. todo' \in Seq(Calls) /\ (todo' # <<>> => Tail(todo') \in Seq(Waiting) /\ call'.op # "launch")
  BY <1>1, <1>2, WaitingFacts DEF call
<1>7. mainQ' \in Seq(Operations) /\ Len(mainQ') <= Depth
  BY <1>2, <1>3, QueueAppend DEF LaunchEffect, TypeOK, ResidencyAssumption
<1>8. TypeOK'
  <2>1. pending' \in [Layers -> BOOLEAN]
    BY <1>1, <1>2 DEF TypeOK
  <2> QED  BY <1>1, <1>2, <1>4, <1>5, <1>6, <1>7, <2>1 DEF TypeOK
<1>9. Noted'
  BY <1>1 DEF CacheInv, Noted
<1> QED  BY <1>4, <1>6, <1>8, <1>9 DEF CacheInv, Launching

\* What the end of operation i leaves of the others.
LEMMA RunFacts ==
  ASSUME ResidencyAssumption, CacheInv, RunMain \/ RunCopy
  PROVE  \E i \in Nat :
           /\ event' = Without(event, i) /\ busy' = Without(busy, i)
           /\ UNCHANGED <<env, phase, pass, todo, int8, turn, storage, staged, label,
                          pending, lru, broken>>
           /\ \/ mainQ # <<>> /\ mainQ[1].after = 0 /\ i = mainQ[1].id
                 /\ mainQ' = Past(Tail(mainQ), i) /\ copyQ' = Past(copyQ, i)
                 /\ wrong' = (wrong \/ Amiss(mainQ[1]))
              \/ copyQ # <<>> /\ copyQ[1].after = 0 /\ i = copyQ[1].id
                 /\ copyQ' = Past(Tail(copyQ), i) /\ mainQ' = Past(mainQ, i)
                 /\ wrong' = (wrong \/ Amiss(copyQ[1]))
<1>1. mainQ \in Seq(Operations) /\ copyQ \in Seq(Operations)
  BY DEF CacheInv, TypeOK
<1>2. CASE RunMain
  <2>1. mainQ # <<>> /\ Head(mainQ) = mainQ[1] /\ mainQ[1] \in Operations
    <3>1. mainQ # <<>>
      BY <1>2 DEF RunMain
    <3> QED  BY <1>1, <3>1
  <2>2. mainQ[1].id \in Nat
    BY <2>1, OperationFacts
  <2> QED  BY <1>2, <2>1, <2>2 DEF RunMain, Finish
<1>3. CASE RunCopy
  <2>1. copyQ # <<>> /\ Head(copyQ) = copyQ[1] /\ copyQ[1] \in Operations
    <3>1. copyQ # <<>>
      BY <1>3 DEF RunCopy
    <3> QED  BY <1>1, <3>1
  <2>2. copyQ[1].id \in Nat
    BY <2>1, OperationFacts
  <2> QED  BY <1>3, <2>1, <2>2 DEF RunCopy, Finish
<1> QED  BY <1>2, <1>3

LEMMA RunCache ==
  ASSUME ResidencyAssumption, CacheInv, RunMain \/ RunCopy
  PROVE  CacheInv'
<1>1. PICK i \in Nat :
           /\ event' = Without(event, i) /\ busy' = Without(busy, i)
           /\ UNCHANGED <<env, phase, pass, todo, int8, turn, storage, staged, label,
                          pending, lru, broken>>
           /\ \/ mainQ # <<>> /\ mainQ' = Past(Tail(mainQ), i) /\ copyQ' = Past(copyQ, i)
              \/ copyQ # <<>> /\ copyQ' = Past(Tail(copyQ), i) /\ mainQ' = Past(mainQ, i)
  BY RunFacts
<1>2. /\ mainQ \in Seq(Operations) /\ Len(mainQ) <= Depth /\ Len(mainQ) \in Nat
      /\ copyQ \in Seq(Operations) /\ Len(copyQ) <= Depth /\ Len(copyQ) \in Nat /\ Depth \in Nat
  BY DEF CacheInv, TypeOK, ResidencyAssumption
<1>3. \A q \in {mainQ, copyQ} : q # <<>> => /\ Tail(q) \in Seq(Operations)
                                            /\ Len(Tail(q)) = Len(q) - 1
  BY <1>2, HeadTailProperties
<1>4. /\ mainQ' \in Seq(Operations) /\ Len(mainQ') <= Depth
      /\ copyQ' \in Seq(Operations) /\ Len(copyQ') <= Depth
  <2>1. CASE mainQ # <<>> /\ mainQ' = Past(Tail(mainQ), i) /\ copyQ' = Past(copyQ, i)
    <3>1. Tail(mainQ) \in Seq(Operations) /\ Len(Tail(mainQ)) = Len(mainQ) - 1
      BY <1>3, <2>1
    <3>2. mainQ' \in Seq(Operations) /\ Len(mainQ') = Len(mainQ) - 1
      BY <2>1, <3>1, PastFacts
    <3>3. copyQ' \in Seq(Operations) /\ Len(copyQ') = Len(copyQ)
      BY <1>2, <2>1, PastFacts
    <3> QED  BY <1>2, <3>2, <3>3
  <2>2. CASE copyQ # <<>> /\ copyQ' = Past(Tail(copyQ), i) /\ mainQ' = Past(mainQ, i)
    <3>1. Tail(copyQ) \in Seq(Operations) /\ Len(Tail(copyQ)) = Len(copyQ) - 1
      BY <1>3, <2>2
    <3>2. copyQ' \in Seq(Operations) /\ Len(copyQ') = Len(copyQ) - 1
      BY <2>2, <3>1, PastFacts
    <3>3. mainQ' \in Seq(Operations) /\ Len(mainQ') = Len(mainQ)
      BY <1>2, <2>2, PastFacts
    <3> QED  BY <1>2, <3>2, <3>3
  <2> QED  BY <1>1, <2>1, <2>2
<1>5. event' \in [Layers -> Nat] /\ busy' \in [1..Buffers -> Nat]
  BY <1>1 DEF CacheInv, TypeOK, Without
<1>6. Calls' = Calls /\ Waiting' = Waiting
  BY <1>1, SameCalls
<1>7. TypeOK'
  BY <1>1, <1>4, <1>5, <1>6 DEF CacheInv, TypeOK
<1> QED  BY <1>1, <1>7 DEF CacheInv, Listed, Noted, Launching, call, me

LEMMA CacheStep ==
  ASSUME ResidencyAssumption, CacheInv, Intact, [Next]_vars
  PROVE  CacheInv'
<1>1. CASE StartPass \/ NewRequest
  <2>1. /\ todo' = <<>> /\ UNCHANGED <<env, int8, gpu, busy, turn, mainQ, copyQ, broken>>
        /\ phase' \in {"prefill", "decode"}
        /\ pass' \in [kind : {"none", "long", "short"}, at : Layers]
    <3>1. CASE StartPass
      <4>1. 1 \in Layers
        BY DEF ResidencyAssumption, Layers
      <4> QED  BY <3>1, <4>1 DEF StartPass, Settled, CacheInv, TypeOK, cpu, streams
    <3>2. CASE NewRequest
      BY <3>2 DEF NewRequest, Settled, CacheInv, TypeOK, cpu, streams
    <3> QED  BY <1>1, <3>1, <3>2
  <2> QED  BY <2>1, WaitingCache
<1>2. CASE NextLayer \/ EndPrefill
  <2>1. /\ UNCHANGED <<env, int8, gpu, busy, turn, mainQ, copyQ, broken>>
        /\ phase' \in {"prefill", "decode"}
        /\ pass' \in [kind : {"none", "long", "short"}, at : Layers]
    <3>1. CASE NextLayer
      <4>1. N \in Nat \ {0} /\ pass.at \in Layers /\ pass \in [kind : {"none", "long", "short"}, at : Layers]
        BY DEF ResidencyAssumption, CacheInv, TypeOK
      <4>2. 1 \in Layers /\ (pass.at < N => pass.at + 1 \in Layers)
        BY <4>1 DEF Layers
      <4>3. pass' = IF pass.at < N THEN [pass EXCEPT !.at = @ + 1] ELSE [kind |-> "none", at |-> 1]
        BY <3>1 DEF NextLayer
      <4>4. pass' \in [kind : {"none", "long", "short"}, at : Layers]
        BY <4>1, <4>2, <4>3
      <4> QED  BY <3>1, <4>4 DEF NextLayer, CacheInv, TypeOK, cpu, streams
    <3>2. CASE EndPrefill
      BY <3>2 DEF EndPrefill, CacheInv, TypeOK, cpu, streams
    <3> QED  BY <1>2, <3>1, <3>2
  <2>2. todo' \in Seq(Waiting)
    BY <1>2, Plans DEF CacheInv
  <2> QED  BY <2>1, <2>2, WaitingCache
<1>3. CASE UNCHANGED vars
  <2>1. UNCHANGED <<env, phase, pass, todo, int8, storage, staged, label, event, pending, lru,
                    busy, turn, mainQ, copyQ, broken>>
    BY <1>3 DEF vars, cpu, gpu, streams
  <2>2. Calls' = Calls /\ Waiting' = Waiting
    BY <2>1, SameCalls
  <2>3. TypeOK'
    BY <2>1, <2>2 DEF CacheInv, TypeOK
  <2> QED  BY <2>1, <2>3 DEF CacheInv, Listed, Noted, Launching, call, me
<1> QED
  BY <1>1, <1>2, <1>3, ReleaseCacheCache, RouteCache, DropUnwantedCache, NothingMissingCache,
    StageCache, StageRaisesCache, EvictCache, LaunchCache, RunCache DEF Next

-----------------------------------------------------------------------------
(***************************************************************************)
(* The part of the invariant about the streams.                            *)
(***************************************************************************)
LEMMA InitStream ==
  ASSUME Init
  PROVE  StreamInv
<1>1. Len(mainQ) = 0 /\ Len(copyQ) = 0 /\ ~wrong
  BY DEF Init
<1> QED  BY <1>1 DEF StreamInv, Numbered, Intact, Held, Ordered, Awaited

\* Steps of the host that put nothing on a stream, and may release memory.
LEMMA HostStream ==
  ASSUME ResidencyAssumption, CacheInv, StreamInv,
         UNCHANGED <<mainQ, copyQ, busy, wrong>>,
         \A l \in Layers :
           \/ storage'[l].at = NoBlock
           \/ /\ storage'[l].at = storage[l].at /\ staged'[l] = staged[l]
              /\ event'[l] = event[l] /\ pending'[l] = pending[l]
  PROVE  StreamInv'
<1>1. /\ \A i \in 1..Len(mainQ) : mainQ[i].block # NoBlock
      /\ \A i \in 1..Len(copyQ) : copyQ[i].block # NoBlock
  BY QueueFacts, OperationFacts DEF CacheInv
<1>2. Held'
  BY <1>1 DEF StreamInv, Held
<1>3. Awaited'
  BY <1>1 DEF StreamInv, Awaited, Guarded
<1> QED  BY <1>2, <1>3 DEF StreamInv, Numbered, Intact, Keeps, Ordered, Clash, Guarded

LEMMA DropStream ==
  ASSUME ResidencyAssumption, CacheInv, StreamInv, NEW l \in Layers, Drop(l),
         UNCHANGED <<mainQ, copyQ, busy, wrong>>
  PROVE  StreamInv'
<1>1. \A k \in Layers :
        \/ storage'[k].at = NoBlock
        \/ /\ storage'[k].at = storage[k].at /\ staged'[k] = staged[k]
           /\ event'[k] = event[k] /\ pending'[k] = pending[k]
  BY DEF Drop, CacheInv, TypeOK, NoStorage
<1> QED  BY <1>1, HostStream

\* Operations are added at the end only.
Longer ==
  /\ Len(mainQ') \in Nat /\ Len(mainQ') >= Len(mainQ)
  /\ Len(copyQ') \in Nat /\ Len(copyQ') >= Len(copyQ)
  /\ \A i \in 1..Len(mainQ) : mainQ'[i] = mainQ[i]
  /\ \A i \in 1..Len(copyQ) : copyQ'[i] = copyQ[i]

\* After the step one of the first k operations of the current stream waits for
\* operation p of the copy stream, or for a later one.
StillGuarded(k, p) ==
  \E m \in 1..k, r \in p..Len(copyQ') : mainQ'[m].after = copyQ'[r].id

LEMMA GuardedLonger ==
  ASSUME TypeOK, Longer,
         NEW n \in Nat, n <= Len(mainQ), NEW k \in Nat, n <= k,
         NEW p \in 1..Len(copyQ), Guarded(n, p)
  PROVE  StillGuarded(k, p)
<1>1. Len(mainQ) \in Nat /\ Len(copyQ) \in Nat /\ Len(copyQ') \in Nat
  BY QueueFacts DEF Longer
<1>2. PICK m \in 1..n, r \in p..Len(copyQ) : mainQ[m].after = copyQ[r].id
  BY DEF Guarded
<1>3. m \in 1..Len(mainQ) /\ r \in 1..Len(copyQ) /\ m \in 1..k /\ r \in p..Len(copyQ')
  BY <1>1, <1>2 DEF Longer
<1>4. mainQ'[m].after = copyQ'[r].id
  BY <1>2, <1>3 DEF Longer
<1> QED  BY <1>3, <1>4 DEF StillGuarded

\* A copy into memory of a layer clashes with no kernel that is queued.
LEMMA NoNewClash ==
  ASSUME ResidencyAssumption, CacheInv, StreamInv, Stage, NEW b, NEW o, StageEffect(b, o)
  PROVE  /\ me \in Layers
         /\ \A n \in 1..Len(mainQ) : mainQ[n].kind = "kernel" => ~Clash(o, mainQ[n])
         /\ ~There => /\ \A n \in 1..Len(mainQ) : mainQ[n].block # b
                      /\ \A n \in 1..Len(copyQ) : copyQ[n].block # b
         /\ \A l \in Layers : l # me => storage[l].at # b
         /\ storage'[me].at = b /\ staged'[me] = staged[me] \cup Missing
         /\ \A l \in Layers : l # me => storage'[l] = storage[l] /\ staged'[l] = staged[l]
<1>1. me \in Layers /\ Missing \subseteq Experts
  BY WantedFacts DEF CacheInv, Stage
<1>2. /\ o.block = b /\ o.experts = Missing /\ b # NoBlock
      /\ There => b = storage[me].at
      /\ ~There => b \in Free
  BY DEF StageEffect
<1>3. ASSUME ~There
      PROVE  /\ \A n \in 1..Len(mainQ) : mainQ[n].block # b
             /\ \A n \in 1..Len(copyQ) : copyQ[n].block # b
             /\ \A l \in Layers : storage[l].at # b
  BY <1>2, <1>3, QueueFacts DEF Free, Ops, CacheInv
<1>4. ASSUME NEW l \in Layers, l # me  PROVE storage[l].at # b
  BY <1>1, <1>2, <1>3, <1>4 DEF CacheInv, Listed
<1>5. ASSUME NEW n \in 1..Len(mainQ), mainQ[n].kind = "kernel"  PROVE ~Clash(o, mainQ[n])
  <2>1. CASE There
    <3>1. mainQ[n].block = b => mainQ[n].experts \subseteq staged[me]
      BY <1>1, <1>2, <1>5, <2>1 DEF StreamInv, Held
    <3> QED  BY <1>2, <3>1 DEF Clash, Missing
  <2>2. CASE ~There
    BY <1>2, <1>3, <2>2 DEF Clash
  <2> QED  BY <2>1, <2>2
<1>6. /\ storage'[me].at = b /\ staged'[me] = staged[me] \cup Missing
      /\ \A l \in Layers : l # me => storage'[l] = storage[l] /\ staged'[l] = staged[l]
  BY <1>1 DEF StageEffect, Stage, CacheInv, TypeOK
<1> QED  BY <1>1, <1>3, <1>4, <1>5, <1>6

LEMMA AppendLonger ==
  ASSUME TypeOK, NEW o \in Operations,
         \/ mainQ' = Append(mainQ, o) /\ copyQ' = copyQ
         \/ copyQ' = Append(copyQ, o) /\ mainQ' = mainQ
  PROVE  /\ Longer
         /\ mainQ' = mainQ \/ (Len(mainQ') = Len(mainQ) + 1 /\ mainQ'[Len(mainQ) + 1] = o)
         /\ copyQ' = copyQ \/ (Len(copyQ') = Len(copyQ) + 1 /\ copyQ'[Len(copyQ) + 1] = o)
<1>1. mainQ \in Seq(Operations) /\ copyQ \in Seq(Operations)
  BY DEF TypeOK
<1>2. Len(mainQ) \in Nat /\ Len(copyQ) \in Nat
  BY <1>1
<1>3. CASE mainQ' = Append(mainQ, o) /\ copyQ' = copyQ
  <2>1. /\ Len(mainQ') = Len(mainQ) + 1 /\ mainQ'[Len(mainQ) + 1] = o
        /\ \A i \in 1..Len(mainQ) : mainQ'[i] = mainQ[i]
    BY <1>1, <1>3, AppendProperties
  <2> QED  BY <1>2, <1>3, <2>1 DEF Longer
<1>4. CASE copyQ' = Append(copyQ, o) /\ mainQ' = mainQ
  <2>1. /\ Len(copyQ') = Len(copyQ) + 1 /\ copyQ'[Len(copyQ) + 1] = o
        /\ \A i \in 1..Len(copyQ) : copyQ'[i] = copyQ[i]
    BY <1>1, <1>4, AppendProperties
  <2> QED  BY <1>2, <1>4, <2>1 DEF Longer
<1> QED  BY <1>3, <1>4

LEMMA AppendNumbered ==
  ASSUME ResidencyAssumption, TypeOK, Numbered, NEW o \in Operations, o.id = Fresh,
         \/ mainQ' = Append(mainQ, o) /\ copyQ' = copyQ
         \/ copyQ' = Append(copyQ, o) /\ mainQ' = mainQ
  PROVE  Numbered'
<1>1. /\ Longer /\ Len(mainQ) \in Nat /\ Len(copyQ) \in Nat
      /\ mainQ' = mainQ \/ (Len(mainQ') = Len(mainQ) + 1 /\ mainQ'[Len(mainQ) + 1] = o)
      /\ copyQ' = copyQ \/ (Len(copyQ') = Len(copyQ) + 1 /\ copyQ'[Len(copyQ) + 1] = o)
  BY AppendLonger, QueueFacts
<1>2. /\ \A i \in 1..Len(mainQ) : mainQ[i].id # o.id
      /\ \A i \in 1..Len(copyQ) : copyQ[i].id # o.id
  BY FreshFacts
<1>3. /\ \A i \in 1..Len(mainQ') : i \in 1..Len(mainQ) \/ (i = Len(mainQ) + 1 /\ mainQ'[i] = o)
      /\ \A i \in 1..Len(copyQ') : i \in 1..Len(copyQ) \/ (i = Len(copyQ) + 1 /\ copyQ'[i] = o)
  BY <1>1
<1>4. ASSUME NEW i \in 1..Len(mainQ'), NEW j \in 1..Len(mainQ'), mainQ'[i].id = mainQ'[j].id
      PROVE  i = j
  BY <1>1, <1>2, <1>3, <1>4 DEF Longer, Numbered
<1>5. ASSUME NEW i \in 1..Len(copyQ'), NEW j \in 1..Len(copyQ'), copyQ'[i].id = copyQ'[j].id
      PROVE  i = j
  BY <1>1, <1>2, <1>3, <1>5 DEF Longer, Numbered
<1>6. ASSUME NEW i \in 1..Len(mainQ'), NEW j \in 1..Len(copyQ')
      PROVE  mainQ'[i].id # copyQ'[j].id
  <2>1. CASE mainQ' = mainQ
    BY <1>1, <1>2, <1>3, <2>1 DEF Longer, Numbered
  <2>2. CASE copyQ' = copyQ
    BY <1>1, <1>2, <1>3, <2>2 DEF Longer, Numbered
  <2> QED  BY <2>1, <2>2
<1> QED  BY <1>4, <1>5, <1>6 DEF Numbered

LEMMA StageStream ==
  ASSUME ResidencyAssumption, CacheInv, StreamInv, Stage
  PROVE  StreamInv'
<1>1. PICK b, o : StageEffect(b, o)
  BY StageFacts DEF StreamInv
<1>2. /\ Drained(me) /\ wrong' = wrong
      /\ event' = [event EXCEPT ![me] = Fresh] /\ pending' = [pending EXCEPT ![me] = TRUE]
  BY DEF Stage
<1>3. /\ o \in Operations /\ o.id = Fresh /\ o.kind = "copy" /\ o.block = b /\ o.whole
      /\ o.from # 0 => busy'[o.from] = Fresh
      /\ \A x \in 1..Buffers : busy[x] # 0 => busy'[x] = busy[x]
      /\ There => storage[me].at = b
      /\ \/ mainQ' = mainQ /\ copyQ' = Append(copyQ, o)
         \/ copyQ' = copyQ /\ mainQ' = Append(mainQ, o)
  BY <1>1 DEF StageEffect
<1>4. /\ me \in Layers
      /\ \A n \in 1..Len(mainQ) : mainQ[n].kind = "kernel" => ~Clash(o, mainQ[n])
      /\ ~There => /\ \A n \in 1..Len(mainQ) : mainQ[n].block # b
                   /\ \A n \in 1..Len(copyQ) : copyQ[n].block # b
      /\ \A l \in Layers : l # me => storage[l].at # b
      /\ storage'[me].at = b /\ staged'[me] = staged[me] \cup Missing
      /\ \A l \in Layers : l # me => storage'[l] = storage[l] /\ staged'[l] = staged[l]
  BY <1>1, NoNewClash
<1>5. /\ Longer /\ Len(mainQ) \in Nat /\ Len(copyQ) \in Nat /\ TypeOK
      /\ \A i \in 1..Len(mainQ) : mainQ[i] \in Operations
      /\ \A i \in 1..Len(copyQ) : copyQ[i] \in Operations
      /\ mainQ' = mainQ \/ (Len(mainQ') = Len(mainQ) + 1 /\ mainQ'[Len(mainQ) + 1] = o)
      /\ copyQ' = copyQ \/ (Len(copyQ') = Len(copyQ) + 1 /\ copyQ'[Len(copyQ) + 1] = o)
  BY <1>3, AppendLonger, QueueFacts DEF CacheInv
<1>6. /\ \A i \in 1..Len(mainQ') :
           \/ i \in 1..Len(mainQ) /\ mainQ'[i] = mainQ[i]
           \/ i = Len(mainQ) + 1 /\ mainQ'[i] = o
      /\ \A i \in 1..Len(copyQ') :
           \/ i \in 1..Len(copyQ) /\ copyQ'[i] = copyQ[i]
           \/ i = Len(copyQ) + 1 /\ copyQ'[i] = o /\ copyQ' # copyQ
  BY <1>5 DEF Longer
<1>6a. /\ \A n \in 1..Len(mainQ), p \in 1..Len(copyQ) :
            Guarded(n, p) => StillGuarded(n, p)
       /\ \A p \in 1..Len(copyQ) :
            Guarded(Len(mainQ), p) => StillGuarded(Len(mainQ'), p)
  <2>1. ASSUME NEW n \in 1..Len(mainQ), NEW p \in 1..Len(copyQ), Guarded(n, p)
        PROVE  StillGuarded(n, p)
    <3>1. n \in Nat /\ n <= Len(mainQ) /\ n <= n
      BY <1>5
    <3> QED  BY <1>5, <2>1, <3>1, GuardedLonger
  <2>2. ASSUME NEW p \in 1..Len(copyQ), Guarded(Len(mainQ), p)
        PROVE  StillGuarded(Len(mainQ'), p)
    <3>1. /\ Len(mainQ) \in Nat /\ Len(mainQ') \in Nat
          /\ Len(mainQ) <= Len(mainQ) /\ Len(mainQ) <= Len(mainQ')
      BY <1>5 DEF Longer
    <3> QED  BY <1>5, <2>2, <3>1, GuardedLonger
  <2> QED  BY <2>1, <2>2
<1>7. Numbered'
  BY <1>3, <1>5, AppendNumbered DEF StreamInv
<1>8. Intact'
  <2>1. \A c \in Operations : Keeps(c) => Keeps(c)'
    <3> SUFFICES ASSUME NEW c \in Operations, Keeps(c), c.from # 0  PROVE busy'[c.from] = c.id
      BY DEF Keeps
    <3>1. c.id # 0 /\ c.from \in 1..Buffers /\ busy[c.from] = c.id
      <4>1. c.id # 0 /\ c.from \in 0..Buffers /\ Buffers \in Nat
        BY OperationFacts DEF ResidencyAssumption
      <4> QED  BY <4>1 DEF Keeps
    <3> QED  BY <1>3, <3>1
  <2>2. Keeps(o)'
    BY <1>3 DEF Keeps
  <2>3. ASSUME NEW i \in 1..Len(mainQ')  PROVE Keeps(mainQ[i])'
    <3>1. CASE i \in 1..Len(mainQ) /\ mainQ'[i] = mainQ[i]
      <4>1. mainQ[i] \in Operations /\ Keeps(mainQ[i])
        BY <1>5, <3>1 DEF StreamInv, Intact
      <4> QED  BY <2>1, <3>1, <4>1 DEF Keeps
    <3>2. CASE mainQ'[i] = o
      BY <2>2, <3>2 DEF Keeps
    <3> QED  BY <1>6, <3>1, <3>2
  <2>4. ASSUME NEW i \in 1..Len(copyQ')  PROVE Keeps(copyQ[i])' /\ copyQ'[i].kind = "copy"
    <3>1. CASE i \in 1..Len(copyQ) /\ copyQ'[i] = copyQ[i]
      <4>1. copyQ[i] \in Operations /\ Keeps(copyQ[i]) /\ copyQ[i].kind = "copy"
        BY <1>5, <3>1 DEF StreamInv, Intact
      <4> QED  BY <2>1, <3>1, <4>1 DEF Keeps
    <3>2. CASE copyQ'[i] = o
      BY <1>3, <2>2, <3>2 DEF Keeps
    <3> QED  BY <1>6, <3>1, <3>2
  <2> QED  BY <2>3, <2>4 DEF Intact
<1>9. Held'
  <2> SUFFICES ASSUME NEW n \in 1..Len(mainQ'), NEW l \in Layers,
                      mainQ'[n].kind = "kernel", mainQ'[n].block = storage'[l].at
               PROVE  mainQ'[n].experts \subseteq staged'[l]
    BY DEF Held
  <2>1. n \in 1..Len(mainQ) /\ mainQ'[n] = mainQ[n]
    BY <1>3, <1>6
  <2>2. CASE l # me
    BY <1>4, <2>1, <2>2 DEF StreamInv, Held
  <2>3. CASE l = me
    <3>1. There /\ storage[me].at = b
      BY <1>3, <1>4, <2>1, <2>3
    <3>2. mainQ[n].experts \subseteq staged[me]
      BY <1>4, <2>1, <2>3, <3>1 DEF StreamInv, Held
    <3> QED  BY <1>4, <2>1, <2>3, <3>2
  <2> QED  BY <2>2, <2>3
<1>10. Ordered'
  <2> SUFFICES ASSUME NEW n \in 1..Len(mainQ'), mainQ'[n].kind = "kernel"
               PROVE  /\ \A q \in 1..Len(mainQ') : Clash(mainQ'[q], mainQ'[n]) => q < n
                      /\ \A p \in 1..Len(copyQ') : Clash(copyQ'[p], mainQ'[n]) =>
                           \E m \in 1..n, r \in p..Len(copyQ') : mainQ'[m].after = copyQ'[r].id
    BY DEF Ordered, Guarded, Clash
  <2>1. n \in 1..Len(mainQ) /\ mainQ'[n] = mainQ[n]
    BY <1>3, <1>5, <1>6
  <2>2. ASSUME NEW q \in 1..Len(mainQ'), Clash(mainQ'[q], mainQ'[n])  PROVE q < n
    <3>1. q \in 1..Len(mainQ) /\ mainQ'[q] = mainQ[q]
      BY <1>4, <1>6, <2>1, <2>2
    <3> QED  BY <2>1, <2>2, <3>1 DEF StreamInv, Ordered
  <2>3. ASSUME NEW p \in 1..Len(copyQ'), Clash(copyQ'[p], mainQ'[n])
        PROVE  \E m \in 1..n, r \in p..Len(copyQ') : mainQ'[m].after = copyQ'[r].id
    <3>1. p \in 1..Len(copyQ) /\ copyQ'[p] = copyQ[p]
      BY <1>4, <1>6, <2>1, <2>3
    <3>2. Guarded(n, p)
      BY <2>1, <2>3, <3>1 DEF StreamInv, Ordered
    <3>3. StillGuarded(n, p)
      BY <1>6a, <2>1, <3>1, <3>2
    <3> QED  BY <3>3 DEF StillGuarded
  <2> QED  BY <2>2, <2>3
<1>11. Awaited'
  <2> SUFFICES ASSUME NEW l \in Layers, NEW p \in 1..Len(copyQ'), copyQ'[p].block = storage'[l].at
               PROVE  \/ pending'[l] /\ \E r \in p..Len(copyQ') : event'[l] = copyQ'[r].id
                      \/ \E m \in 1..Len(mainQ'), r \in p..Len(copyQ') : mainQ'[m].after = copyQ'[r].id
    BY DEF Awaited, Guarded
  <2>0. event'[me] = Fresh /\ pending'[me] /\ (l # me => event'[l] = event[l] /\ pending'[l] = pending[l])
    BY <1>2, <1>4, <1>5 DEF TypeOK
  <2>1. CASE l = me /\ copyQ' # copyQ
    <3>1. Len(copyQ') \in p..Len(copyQ') /\ copyQ'[Len(copyQ')] = o
      BY <1>5, <2>1
    <3> QED  BY <1>3, <2>0, <2>1, <3>1
  <2>2. CASE ~(l = me /\ copyQ' # copyQ)
    <3>1. p \in 1..Len(copyQ) /\ copyQ'[p] = copyQ[p]
      BY <1>3, <1>4, <1>6, <2>2
    <3>2. copyQ[p].block = storage[l].at
      BY <1>3, <1>4, <2>2, <3>1
    <3>3. CASE Guarded(Len(mainQ), p)
      <4>1. StillGuarded(Len(mainQ'), p)
        BY <1>6a, <3>1, <3>3
      <4> QED  BY <4>1 DEF StillGuarded
    <3>4. CASE ~Guarded(Len(mainQ), p)
      <4>1. pending[l] /\ \E r \in p..Len(copyQ) : event[l] = copyQ[r].id
        BY <3>1, <3>2, <3>4 DEF StreamInv, Awaited
      <4>2. PICK r \in p..Len(copyQ) : event[l] = copyQ[r].id
        BY <4>1
      <4>3. r \in 1..Len(copyQ) /\ r \in p..Len(copyQ') /\ copyQ'[r] = copyQ[r]
        BY <1>5, <3>1 DEF Longer
      <4>4. l # me
        <5>1. copyQ[r].id # 0
          BY <1>5, <4>3, OperationFacts
        <5> QED  BY <1>2, <4>1, <4>2, <5>1 DEF Drained
      <4> QED  BY <2>0, <4>1, <4>2, <4>3, <4>4
    <3> QED  BY <3>3, <3>4
  <2> QED  BY <2>1, <2>2
<1>12. ~wrong'
  BY <1>2 DEF StreamInv
<1> QED  BY <1>7, <1>8, <1>9, <1>10, <1>11, <1>12 DEF StreamInv

LEMMA LaunchStream ==
  ASSUME ResidencyAssumption, CacheInv, StreamInv, Launch
  PROVE  StreamInv'
<1>1. /\ me \in Layers /\ There /\ call.want \subseteq staged[me] /\ ~wrong'
  BY LaunchFacts DEF StreamInv
<1>2. PICK o : LaunchEffect(o)
  BY LaunchFacts
<1>3. /\ o \in Operations /\ o.id = Fresh /\ o.kind = "kernel" /\ o.block = storage[me].at
      /\ o.experts = call.want /\ o.whole /\ o.from = 0 /\ o.after = AfterStage
      /\ mainQ' = Append(mainQ, o)
  BY <1>2 DEF LaunchEffect
<1>4. /\ UNCHANGED <<busy, storage, staged, event, copyQ>>
      /\ pending' = [pending EXCEPT ![me] = FALSE]
  BY DEF Launch, cpu
<1>5. /\ Longer /\ Len(mainQ) \in Nat /\ Len(copyQ) \in Nat /\ TypeOK
      /\ Len(mainQ') = Len(mainQ) + 1 /\ mainQ'[Len(mainQ) + 1] = o
  <2>1. mainQ \in Seq(Operations)
    BY DEF CacheInv, TypeOK
  <2>2. TypeOK /\ Len(mainQ) \in Nat /\ Len(copyQ) \in Nat
    BY QueueFacts DEF CacheInv
  <2>3. o \in Operations /\ mainQ' = Append(mainQ, o) /\ copyQ' = copyQ
    BY <1>3, <1>4
  <2>4. Longer
    BY <2>2, <2>3, AppendLonger
  <2>5. Len(mainQ') = Len(mainQ) + 1 /\ mainQ'[Len(mainQ) + 1] = o
    BY <1>3, <2>1, AppendProperties
  <2> QED  BY <2>2, <2>4, <2>5
<1>6. \A i \in 1..Len(mainQ') :
           \/ i \in 1..Len(mainQ) /\ mainQ'[i] = mainQ[i]
           \/ i = Len(mainQ) + 1 /\ mainQ'[i] = o
  BY <1>5 DEF Longer
<1>6a. /\ \A n \in 1..Len(mainQ), p \in 1..Len(copyQ) :
            Guarded(n, p) => StillGuarded(n, p)
       /\ \A p \in 1..Len(copyQ) :
            Guarded(Len(mainQ), p) => StillGuarded(Len(mainQ'), p)
  <2>1. ASSUME NEW n \in 1..Len(mainQ), NEW p \in 1..Len(copyQ), Guarded(n, p)
        PROVE  StillGuarded(n, p)
    <3>1. n \in Nat /\ n <= Len(mainQ) /\ n <= n
      BY <1>5
    <3> QED  BY <1>5, <2>1, <3>1, GuardedLonger
  <2>2. ASSUME NEW p \in 1..Len(copyQ), Guarded(Len(mainQ), p)
        PROVE  StillGuarded(Len(mainQ'), p)
    <3>1. /\ Len(mainQ) \in Nat /\ Len(mainQ') \in Nat
          /\ Len(mainQ) <= Len(mainQ) /\ Len(mainQ) <= Len(mainQ')
      BY <1>5 DEF Longer
    <3> QED  BY <1>5, <2>2, <3>1, GuardedLonger
  <2> QED  BY <2>1, <2>2
<1>7. Numbered'
  BY <1>3, <1>4, <1>5, AppendNumbered DEF StreamInv
<1>8. Intact'
  <2>1. \A i \in 1..Len(mainQ') : Keeps(mainQ[i])'
    BY <1>3, <1>4, <1>6 DEF StreamInv, Intact, Keeps
  <2> QED  BY <1>4, <2>1 DEF StreamInv, Intact, Keeps
<1>9. Held'
  <2> SUFFICES ASSUME NEW n \in 1..Len(mainQ'), NEW l \in Layers,
                      mainQ'[n].kind = "kernel", mainQ'[n].block = storage[l].at
               PROVE  mainQ'[n].experts \subseteq staged[l]
    BY <1>4 DEF Held
  <2>1. CASE n \in 1..Len(mainQ) /\ mainQ'[n] = mainQ[n]
    BY <2>1 DEF StreamInv, Held
  <2>2. CASE mainQ'[n] = o
    <3>1. l = me
      BY <1>1, <1>3, <2>2 DEF CacheInv, Listed, There
    <3> QED  BY <1>1, <1>3, <2>2, <3>1
  <2> QED  BY <1>6, <2>1, <2>2
\* What the copies into the memory of this layer wait for.
<1>10. ASSUME NEW p \in 1..Len(copyQ), copyQ[p].block = storage[me].at
       PROVE  \E m \in 1..Len(mainQ'), r \in p..Len(copyQ') : mainQ'[m].after = copyQ'[r].id
  <2>1. CASE Guarded(Len(mainQ), p)
    <3>1. StillGuarded(Len(mainQ'), p)
      BY <1>6a, <1>10, <2>1
    <3> QED  BY <3>1 DEF StillGuarded
  <2>2. CASE pending[me] /\ \E r \in p..Len(copyQ) : event[me] = copyQ[r].id
    <3>1. PICK r \in p..Len(copyQ) : event[me] = copyQ[r].id
      BY <2>2
    <3>2. mainQ'[Len(mainQ) + 1].after = copyQ'[r].id /\ Len(mainQ) + 1 \in 1..Len(mainQ')
      BY <1>3, <1>4, <1>5, <2>2, <3>1 DEF AfterStage
    <3> QED  BY <1>4, <3>2
  <2> QED  BY <1>1, <1>10, <2>1, <2>2 DEF StreamInv, Awaited
<1>11. Ordered'
  <2> SUFFICES ASSUME NEW n \in 1..Len(mainQ'), mainQ'[n].kind = "kernel"
               PROVE  /\ \A q \in 1..Len(mainQ') : Clash(mainQ'[q], mainQ'[n]) => q < n
                      /\ \A p \in 1..Len(copyQ) : Clash(copyQ[p], mainQ'[n]) =>
                           \E m \in 1..n, r \in p..Len(copyQ') : mainQ'[m].after = copyQ'[r].id
    BY <1>4 DEF Ordered, Guarded, Clash
  <2>1. CASE n \in 1..Len(mainQ) /\ mainQ'[n] = mainQ[n]
    <3>1. ASSUME NEW q \in 1..Len(mainQ'), Clash(mainQ'[q], mainQ'[n])  PROVE q < n
      <4>1. q \in 1..Len(mainQ) /\ mainQ'[q] = mainQ[q]
        BY <1>3, <1>6, <3>1 DEF Clash
      <4> QED  BY <2>1, <3>1, <4>1 DEF StreamInv, Ordered
    <3>2. ASSUME NEW p \in 1..Len(copyQ), Clash(copyQ[p], mainQ'[n])
          PROVE  \E m \in 1..n, r \in p..Len(copyQ') : mainQ'[m].after = copyQ'[r].id
      <4>1. Guarded(n, p)
        BY <2>1, <3>2 DEF StreamInv, Ordered
      <4>2. StillGuarded(n, p)
        BY <1>6a, <2>1, <3>2, <4>1
      <4> QED  BY <4>2 DEF StillGuarded
    <3> QED  BY <3>1, <3>2
  <2>2. CASE n = Len(mainQ) + 1 /\ mainQ'[n] = o
    <3>1. ASSUME NEW q \in 1..Len(mainQ'), Clash(mainQ'[q], mainQ'[n])  PROVE q < n
      <4>1. q \in 1..Len(mainQ)
        BY <1>3, <1>6, <3>1 DEF Clash
      <4> QED  BY <1>5, <2>2, <4>1
    <3>2. ASSUME NEW p \in 1..Len(copyQ), Clash(copyQ[p], mainQ'[n])
          PROVE  \E m \in 1..n, r \in p..Len(copyQ') : mainQ'[m].after = copyQ'[r].id
      <4>1. copyQ[p].block = storage[me].at /\ n = Len(mainQ')
        BY <1>3, <1>5, <2>2, <3>2 DEF Clash
      <4> QED  BY <1>10, <4>1
    <3> QED  BY <3>1, <3>2
  <2> QED  BY <1>6, <2>1, <2>2
<1>12. Awaited'
  <2> SUFFICES ASSUME NEW l \in Layers, NEW p \in 1..Len(copyQ), copyQ[p].block = storage[l].at
               PROVE  \/ pending'[l] /\ \E r \in p..Len(copyQ) : event[l] = copyQ[r].id
                      \/ \E m \in 1..Len(mainQ'), r \in p..Len(copyQ') : mainQ'[m].after = copyQ'[r].id
    BY <1>4 DEF Awaited, Guarded
  <2>1. CASE l = me
    BY <1>10, <2>1
  <2>2. CASE l # me
    <3>1. pending'[l] = pending[l]
      BY <1>1, <1>4, <1>5, <2>2 DEF TypeOK
    <3>2. CASE Guarded(Len(mainQ), p)
      <4>1. StillGuarded(Len(mainQ'), p)
        BY <1>6a, <3>2
      <4> QED  BY <4>1 DEF StillGuarded
    <3> QED  BY <3>1, <3>2 DEF StreamInv, Awaited
  <2> QED  BY <2>1, <2>2
<1> QED  BY <1>1, <1>7, <1>8, <1>9, <1>11, <1>12 DEF StreamInv

\* The streams after operation i, the first of one of them, has run: d and e
\* operations have left the current stream and the copy stream.
RunEffect(i, d, e) ==
  /\ \/ d = 1 /\ e = 0 /\ mainQ # <<>> /\ mainQ[1].after = 0 /\ i = mainQ[1].id
     \/ d = 0 /\ e = 1 /\ copyQ # <<>> /\ i = copyQ[1].id
  /\ Len(mainQ') = Len(mainQ) - d /\ Len(copyQ') = Len(copyQ) - e
  /\ \A n \in 1..Len(mainQ) - d : mainQ'[n] = Later(mainQ[n + d], i)
  /\ \A p \in 1..Len(copyQ) - e : copyQ'[p] = Later(copyQ[p + e], i)

LEMMA TailPast ==
  ASSUME NEW q \in Seq(Operations), q # <<>>, NEW i
  PROVE  /\ Len(Past(Tail(q), i)) = Len(q) - 1
         /\ \A n \in 1..Len(q) - 1 : Past(Tail(q), i)[n] = Later(q[n + 1], i)
<1>1. /\ Tail(q) \in Seq(Operations) /\ Len(Tail(q)) = Len(q) - 1
      /\ \A n \in 1..Len(Tail(q)) : Tail(q)[n] = q[n + 1]
  BY HeadTailProperties
<1>2. /\ Len(Past(Tail(q), i)) = Len(Tail(q))
      /\ \A n \in 1..Len(Tail(q)) : Past(Tail(q), i)[n] = Later(Tail(q)[n], i)
  BY <1>1, PastFacts
<1> QED  BY <1>1, <1>2

LEMMA RunEffects ==
  ASSUME ResidencyAssumption, CacheInv, StreamInv, RunMain \/ RunCopy
  PROVE  \E i \in Nat :
           /\ \E d, e \in 0..1 : RunEffect(i, d, e)
           /\ event' = Without(event, i) /\ busy' = Without(busy, i)
           /\ UNCHANGED <<storage, staged, pending>>
           /\ ~wrong'
<1>1. PICK i \in Nat :
           /\ event' = Without(event, i) /\ busy' = Without(busy, i)
           /\ UNCHANGED <<storage, staged, pending>>
           /\ \/ mainQ # <<>> /\ mainQ[1].after = 0 /\ i = mainQ[1].id
                 /\ mainQ' = Past(Tail(mainQ), i) /\ copyQ' = Past(copyQ, i)
                 /\ wrong' = (wrong \/ Amiss(mainQ[1]))
              \/ copyQ # <<>> /\ copyQ[1].after = 0 /\ i = copyQ[1].id
                 /\ copyQ' = Past(Tail(copyQ), i) /\ mainQ' = Past(mainQ, i)
                 /\ wrong' = (wrong \/ Amiss(copyQ[1]))
  BY RunFacts
<1>2. /\ mainQ \in Seq(Operations) /\ copyQ \in Seq(Operations) /\ TypeOK
      /\ Len(mainQ) \in Nat /\ Len(copyQ) \in Nat /\ ~wrong
      /\ \A n \in 1..Len(copyQ) : copyQ[n] \in Operations
      /\ DOMAIN mainQ = 1..Len(mainQ) /\ DOMAIN copyQ = 1..Len(copyQ)
  BY QueueFacts DEF CacheInv, TypeOK, StreamInv
<1>3. CASE /\ mainQ # <<>> /\ mainQ[1].after = 0 /\ i = mainQ[1].id
           /\ mainQ' = Past(Tail(mainQ), i) /\ copyQ' = Past(copyQ, i)
           /\ wrong' = (wrong \/ Amiss(mainQ[1]))
  <2>1. /\ Len(mainQ') = Len(mainQ) - 1 /\ Len(copyQ') = Len(copyQ) - 0
        /\ \A n \in 1..Len(mainQ) - 1 : mainQ'[n] = Later(mainQ[n + 1], i)
    <3>1. /\ Len(mainQ') = Len(mainQ) - 1
          /\ \A n \in 1..Len(mainQ) - 1 : mainQ'[n] = Later(mainQ[n + 1], i)
      BY <1>2, <1>3, TailPast
    <3>2. Len(copyQ') = Len(copyQ)
      BY <1>2, <1>3, PastFacts
    <3> QED  BY <1>2, <3>1, <3>2
  <2>2. \A p \in 1..Len(copyQ) - 0 : copyQ'[p] = Later(copyQ[p + 0], i)
    <3>1. \A p \in 1..Len(copyQ) : copyQ'[p] = Later(copyQ[p], i)
      BY <1>2, <1>3, PastFacts
    <3>2. \A p \in 1..Len(copyQ) - 0 : p \in 1..Len(copyQ) /\ p + 0 = p
      BY <1>2
    <3> QED  BY <3>1, <3>2
  <2>3. RunEffect(i, 1, 0)
    BY <1>3, <2>1, <2>2 DEF RunEffect
  <2>4. ~Amiss(mainQ[1])
    <3>1. 1 \in 1..Len(mainQ)
      BY <1>2, <1>3
    <3>2. CASE mainQ[1].kind = "kernel"
      <4> SUFFICES ASSUME NEW c \in Ops, Clash(c, mainQ[1])  PROVE FALSE
        BY <3>2 DEF Amiss, Clash
      <4>1. ASSUME NEW q \in 1..Len(mainQ), c = mainQ[q]  PROVE FALSE
        <5>1. q < 1
          BY <3>1, <3>2, <4>1 DEF StreamInv, Ordered
        <5> QED  BY <1>2, <4>1, <5>1
      <4>2. ASSUME NEW p \in 1..Len(copyQ), c = copyQ[p]  PROVE FALSE
        <5>1. Guarded(1, p)
          BY <3>1, <3>2, <4>2 DEF StreamInv, Ordered
        <5>2. PICK r \in p..Len(copyQ) : mainQ[1].after = copyQ[r].id
          BY <5>1 DEF Guarded
        <5>3. copyQ[r] \in Operations
          BY <1>2
        <5> QED  BY <1>3, <5>2, <5>3, OperationFacts
      <4> QED  BY <1>2, <4>1, <4>2 DEF Ops
    <3>3. CASE mainQ[1].kind # "kernel"
      BY <3>1, <3>3 DEF Amiss, StreamInv, Intact, Keeps
    <3> QED  BY <3>2, <3>3
  <2>5. \E d, e \in 0..1 : RunEffect(i, d, e)
    BY <2>3
  <2>6. ~wrong'
    BY <1>2, <1>3, <2>4
  <2> QED  BY <1>1, <2>5, <2>6
<1>4. CASE /\ copyQ # <<>> /\ copyQ[1].after = 0 /\ i = copyQ[1].id
           /\ copyQ' = Past(Tail(copyQ), i) /\ mainQ' = Past(mainQ, i)
           /\ wrong' = (wrong \/ Amiss(copyQ[1]))
  <2>1. /\ Len(copyQ') = Len(copyQ) - 1 /\ Len(mainQ') = Len(mainQ) - 0
        /\ \A n \in 1..Len(copyQ) - 1 : copyQ'[n] = Later(copyQ[n + 1], i)
    <3>1. /\ Len(copyQ') = Len(copyQ) - 1
          /\ \A n \in 1..Len(copyQ) - 1 : copyQ'[n] = Later(copyQ[n + 1], i)
      BY <1>2, <1>4, TailPast
    <3>2. Len(mainQ') = Len(mainQ)
      BY <1>2, <1>4, PastFacts
    <3> QED  BY <1>2, <3>1, <3>2
  <2>2. \A p \in 1..Len(mainQ) - 0 : mainQ'[p] = Later(mainQ[p + 0], i)
    <3>1. \A p \in 1..Len(mainQ) : mainQ'[p] = Later(mainQ[p], i)
      BY <1>2, <1>4, PastFacts
    <3>2. \A p \in 1..Len(mainQ) - 0 : p \in 1..Len(mainQ) /\ p + 0 = p
      BY <1>2
    <3> QED  BY <3>1, <3>2
  <2>3. RunEffect(i, 0, 1)
    BY <1>4, <2>1, <2>2 DEF RunEffect
  <2>4. ~Amiss(copyQ[1])
    <3>1. 1 \in 1..Len(copyQ)
      BY <1>2, <1>4
    <3> QED  BY <3>1 DEF Amiss, StreamInv, Intact, Keeps
  <2>5. \E d, e \in 0..1 : RunEffect(i, d, e)
    BY <2>3
  <2>6. ~wrong'
    BY <1>2, <1>4, <2>4
  <2> QED  BY <1>1, <2>5, <2>6
<1> QED  BY <1>1, <1>3, <1>4

LEMMA RunStream ==
  ASSUME ResidencyAssumption, CacheInv, StreamInv, RunMain \/ RunCopy
  PROVE  StreamInv'
<1>1. PICK i \in Nat :
         /\ \E d, e \in 0..1 : RunEffect(i, d, e)
         /\ event' = Without(event, i) /\ busy' = Without(busy, i)
         /\ UNCHANGED <<storage, staged, pending>>
         /\ ~wrong'
  BY RunEffects
<1>2. PICK d \in 0..1, e \in 0..1 : RunEffect(i, d, e)
  BY <1>1
<1>3. /\ Len(mainQ) \in Nat /\ Len(copyQ) \in Nat
      /\ \A n \in 1..Len(mainQ) : mainQ[n] \in Operations
      /\ \A n \in 1..Len(copyQ) : copyQ[n] \in Operations
  BY QueueFacts DEF CacheInv
<1>4. /\ Len(mainQ') = Len(mainQ) - d /\ Len(copyQ') = Len(copyQ) - e
      /\ Len(mainQ') \in Nat /\ Len(copyQ') \in Nat
  <2>1. (d = 1 => mainQ # <<>>) /\ (e = 1 => copyQ # <<>>)
    BY <1>2 DEF RunEffect
  <2>2. (d = 1 => Len(mainQ) # 0) /\ (e = 1 => Len(copyQ) # 0)
    BY <2>1 DEF CacheInv, TypeOK
  <2> QED  BY <1>2, <1>3, <2>2 DEF RunEffect
<1>5. /\ \A n \in 1..Len(mainQ') : n + d \in 1..Len(mainQ) /\ mainQ'[n] = Later(mainQ[n + d], i)
      /\ \A p \in 1..Len(copyQ') : p + e \in 1..Len(copyQ) /\ copyQ'[p] = Later(copyQ[p + e], i)
  BY <1>2, <1>3, <1>4 DEF RunEffect
\* The others have other numbers.
<1>6. /\ \A n \in 1..Len(mainQ') : mainQ[n + d].id # i
      /\ \A p \in 1..Len(copyQ') : copyQ[p + e].id # i
  <2>1. CASE d = 1 /\ e = 0 /\ mainQ # <<>> /\ i = mainQ[1].id
    <3>1. 1 \in 1..Len(mainQ)
      BY <1>3, <2>1 DEF CacheInv, TypeOK
    <3>2. ASSUME NEW n \in 1..Len(mainQ')  PROVE mainQ[n + d].id # i
      <4>1. n + d \in 1..Len(mainQ) /\ n + d # 1
        BY <1>5, <1>4, <2>1
      <4> QED  BY <2>1, <3>1, <4>1 DEF StreamInv, Numbered
    <3> QED  BY <1>5, <2>1, <3>1, <3>2 DEF StreamInv, Numbered
  <2>2. CASE d = 0 /\ e = 1 /\ copyQ # <<>> /\ i = copyQ[1].id
    <3>1. 1 \in 1..Len(copyQ)
      BY <1>3, <2>2 DEF CacheInv, TypeOK
    <3>2. ASSUME NEW n \in 1..Len(copyQ')  PROVE copyQ[n + e].id # i
      <4>1. n + e \in 1..Len(copyQ) /\ n + e # 1
        BY <1>5, <1>4, <2>2
      <4> QED  BY <2>2, <3>1, <4>1 DEF StreamInv, Numbered
    <3> QED  BY <1>5, <2>2, <3>1, <3>2 DEF StreamInv, Numbered
  <2> QED  BY <1>2, <2>1, <2>2 DEF RunEffect
<1>7. /\ \A n \in 1..Len(mainQ') :
           /\ mainQ'[n].id = mainQ[n + d].id /\ mainQ'[n].kind = mainQ[n + d].kind
           /\ mainQ'[n].block = mainQ[n + d].block /\ mainQ'[n].experts = mainQ[n + d].experts
           /\ mainQ'[n].whole = mainQ[n + d].whole /\ mainQ'[n].from = mainQ[n + d].from
           /\ mainQ[n + d].after # i => mainQ'[n].after = mainQ[n + d].after
      /\ \A p \in 1..Len(copyQ') :
           /\ copyQ'[p].id = copyQ[p + e].id /\ copyQ'[p].kind = copyQ[p + e].kind
           /\ copyQ'[p].block = copyQ[p + e].block /\ copyQ'[p].experts = copyQ[p + e].experts
           /\ copyQ'[p].whole = copyQ[p + e].whole /\ copyQ'[p].from = copyQ[p + e].from
  BY <1>3, <1>5, LaterFacts, SMTT(30)
<1>8. Numbered'
  <2>1. ASSUME NEW j \in 1..Len(mainQ'), NEW k \in 1..Len(mainQ'), mainQ'[j].id = mainQ'[k].id
        PROVE  j = k
    <3>1. j + d \in 1..Len(mainQ) /\ k + d \in 1..Len(mainQ) /\ mainQ[j + d].id = mainQ[k + d].id
      BY <1>5, <1>7, <2>1
    <3>2. j + d = k + d
      BY <3>1 DEF StreamInv, Numbered
    <3> QED  BY <1>4, <3>2
  <2>2. ASSUME NEW j \in 1..Len(copyQ'), NEW k \in 1..Len(copyQ'), copyQ'[j].id = copyQ'[k].id
        PROVE  j = k
    <3>1. j + e \in 1..Len(copyQ) /\ k + e \in 1..Len(copyQ) /\ copyQ[j + e].id = copyQ[k + e].id
      BY <1>5, <1>7, <2>2
    <3>2. j + e = k + e
      BY <3>1 DEF StreamInv, Numbered
    <3> QED  BY <1>4, <3>2
  <2>3. \A j \in 1..Len(mainQ'), k \in 1..Len(copyQ') : mainQ'[j].id # copyQ'[k].id
    BY <1>5, <1>7 DEF StreamInv, Numbered
  <2> QED  BY <2>1, <2>2, <2>3 DEF Numbered
<1>9. Intact'
  <2>1. ASSUME NEW b \in 1..Buffers, busy[b] # i  PROVE busy'[b] = busy[b]
    <3>1. busy \in [1..Buffers -> Nat]
      BY DEF CacheInv, TypeOK
    <3> QED  BY <1>1, <2>1, <3>1 DEF Without
  <2>2. \A c \in Operations : c.from # 0 => c.from \in 1..Buffers
    <3>1. \A c \in Operations : c.from \in 0..Buffers /\ Buffers \in Nat
      BY OperationFacts DEF ResidencyAssumption
    <3> QED  BY <3>1
  <2>3. ASSUME NEW n \in 1..Len(mainQ')  PROVE Keeps(mainQ[n])'
    <3>1. Keeps(mainQ[n + d]) /\ mainQ[n + d] \in Operations /\ mainQ[n + d].id # i
      BY <1>3, <1>5, <1>6 DEF StreamInv, Intact
    <3> QED  BY <1>7, <2>1, <2>2, <3>1 DEF Keeps
  <2>4. ASSUME NEW n \in 1..Len(copyQ')  PROVE Keeps(copyQ[n])' /\ copyQ'[n].kind = "copy"
    <3>1. /\ Keeps(copyQ[n + e]) /\ copyQ[n + e] \in Operations /\ copyQ[n + e].id # i
          /\ copyQ[n + e].kind = "copy"
      BY <1>3, <1>5, <1>6 DEF StreamInv, Intact
    <3> QED  BY <1>7, <2>1, <2>2, <3>1 DEF Keeps
  <2> QED  BY <2>3, <2>4 DEF Intact
<1>10. Held'
  BY <1>1, <1>5, <1>7 DEF StreamInv, Held
<1>11. ASSUME NEW n \in Nat, n + d <= Len(mainQ), NEW p \in 1..Len(copyQ'), Guarded(n + d, p + e)
       PROVE  \E m \in 1..n, r \in p..Len(copyQ') : mainQ'[m].after = copyQ'[r].id
  <2>1. PICK m \in 1..n + d, r \in p + e..Len(copyQ) : mainQ[m].after = copyQ[r].id
    BY <1>11 DEF Guarded
  <2>2. r - e \in p..Len(copyQ') /\ r - e \in 1..Len(copyQ') /\ (r - e) + e = r /\ r \in 1..Len(copyQ)
    BY <1>3, <1>4, <2>1
  <2>3. copyQ[r].id # 0 /\ copyQ[r].id # i /\ copyQ'[r - e].id = copyQ[r].id
    BY <1>3, <1>6, <1>7, <2>2, OperationFacts
  <2>4. m > d
    <3>1. d = 1 => mainQ[1].after = 0
      BY <1>2 DEF RunEffect
    <3>2. m # 1 \/ d = 0
      BY <2>1, <2>3, <3>1
    <3> QED  BY <2>1, <3>2
  <2>5. m - d \in 1..n /\ m - d \in 1..Len(mainQ') /\ (m - d) + d = m
    BY <1>3, <1>4, <1>11, <2>1, <2>4
  <2>6. mainQ'[m - d].after = mainQ[m].after
    BY <1>7, <2>1, <2>3, <2>5
  <2> QED  BY <2>1, <2>2, <2>3, <2>5, <2>6
<1>12. Ordered'
  <2> SUFFICES ASSUME NEW n \in 1..Len(mainQ'), mainQ'[n].kind = "kernel"
               PROVE  /\ \A q \in 1..Len(mainQ') : Clash(mainQ'[q], mainQ'[n]) => q < n
                      /\ \A p \in 1..Len(copyQ') : Clash(copyQ'[p], mainQ'[n]) =>
                           \E m \in 1..n, r \in p..Len(copyQ') : mainQ'[m].after = copyQ'[r].id
    BY DEF Ordered, Guarded, Clash
  <2>1. n + d \in 1..Len(mainQ) /\ mainQ[n + d].kind = "kernel" /\ n \in Nat /\ n + d <= Len(mainQ)
    BY <1>3, <1>5, <1>7
  <2>2. ASSUME NEW q \in 1..Len(mainQ'), Clash(mainQ'[q], mainQ'[n])  PROVE q < n
    <3>1. q + d \in 1..Len(mainQ) /\ Clash(mainQ[q + d], mainQ[n + d])
      BY <1>5, <1>7, <2>2 DEF Clash
    <3>2. q + d < n + d
      BY <2>1, <3>1 DEF StreamInv, Ordered
    <3> QED  BY <3>2
  <2>3. ASSUME NEW p \in 1..Len(copyQ'), Clash(copyQ'[p], mainQ'[n])
        PROVE  \E m \in 1..n, r \in p..Len(copyQ') : mainQ'[m].after = copyQ'[r].id
    <3>1. p + e \in 1..Len(copyQ) /\ Clash(copyQ[p + e], mainQ[n + d])
      BY <1>5, <1>7, <2>3 DEF Clash
    <3>2. Guarded(n + d, p + e)
      BY <2>1, <3>1 DEF StreamInv, Ordered
    <3> QED  BY <1>11, <2>1, <3>2
  <2> QED  BY <2>2, <2>3
<1>13. Awaited'
  <2> SUFFICES ASSUME NEW l \in Layers, NEW p \in 1..Len(copyQ'), copyQ'[p].block = storage[l].at
               PROVE  \/ pending[l] /\ \E r \in p..Len(copyQ') : event'[l] = copyQ'[r].id
                      \/ \E m \in 1..Len(mainQ'), r \in p..Len(copyQ') : mainQ'[m].after = copyQ'[r].id
    BY <1>1 DEF Awaited, Guarded
  <2>1. p + e \in 1..Len(copyQ) /\ copyQ[p + e].block = storage[l].at
    BY <1>5, <1>7
  <2>2. CASE Guarded(Len(mainQ), p + e)
    <3>1. Len(mainQ') \in Nat /\ Len(mainQ') + d = Len(mainQ) /\ Len(mainQ') + d <= Len(mainQ)
      BY <1>3, <1>4
    <3> QED  BY <1>11, <2>2, <3>1
  <2>3. CASE pending[l] /\ \E r \in p + e..Len(copyQ) : event[l] = copyQ[r].id
    <3>1. PICK r \in p + e..Len(copyQ) : event[l] = copyQ[r].id
      BY <2>3
    <3>2. r - e \in p..Len(copyQ') /\ r - e \in 1..Len(copyQ') /\ (r - e) + e = r
      BY <1>3, <1>4, <3>1
    <3>3. copyQ[r].id # i /\ copyQ'[r - e].id = copyQ[r].id
      BY <1>6, <1>7, <3>2
    <3>4. event'[l] = event[l]
      <4>1. event \in [Layers -> Nat]
        BY DEF CacheInv, TypeOK
      <4> QED  BY <1>1, <3>1, <3>3, <4>1 DEF Without
    <3> QED  BY <2>3, <3>1, <3>2, <3>3, <3>4
  <2> QED  BY <2>1, <2>2, <2>3 DEF StreamInv, Awaited
<1> QED  BY <1>1, <1>8, <1>9, <1>10, <1>12, <1>13 DEF StreamInv

LEMMA StreamStep ==
  ASSUME ResidencyAssumption, CacheInv, StreamInv, [Next]_vars
  PROVE  StreamInv'
<1>1. CASE StartPass \/ NextLayer \/ EndPrefill \/ NewRequest \/ Route \/ StageRaises
             \/ NothingMissing \/ UNCHANGED vars
  <2>1. UNCHANGED <<mainQ, copyQ, busy, wrong, storage, staged, event, pending>>
    BY <1>1 DEF StartPass, NextLayer, EndPrefill, NewRequest, Route, StageRaises, NothingMissing,
      vars, cpu, gpu, streams
  <2> QED  BY <2>1, HostStream
<1>2. CASE ReleaseCache
  <2>1. me \in Layers /\ Drop(me) /\ UNCHANGED <<mainQ, copyQ, busy, wrong>>
    BY <1>2, CallFacts DEF ReleaseCache, Ready, CacheInv, streams
  <2> QED  BY <2>1, DropStream
<1>3. CASE DropUnwanted
  <2>1. me \in Layers /\ Drop(me) /\ UNCHANGED <<mainQ, copyQ, busy, wrong>>
    BY <1>3, WantedFacts DEF DropUnwanted, CacheInv, cpu, streams
  <2> QED  BY <2>1, DropStream
<1>4. CASE Evict
  <2>1. Drop(Head(lru)) /\ UNCHANGED <<mainQ, copyQ, busy, wrong>>
    BY <1>4 DEF Evict, cpu, streams
  <2>2. Head(lru) \in Layers
    <3>1. lru \in Seq(Layers) /\ env.cached \in 1..N /\ N \in Nat
      BY DEF CacheInv, TypeOK, AllSettings, ResidencyAssumption
    <3>2. lru # <<>>
      BY <1>4, <3>1 DEF Evict
    <3> QED  BY <3>1, <3>2
  <2> QED  BY <2>1, <2>2, DropStream
<1> QED
  BY <1>1, <1>2, <1>3, <1>4, StageStream, LaunchStream, RunStream DEF Next

-----------------------------------------------------------------------------
(***************************************************************************)
(* Whatever the calls of the passes and the order in which the two streams *)
(* run, the invariant holds.                                               *)
(***************************************************************************)
THEOREM ResidencyInvHolds == Spec => []ResidencyInv
<1>0. ResidencyAssumption
  BY ResidencyAssumption
<1>1. Init => ResidencyInv
  BY <1>0, InitCache, InitStream DEF ResidencyInv
<1>2. ResidencyInv /\ [Next]_vars => ResidencyInv'
  BY <1>0, CacheStep, StreamStep DEF ResidencyInv, StreamInv
<1> QED  BY <1>1, <1>2, PTL DEF Spec

(***************************************************************************)
(* A kernel of forward runs after the copies of its experts into the       *)
(* storage it was given, reads that storage in the format it has, and no   *)
(* copy reads a pinned buffer that was filled again.                       *)
(***************************************************************************)
THEOREM KernelsReadTheirExpertsHolds == Spec => []KernelsReadTheirExperts
<1>1. ResidencyInv => KernelsReadTheirExperts
  BY DEF ResidencyInv, StreamInv, KernelsReadTheirExperts
<1> QED  BY <1>1, ResidencyInvHolds, PTL

(***************************************************************************)
(* _cache_lru lists the layers with GPU memory, within its limit, and the  *)
(* format that forward chooses its kernel by is the format of that memory  *)
(* wherever the int8 copies are kept.                                      *)
(***************************************************************************)
THEOREM CacheTellsWhatIsThereHolds == Spec => []CacheTellsWhatIsThere
<1>1. ASSUME ResidencyInv  PROVE CacheTellsWhatIsThere
  <2>1. TypeOK /\ Listed /\ Noted
    BY <1>1 DEF ResidencyInv, CacheInv
  <2>2. lru \in Seq(Layers) /\ DOMAIN lru = 1..Len(lru)
    BY <2>1 DEF TypeOK
  <2>3. ASSUME ~(env.store = "fp4" /\ env.drops)
        PROVE  ~broken /\ \A l \in Layers : storage[l].at # NoBlock => label[l] = storage[l].format
    BY <2>1, <2>3 DEF Noted
  <2> QED  BY <2>1, <2>2, <2>3 DEF CacheTellsWhatIsThere, Listed
<1> QED  BY <1>1, ResidencyInvHolds, PTL
=============================================================================
