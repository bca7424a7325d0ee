----------------------- MODULE PrefixSnapshotProofs -----------------------
(***************************************************************************)
(* Proofs about PrefixSnapshot, for any prompts over any vocabulary, any   *)
(* number of ranks and clients, and any sizes of blocks, chunks and caches.*)
(***************************************************************************)
EXTENDS PrefixSnapshot, FiniteSetTheorems, SequenceTheorems, WellFoundedInduction, TLAPS

-----------------------------------------------------------------------------
(***************************************************************************)
(* Sequences and numbers.                                                  *)
(***************************************************************************)
LEMMA LeastExists ==
  ASSUME NEW S, S \subseteq Nat, S # {}
  PROVE  \E n \in S : \A m \in S : n <= m
<1>1. PICK n \in S : \A m \in S : ~(<<m, n>> \in OpToRel(<, Nat))
  BY NatLessThanWellFounded, WFMin
<1>2. \A m \in S : <<m, n>> \in OpToRel(<, Nat) <=> m < n
  BY DEF OpToRel
<1>3. \A m \in S : m \in Nat /\ n \in Nat /\ ~(m < n)
  BY <1>1, <1>2
<1>4. \A m \in S : n <= m
  BY <1>3
<1> QED  BY <1>4

LEMMA GreatestExists ==
  ASSUME NEW S, NEW b \in Nat, S \subseteq 0..b, S # {}
  PROVE  \E n \in S : \A m \in S : m <= n
<1> DEFINE T == {b - n : n \in S}
<1>1. T \subseteq Nat /\ T # {}
  <2>1. \A n \in S : b - n \in Nat
    OBVIOUS
  <2> QED  BY <2>1
<1>2. PICK t \in T : \A u \in T : t <= u
  BY <1>1, LeastExists, Zenon
<1>3. PICK n \in S : t = b - n
  OBVIOUS
<1>4. \A m \in S : b - m \in T /\ m \in Nat
  OBVIOUS
<1> HIDE DEF T
<1>5. \A m \in S : b - n <= b - m
  BY <1>2, <1>3, <1>4
<1>6. \A m \in S : m <= n
  BY <1>3, <1>4, <1>5
<1> QED  BY <1>6

LEMMA PrefixFacts ==
  ASSUME NEW S, NEW p \in Seq(S), NEW n \in 0..Len(p)
  PROVE  /\ Prefix(p, n) \in Seq(S) /\ Len(Prefix(p, n)) = n
         /\ n = 0 <=> Prefix(p, n) = <<>>
         /\ \A m \in n..Len(p) : Prefix(p, n) \o SubSeq(p, n + 1, m) = Prefix(p, m)
<1>1. \A i \in 1..n : p[i] \in S
  BY ElementOfSeq
<1>2. Prefix(p, n) \in Seq(S) /\ Len(Prefix(p, n)) = n
  BY <1>1, SubSeqProperties DEF Prefix
<1>3. n = 0 <=> Prefix(p, n) = <<>>
  <2>1. Prefix(p, n) = <<>> <=> Len(Prefix(p, n)) = 0
    BY <1>2
  <2> QED  BY <1>2, <2>1
<1>4. ASSUME NEW m \in n..Len(p)
      PROVE  Prefix(p, n) \o SubSeq(p, n + 1, m) = Prefix(p, m)
  BY ConcatAdjacentSubSeq DEF Prefix
<1> QED  BY <1>2, <1>3, <1>4

LEMMA RemoveAtFacts ==
  ASSUME NEW S, NEW q \in Seq(S), NEW i \in 1..Len(q)
  PROVE  /\ RemoveAt(q, i) \in Seq(S) /\ Len(RemoveAt(q, i)) = Len(q) - 1
         /\ \A j \in 1..Len(q) - 1 :
              RemoveAt(q, i)[j] = IF j < i THEN q[j] ELSE q[j + 1]
<1>1. /\ SubSeq(q, 1, i - 1) \in Seq(S) /\ Len(SubSeq(q, 1, i - 1)) = i - 1
      /\ \A j \in 1..i - 1 : SubSeq(q, 1, i - 1)[j] = q[j]
  <2>1. \A j \in 1..i - 1 : q[j] \in S
    BY ElementOfSeq
  <2>2. /\ SubSeq(q, 1, i - 1) \in Seq(S)
        /\ Len(SubSeq(q, 1, i - 1)) = IF 1 <= i - 1 THEN (i - 1) - 1 + 1 ELSE 0
        /\ \A j \in 1..(i - 1) - 1 + 1 : SubSeq(q, 1, i - 1)[j] = q[1 + j - 1]
    BY <2>1, SubSeqProperties
  <2> QED  BY <2>2
<1>2. /\ SubSeq(q, i + 1, Len(q)) \in Seq(S) /\ Len(SubSeq(q, i + 1, Len(q))) = Len(q) - i
      /\ \A j \in 1..Len(q) - i : SubSeq(q, i + 1, Len(q))[j] = q[i + j]
  <2>1. \A j \in i + 1..Len(q) : q[j] \in S
    BY ElementOfSeq
  <2>2. /\ SubSeq(q, i + 1, Len(q)) \in Seq(S)
        /\ Len(SubSeq(q, i + 1, Len(q))) = IF i + 1 <= Len(q) THEN Len(q) - (i + 1) + 1 ELSE 0
        /\ \A j \in 1..Len(q) - (i + 1) + 1 : SubSeq(q, i + 1, Len(q))[j] = q[i + 1 + j - 1]
    BY <2>1, SubSeqProperties
  <2> QED  BY <2>2
<1> DEFINE a == SubSeq(q, 1, i - 1)
           b == SubSeq(q, i + 1, Len(q))
<1>3. /\ a \o b \in Seq(S) /\ Len(a \o b) = (i - 1) + (Len(q) - i)
      /\ \A j \in 1..(i - 1) + (Len(q) - i) :
           (a \o b)[j] = IF j <= i - 1 THEN a[j] ELSE b[j - (i - 1)]
  <2>1. a \in Seq(S) /\ b \in Seq(S) /\ Len(a) = i - 1 /\ Len(b) = Len(q) - i
    BY <1>1, <1>2
  <2> HIDE DEF a, b
  <2>2. /\ a \o b \in Seq(S) /\ Len(a \o b) = Len(a) + Len(b)
        /\ \A j \in 1..Len(a) + Len(b) :
             (a \o b)[j] = IF j <= Len(a) THEN a[j] ELSE b[j - Len(a)]
    BY <2>1, ConcatProperties
  <2> QED  BY <2>1, <2>2
<1>4. RemoveAt(q, i) = a \o b
  BY DEF RemoveAt
<1> HIDE DEF a, b
<1>5. ASSUME NEW j \in 1..Len(q) - 1
      PROVE  (a \o b)[j] = IF j < i THEN q[j] ELSE q[j + 1]
  <2>1. CASE j < i
    BY <1>1, <1>3, <2>1 DEF a
  <2>2. CASE ~(j < i)
    <3>1. j - (i - 1) \in 1..Len(q) - i /\ i + (j - (i - 1)) = j + 1
      BY <2>2
    <3>2. b[j - (i - 1)] = q[j + 1]
      BY <1>2, <3>1 DEF b
    <3>3. j \in 1..(i - 1) + (Len(q) - i) /\ ~(j <= i - 1)
      BY <2>2
    <3>4. (a \o b)[j] = b[j - (i - 1)]
      BY <1>3, <3>3
    <3> QED  BY <2>2, <3>2, <3>4
  <2> QED  BY <2>1, <2>2
<1> QED  BY <1>3, <1>4, <1>5

-----------------------------------------------------------------------------
(***************************************************************************)
(* The cache of a rank as a list of snapshots without duplicate keys.      *)
(***************************************************************************)
AnyTokens == Seq(Tokens \cup {Generated})
Snapshots == [key : Seq(Tokens), state : AnyTokens]
Distinct(cache) ==
  \A i, j \in 1..Len(cache) : cache[i].key = cache[j].key => i = j
True(cache) == \A i \in 1..Len(cache) : cache[i].state = cache[i].key
Good(cache) == Distinct(cache) /\ True(cache) /\ Len(cache) <= MaxEntries

LEMMA WhereFacts ==
  ASSUME NEW cache \in Seq(Snapshots), NEW key \in Keys(cache)
  PROVE  /\ Where(cache, key) \in 1..Len(cache)
         /\ cache[Where(cache, key)].key = key
         /\ Entry(cache, key) \in Snapshots /\ Entry(cache, key).key = key
<1>1. \E i \in 1..Len(cache) : cache[i].key = key
  BY DEF Keys
<1>2. Where(cache, key) \in 1..Len(cache) /\ cache[Where(cache, key)].key = key
  BY <1>1 DEF Where
<1> QED  BY <1>2 DEF Entry

LEMMA TouchFacts ==
  ASSUME NEW cache \in Seq(Snapshots), NEW key \in Keys(cache)
  PROVE  /\ Touch(cache, key) \in Seq(Snapshots) /\ Len(Touch(cache, key)) = Len(cache)
         /\ Len(cache) \in Nat \ {0}
         /\ \A j \in 1..Len(cache) : Touch(cache, key)[j] =
              IF j = Len(cache) THEN cache[Where(cache, key)]
              ELSE IF j < Where(cache, key) THEN cache[j] ELSE cache[j + 1]
<1> DEFINE n == Len(cache)
           i == Where(cache, key)
           rest == RemoveAt(cache, i)
           e == Entry(cache, key)
<1>1. i \in 1..n /\ e \in Snapshots /\ e = cache[i]
  BY WhereFacts DEF Entry
<1>2. /\ rest \in Seq(Snapshots) /\ Len(rest) = n - 1
      /\ \A j \in 1..n - 1 : rest[j] = IF j < i THEN cache[j] ELSE cache[j + 1]
  BY <1>1, RemoveAtFacts
<1>3. Touch(cache, key) = Append(rest, e)
  BY DEF Touch
<1> HIDE DEF i, rest, e
<1>4. /\ Append(rest, e) \in Seq(Snapshots) /\ Len(Append(rest, e)) = Len(rest) + 1
      /\ \A j \in 1..Len(rest) : Append(rest, e)[j] = rest[j]
      /\ Append(rest, e)[Len(rest) + 1] = e
  BY <1>1, <1>2, AppendProperties
<1>5. n \in Nat \ {0}
  BY <1>1
<1>6. ASSUME NEW j \in 1..n
      PROVE  Append(rest, e)[j] = IF j = n THEN cache[i]
                                  ELSE IF j < i THEN cache[j] ELSE cache[j + 1]
  <2>1. CASE j = n
    BY <1>1, <1>2, <1>4, <1>5, <2>1
  <2>2. CASE j # n
    <3>1. j \in 1..n - 1
      BY <1>5, <2>2
    <3> QED  BY <1>2, <1>4, <2>2, <3>1
  <2> QED  BY <2>1, <2>2
<1> QED  BY <1>1, <1>2, <1>3, <1>4, <1>5, <1>6 DEF i

\* Touching moves entries and changes none.
LEMMA TouchKeeps ==
  ASSUME NEW cache \in Seq(Snapshots), NEW key \in Keys(cache), Distinct(cache)
  PROVE  /\ Keys(Touch(cache, key)) = Keys(cache)
         /\ Distinct(Touch(cache, key))
         /\ True(cache) => True(Touch(cache, key))
         /\ Where(Touch(cache, key), key) = Len(cache)
         /\ Touch(Touch(cache, key), key) = Touch(cache, key)
<1> DEFINE n == Len(cache)
           i == Where(cache, key)
           t == Touch(cache, key)
           From(j) == IF j = n THEN i ELSE IF j < i THEN j ELSE j + 1
<1>1. i \in 1..n /\ n \in Nat \ {0} /\ cache[i].key = key
  BY WhereFacts, TouchFacts
<1>2. t \in Seq(Snapshots) /\ Len(t) = n
  BY TouchFacts
<1>3. \A j \in 1..n : From(j) \in 1..n /\ t[j] = cache[From(j)]
  BY <1>1, TouchFacts
<1>4. \A j, l \in 1..n : From(j) = From(l) => j = l
  BY <1>1
<1>5. \A l \in 1..n : \E j \in 1..n : From(j) = l
  <2> SUFFICES ASSUME NEW l \in 1..n PROVE \E j \in 1..n : From(j) = l
    OBVIOUS
  <2>1. CASE l = i  BY <1>1, <2>1
  <2>2. CASE l < i
    <3>1. l \in 1..n /\ From(l) = l
      BY <1>1, <2>2
    <3> QED  BY <3>1
  <2>3. CASE l > i
    <3>1. l - 1 \in 1..n /\ From(l - 1) = l
      BY <1>1, <2>3
    <3> QED  BY <3>1
  <2> QED  BY <1>1, <2>1, <2>2, <2>3
<1> HIDE DEF From, t, i
<1>6. Keys(t) = Keys(cache)
  <2>1. \A x : x \in Keys(t) <=> \E j \in 1..n : x = t[j].key
    BY <1>2 DEF Keys
  <2>2. \A x : x \in Keys(cache) <=> \E j \in 1..n : x = cache[j].key
    BY DEF Keys
  <2>3. ASSUME NEW x, x \in Keys(t)  PROVE x \in Keys(cache)
    BY <1>3, <2>1, <2>2, <2>3
  <2>4. ASSUME NEW x, x \in Keys(cache)  PROVE x \in Keys(t)
    <3>1. PICK l \in 1..n : x = cache[l].key
      BY <2>2, <2>4
    <3>2. PICK j \in 1..n : From(j) = l
      BY <1>5
    <3>3. x = t[j].key
      BY <1>3, <3>1, <3>2
    <3> QED  BY <2>1, <3>3
  <2> QED  BY <2>3, <2>4
<1>7. Distinct(t)
  <2>1. ASSUME NEW j \in 1..n, NEW l \in 1..n, t[j].key = t[l].key  PROVE j = l
    <3>1. From(j) \in 1..n /\ From(l) \in 1..n /\ cache[From(j)].key = cache[From(l)].key
      BY <1>3, <2>1
    <3>2. From(j) = From(l)
      BY <3>1 DEF Distinct
    <3> QED  BY <1>4, <3>2
  <2> QED  BY <1>2, <2>1 DEF Distinct
<1>8. True(cache) => True(t)
  BY <1>2, <1>3 DEF True
<1>9. t[n].key = key
  BY <1>1, <1>3 DEF From
<1>10. Where(t, key) = n
  <2>1. \A j \in 1..Len(t) : t[j].key = key <=> j = n
    BY <1>1, <1>2, <1>7, <1>9 DEF Distinct
  <2>2. n \in 1..Len(t)
    BY <1>1, <1>2
  <2> QED  BY <2>1, <2>2 DEF Where
<1>11. Touch(t, key) = t
  <2>0. key \in Keys(t)
    BY <1>6
  <2>1. /\ Touch(t, key) \in Seq(Snapshots) /\ Len(Touch(t, key)) = Len(t)
        /\ \A j \in 1..Len(t) : Touch(t, key)[j] =
             IF j = Len(t) THEN t[Where(t, key)]
             ELSE IF j < Where(t, key) THEN t[j] ELSE t[j + 1]
    BY <1>2, <2>0, TouchFacts
  <2>2. \A j \in 1..Len(t) : Touch(t, key)[j] = t[j]
    BY <1>1, <1>2, <1>10, <2>1
  <2> QED  BY <1>2, <2>1, <2>2, SeqEqual
<1> QED  BY <1>6, <1>7, <1>8, <1>10, <1>11 DEF t

LEMMA TailKeeps ==
  ASSUME NEW cache \in Seq(Snapshots), cache # <<>>, Distinct(cache), True(cache)
  PROVE  /\ Tail(cache) \in Seq(Snapshots) /\ Len(Tail(cache)) = Len(cache) - 1
         /\ Distinct(Tail(cache)) /\ True(Tail(cache))
<1>1. /\ Tail(cache) \in Seq(Snapshots) /\ Len(Tail(cache)) = Len(cache) - 1
      /\ \A i \in 1..Len(Tail(cache)) : Tail(cache)[i] = cache[i + 1]
  BY HeadTailProperties
<1>2. \A i \in 1..Len(Tail(cache)) : i \in Nat /\ i + 1 \in 1..Len(cache)
  BY <1>1
<1>3. Distinct(Tail(cache))
  <2> SUFFICES ASSUME NEW i \in 1..Len(Tail(cache)), NEW j \in 1..Len(Tail(cache)),
                      Tail(cache)[i].key = Tail(cache)[j].key
               PROVE  i = j
    BY DEF Distinct
  <2>1. cache[i + 1].key = cache[j + 1].key /\ i + 1 \in 1..Len(cache) /\ j + 1 \in 1..Len(cache)
    BY <1>1, <1>2
  <2>2. i + 1 = j + 1
    BY <2>1 DEF Distinct
  <2> QED  BY <1>2, <2>2
<1>4. True(Tail(cache))
  <2> SUFFICES ASSUME NEW i \in 1..Len(Tail(cache))
               PROVE  Tail(cache)[i].state = Tail(cache)[i].key
    BY DEF True
  <2>1. Tail(cache)[i] = cache[i + 1] /\ i + 1 \in 1..Len(cache)
    BY <1>1, <1>2
  <2> QED  BY <2>1 DEF True
<1> QED  BY <1>1, <1>3, <1>4

LEMMA InsertKeeps ==
  ASSUME NEW cache \in Seq(Snapshots), Good(cache), NEW key \in Seq(Tokens), key \notin Keys(cache)
  PROVE  Insert(cache, key, key) \in Seq(Snapshots) /\ Good(Insert(cache, key, key))
<1> DEFINE e == [key |-> key, state |-> key]
           grown == Append(cache, e)
<1>0. Len(cache) \in Nat /\ MaxEntries \in Nat \ {0} /\ Len(cache) <= MaxEntries
  BY SnapshotAssumption DEF Good
<1>1. e \in Snapshots
  <2>1. key \in AnyTokens
    BY SeqMonotonic DEF AnyTokens
  <2> QED  BY <2>1 DEF Snapshots
<1>2. /\ grown \in Seq(Snapshots) /\ Len(grown) = Len(cache) + 1
      /\ \A j \in 1..Len(cache) : grown[j] = cache[j]
      /\ grown[Len(cache) + 1] = e
  BY <1>1, AppendProperties
<1>3. \A j \in 1..Len(cache) : cache[j].key # key
  BY DEF Keys
<1>4. e.key = key /\ e.state = key
  OBVIOUS
<1>5. Insert(cache, key, key) = IF Len(grown) > MaxEntries THEN Tail(grown) ELSE grown
  BY DEF Insert
<1> HIDE DEF e, grown
<1>6. Distinct(grown)
  <2> SUFFICES ASSUME NEW i \in 1..Len(grown), NEW j \in 1..Len(grown),
                      grown[i].key = grown[j].key
               PROVE  i = j
    BY DEF Distinct
  <2>1. (i \in 1..Len(cache) \/ i = Len(cache) + 1) /\ (j \in 1..Len(cache) \/ j = Len(cache) + 1)
    BY <1>0, <1>2
  <2> QED  BY <1>2, <1>3, <1>4, <2>1 DEF Good, Distinct
<1>7. True(grown)
  <2> SUFFICES ASSUME NEW i \in 1..Len(grown)  PROVE grown[i].state = grown[i].key
    BY DEF True
  <2>1. i \in 1..Len(cache) \/ i = Len(cache) + 1
    BY <1>0, <1>2
  <2> QED  BY <1>2, <1>4, <2>1 DEF Good, True
<1>8. CASE Len(grown) > MaxEntries
  <2>1. grown # <<>>
    BY <1>0, <1>2
  <2>2. /\ Tail(grown) \in Seq(Snapshots) /\ Len(Tail(grown)) = Len(grown) - 1
        /\ Distinct(Tail(grown)) /\ True(Tail(grown))
    BY <1>2, <1>6, <1>7, <2>1, TailKeeps
  <2>3. Len(Tail(grown)) <= MaxEntries
    BY <1>0, <1>2, <2>2
  <2> QED  BY <1>5, <1>8, <2>2, <2>3 DEF Good
<1>9. CASE ~(Len(grown) > MaxEntries)
  <2>1. Len(grown) <= MaxEntries
    BY <1>0, <1>2, <1>9
  <2> QED  BY <1>2, <1>5, <1>6, <1>7, <1>9, <2>1 DEF Good
<1> QED  BY <1>8, <1>9

\* A cache has as many keys as entries.
LEMMA KeysCounted ==
  ASSUME NEW cache \in Seq(Snapshots), Distinct(cache)
  PROVE  Cardinality(Keys(cache)) = Len(cache)
<1> DEFINE f == [i \in 1..Len(cache) |-> cache[i].key]
<1>1. f \in Surjection(1..Len(cache), Keys(cache))
  BY DEF Surjection, Keys
<1>2. f \in Injection(1..Len(cache), Keys(cache))
  BY DEF Injection, IsInjective, Keys, Distinct
<1>3. IsFiniteSet(1..Len(cache)) /\ Cardinality(1..Len(cache)) = Len(cache)
  <2>1. Len(cache) \in Nat
    OBVIOUS
  <2>2. Cardinality(1..Len(cache)) = IF 1 > Len(cache) THEN 0 ELSE Len(cache) - 1 + 1
    BY <2>1, FS_Interval
  <2>3. IsFiniteSet(1..Len(cache))
    BY <2>1, FS_Interval
  <2> QED  BY <2>1, <2>2, <2>3
<1>4. Cardinality(Keys(cache)) = Cardinality(1..Len(cache))
  BY <1>1, <1>2, <1>3, FS_Surjection
<1> QED  BY <1>3, <1>4

-----------------------------------------------------------------------------
(***************************************************************************)
(* Types, and what makes a snapshot true.  SnapshotsTrue is not inductive: *)
(* a capture files the state under the position where the rank is, and     *)
(* that the state is that of the position rests on every restore and every *)
(* forward before it; a restore rests on the hint fitting the prompt it    *)
(* was made for, although the caches go on changing after the lookup.      *)
(***************************************************************************)
Places == {"idle", "settings", "forward", "capture", "decode", "decoded"}
Stages == {"new", "hinted", "queued", "done"}

TypeOK ==
  /\ conf \in [orderly : BOOLEAN, all : BOOLEAN, chunk : Nat]
  /\ stage \in [Requests -> Stages]
  /\ ask \in [Requests -> [prompt : Seq(Tokens), kind : Kinds]]
  /\ hint \in [Requests -> [match : Seq(Tokens), captures : SUBSET Nat]]
  /\ queue \in Seq(Requests)
  /\ job \in Requests \cup {Nobody}
  /\ at \in [Ranks -> Places]
  /\ pos \in [Ranks -> Nat]
  /\ pending \in [Ranks -> SUBSET Nat]
  /\ chunked \in [Ranks -> BOOLEAN]
  /\ kv \in [Ranks -> AnyTokens]
  /\ lru \in [Ranks -> Seq(Snapshots)]

\* What lookup_hint returned fits the prompt of r.
Fits(p, m) == m # <<>> => Len(m) < Len(p) /\ m = Prefix(p, Len(m))
Fitting == \A r \in Requests :
  /\ IF stage[r] = "new" THEN hint[r].match = <<>> ELSE ask[r].prompt # <<>>
  /\ Fits(ask[r].prompt, hint[r].match)
\* A request in the queue, or running, is past its lookup.
Asked ==
  /\ \A i \in 1..Len(queue) : stage[queue[i]] # "new"
  /\ (\E k \in Ranks : at[k] # "idle") => job \in Requests /\ stage[job] # "new"
Filed == \A k \in Ranks : Good(lru[k])
\* Where a rank is in its prompt, and what its model has seen.
Placed(k) ==
  /\ at[k] = "forward" => /\ pos[k] < Len(Prompt)
                          /\ pos[k] > 0 => kv[k] = Prefix(Prompt, pos[k])
  /\ at[k] = "capture" => pos[k] \in 1..Len(Prompt) /\ kv[k] = Prefix(Prompt, pos[k])
AllPlaced == \A k \in Ranks : Placed(k)
TrueInv == TypeOK /\ Fitting /\ Asked /\ Filed /\ AllPlaced

LEMMA EmptyFits == \A S : <<>> \in Seq(S)
  OBVIOUS

LEMMA TrueInit == Init => TrueInv
<1> SUFFICES ASSUME Init PROVE TrueInv
  OBVIOUS
<1>1. TypeOK
  <2>1. conf \in [orderly : BOOLEAN, all : BOOLEAN, chunk : Nat]
    BY SnapshotAssumption DEF Init
  <2>2. NoHint \in [match : Seq(Tokens), captures : SUBSET Nat]
    BY EmptyFits DEF NoHint
  <2>3. [prompt |-> <<>>, kind |-> "plain"] \in [prompt : Seq(Tokens), kind : Kinds]
    BY EmptyFits DEF Kinds
  <2>4. <<>> \in AnyTokens /\ <<>> \in Seq(Snapshots) /\ <<>> \in Seq(Requests)
    BY EmptyFits DEF AnyTokens
  <2> QED  BY <2>1, <2>2, <2>3, <2>4 DEF Init, TypeOK, Stages, Places
<1>2. Fitting
  BY DEF Init, Fitting, Fits, NoHint
<1>3. Asked
  BY DEF Init, Asked
<1>4. Filed
  <2>1. Good(<<>>)
    BY SnapshotAssumption DEF Good, Distinct, True
  <2> QED  BY <2>1 DEF Init, Filed
<1>5. AllPlaced
  BY DEF Init, AllPlaced, Placed
<1> QED  BY <1>1, <1>2, <1>3, <1>4, <1>5 DEF TrueInv

LEMMA FloorType == \A n \in Nat : Floor(n) \in Nat
<1> SUFFICES ASSUME NEW n \in Nat PROVE Floor(n) \in Nat
  OBVIOUS
<1>1. Block \in Nat \ {0}
  BY SnapshotAssumption
<1>2. n \div Block \in Nat
  BY <1>1
<1> QED  BY <1>1, <1>2 DEF Floor

LEMMA LongestFacts ==
  ASSUME NEW p \in Seq(Tokens), p # <<>>
  PROVE  /\ Longest(p) \in 0..Len(p) - 1
         /\ Longest(p) # 0 => Longest(p) \in Known(p)
<1>1. Len(p) \in Nat \ {0}
  OBVIOUS
<1>2. Known(p) \subseteq 0..Len(p) - 1
  BY <1>1 DEF Known, Tried
<1>3. CASE Known(p) # {}
  <2>1. \E n \in Known(p) : \A m \in Known(p) : m <= n
    <3>1. Len(p) - 1 \in Nat
      BY <1>1
    <3> QED  BY <1>2, <1>3, <3>1, GreatestExists, Zenon
  <2>2. Longest(p) \in Known(p)
    BY <1>3, <2>1 DEF Longest
  <2> QED  BY <1>2, <2>2
<1>4. CASE Known(p) = {}
  BY <1>1, <1>4 DEF Longest
<1> QED  BY <1>3, <1>4

\* The prompt that the ranks are running does not change under them.
LEMMA PlacedKept ==
  ASSUME AllPlaced, UNCHANGED <<at, pos, kv>>,
         (\E k \in Ranks : at[k] # "idle") => Prompt' = Prompt
  PROVE  AllPlaced'
<1> SUFFICES ASSUME NEW k \in Ranks, at[k] # "idle" PROVE Placed(k)'
  BY DEF AllPlaced, Placed
<1> QED  BY DEF AllPlaced, Placed

LEMMA LookupTrue ==
  ASSUME TrueInv, NEW r \in Requests, Lookup(r)
  PROVE  TrueInv'
<1> USE DEF TrueInv, TypeOK
<1>1. PICK p \in Prompts, kind \in Kinds :
        /\ ask' = [ask EXCEPT ![r] = [prompt |-> p, kind |-> kind]]
        /\ IF Floor(Len(p)) < MinTokens
             THEN UNCHANGED <<hint, lru>>
             ELSE /\ hint' = [hint EXCEPT ![r] = [match |-> Prefix(p, Longest(p)),
                                                  captures |-> CapturePositions(p)]]
                  /\ lru' = IF Longest(p) = 0 THEN lru
                            ELSE [lru EXCEPT ![0] = Touch(@, Prefix(p, Longest(p)))]
  BY DEF Lookup
<1>2. /\ stage[r] = "new" /\ stage' = [stage EXCEPT ![r] = "hinted"]
      /\ UNCHANGED <<conf, queue, job, at, pos, pending, chunked, kv>>
  BY DEF Lookup
<1>3. p \in Seq(Tokens) /\ p # <<>> /\ Len(p) \in Nat /\ 0 \in Ranks
  BY SnapshotAssumption
<1>4. /\ Longest(p) \in 0..Len(p) - 1
      /\ Longest(p) # 0 => Prefix(p, Longest(p)) \in Keys(lru[0])
  BY <1>3, LongestFacts DEF Known
<1>5. /\ Prefix(p, Longest(p)) \in Seq(Tokens)
      /\ Fits(p, Prefix(p, Longest(p)))
  <2>1. Longest(p) \in 0..Len(p) /\ Longest(p) < Len(p)
    BY <1>3, <1>4
  <2>2. /\ Prefix(p, Longest(p)) \in Seq(Tokens)
        /\ Len(Prefix(p, Longest(p))) = Longest(p)
    BY <1>3, <2>1, PrefixFacts
  <2> QED  BY <2>1, <2>2 DEF Fits
<1>6. CapturePositions(p) \in SUBSET Nat
  BY <1>3, FloorType DEF CapturePositions
<1>7. lru' \in [Ranks -> Seq(Snapshots)] /\ Filed'
  <2>1. CASE lru' = lru
    BY <2>1 DEF Filed
  <2>2. CASE Longest(p) # 0 /\ lru' = [lru EXCEPT ![0] = Touch(@, Prefix(p, Longest(p)))]
    <3> DEFINE q == Touch(lru[0], Prefix(p, Longest(p)))
    <3>1. lru[0] \in Seq(Snapshots) /\ Good(lru[0]) /\ Prefix(p, Longest(p)) \in Keys(lru[0])
      BY <1>3, <1>4, <2>2 DEF Filed
    <3>2. q \in Seq(Snapshots) /\ Good(q)
      BY <3>1, TouchFacts, TouchKeeps DEF Good
    <3> HIDE DEF q
    <3>3. lru' = [lru EXCEPT ![0] = q]
      BY <2>2 DEF q
    <3> QED  BY <3>2, <3>3 DEF Filed
  <2> QED  BY <1>1, <2>1, <2>2
<1>8. TypeOK'
  <2>1. hint' \in [Requests -> [match : Seq(Tokens), captures : SUBSET Nat]]
    <3> DEFINE h == [match |-> Prefix(p, Longest(p)), captures |-> CapturePositions(p)]
    <3>1. h \in [match : Seq(Tokens), captures : SUBSET Nat]
      BY <1>5, <1>6
    <3>2. hint' = hint \/ hint' = [hint EXCEPT ![r] = h]
      BY <1>1
    <3> HIDE DEF h
    <3> QED  BY <3>1, <3>2
  <2>2. ask' \in [Requests -> [prompt : Seq(Tokens), kind : Kinds]]
    BY <1>1, <1>3
  <2>3. stage' \in [Requests -> Stages]
    BY <1>2 DEF Stages
  <2> QED  BY <1>2, <1>7, <2>1, <2>2, <2>3
<1>9. Fitting'
  <2> SUFFICES ASSUME NEW s \in Requests
               PROVE  /\ IF stage'[s] = "new" THEN hint'[s].match = <<>> ELSE ask'[s].prompt # <<>>
                      /\ Fits(ask'[s].prompt, hint'[s].match)
    BY DEF Fitting
  <2>1. CASE s # r
    <3>1. stage'[s] = stage[s] /\ ask'[s] = ask[s] /\ hint'[s] = hint[s]
      BY <1>1, <1>2, <2>1
    <3> QED  BY <3>1 DEF Fitting
  <2>2. CASE s = r
    <3>1. stage'[r] = "hinted" /\ ask'[r].prompt = p
      BY <1>1, <1>2
    <3>2. hint'[r].match = Prefix(p, Longest(p)) \/ hint'[r].match = <<>>
      BY <1>1, <1>2 DEF Fitting
    <3>3. Fits(p, <<>>)
      BY DEF Fits
    <3> QED  BY <1>3, <1>5, <2>2, <3>1, <3>2, <3>3
  <2> QED  BY <2>1, <2>2
<1>10. Asked'
  BY <1>2 DEF Asked
<1>11. AllPlaced'
  <2>1. (\E k \in Ranks : at[k] # "idle") => Prompt' = Prompt
    BY <1>1, <1>2 DEF Asked, Prompt
  <2> QED  BY <1>2, <2>1, PlacedKept
<1> QED  BY <1>7, <1>8, <1>9, <1>10, <1>11

LEMMA SubmitTrue ==
  ASSUME TrueInv, NEW r \in Requests, Submit(r)
  PROVE  TrueInv'
<1> USE DEF TrueInv, TypeOK
<1>1. /\ stage[r] = "hinted"
      /\ UNCHANGED <<conf, ask, hint, job, at, pos, pending, chunked, kv, lru>>
      /\ \/ stage' = [stage EXCEPT ![r] = "queued"] /\ queue' = Append(queue, r)
         \/ stage' = [stage EXCEPT ![r] = "done"] /\ queue' = queue
  BY DEF Submit
<1>2. /\ queue' \in Seq(Requests)
      /\ \A i \in 1..Len(queue') : queue'[i] = r \/ (i \in 1..Len(queue) /\ queue'[i] = queue[i])
  <2>1. CASE queue' = queue
    BY <2>1
  <2>2. CASE queue' = Append(queue, r)
    <3>1. /\ Append(queue, r) \in Seq(Requests) /\ Len(Append(queue, r)) = Len(queue) + 1
          /\ \A i \in 1..Len(queue) : Append(queue, r)[i] = queue[i]
          /\ Append(queue, r)[Len(queue) + 1] = r
      BY AppendProperties
    <3>2. \A i \in 1..Len(queue) + 1 : i \in 1..Len(queue) \/ i = Len(queue) + 1
      OBVIOUS
    <3> QED  BY <2>2, <3>1, <3>2
  <2> QED  BY <1>1, <2>1, <2>2
<1>3. stage' \in [Requests -> Stages] /\ \A s \in Requests : stage'[s] = "new" <=> stage[s] = "new"
  BY <1>1 DEF Stages
<1>4. Asked'
  <2>1. \A i \in 1..Len(queue') : stage'[queue'[i]] # "new"
    <3> SUFFICES ASSUME NEW i \in 1..Len(queue') PROVE stage'[queue'[i]] # "new"
      OBVIOUS
    <3>1. CASE queue'[i] = r
      BY <1>1, <1>3, <3>1
    <3>2. CASE i \in 1..Len(queue) /\ queue'[i] = queue[i]
      <4>1. queue[i] \in Requests /\ stage[queue[i]] # "new"
        BY <3>2 DEF Asked
      <4> QED  BY <1>3, <3>2, <4>1
    <3> QED  BY <1>2, <3>1, <3>2
  <2>2. (\E k \in Ranks : at'[k] # "idle") => job' \in Requests /\ stage'[job'] # "new"
    BY <1>1, <1>3 DEF Asked
  <2> QED  BY <2>1, <2>2 DEF Asked
<1>5. Fitting' /\ Filed'
  BY <1>1, <1>3 DEF Fitting, Filed
<1>6. AllPlaced'
  BY <1>1, PlacedKept DEF Prompt
<1> QED  BY <1>1, <1>2, <1>3, <1>4, <1>5, <1>6

LEMMA BroadcastTrue ==
  ASSUME TrueInv, Broadcast
  PROVE  TrueInv'
<1> USE DEF TrueInv, TypeOK
<1>1. /\ queue # <<>> /\ job' = Head(queue) /\ queue' = Tail(queue)
      /\ at' = [k \in Ranks |-> "settings"]
      /\ UNCHANGED <<conf, stage, ask, hint, pos, pending, chunked, kv, lru>>
  BY DEF Broadcast
<1>2. /\ Head(queue) \in Requests /\ Head(queue) = queue[1] /\ 1 \in 1..Len(queue)
      /\ Tail(queue) \in Seq(Requests) /\ Len(Tail(queue)) = Len(queue) - 1
      /\ \A i \in 1..Len(Tail(queue)) : Tail(queue)[i] = queue[i + 1]
  BY <1>1, HeadTailProperties
<1>3. \A i \in 1..Len(Tail(queue)) : i + 1 \in 1..Len(queue)
  BY <1>2
<1>4. Asked'
  BY <1>1, <1>2, <1>3 DEF Asked
<1>5. Fitting' /\ Filed' /\ AllPlaced'
  BY <1>1 DEF Fitting, Filed, AllPlaced, Placed
<1> QED  BY <1>1, <1>2, <1>4, <1>5 DEF Places

LEMMA PendingType ==
  ASSUME TypeOK, job \in Requests, NEW n
  PROVE  PendingFrom(n) \in SUBSET Nat
  BY DEF TypeOK, PendingFrom

LEMMA SettingsTrue ==
  ASSUME TrueInv, NEW k \in Ranks, Settings(k)
  PROVE  TrueInv'
<1> USE DEF TrueInv, TypeOK
<1> DEFINE m == hint[job].match
<1>1. /\ at[k] = "settings" /\ at' = [at EXCEPT ![k] = "forward"]
      /\ pos' = [pos EXCEPT ![k] = Start(k)]
      /\ pending' = [pending EXCEPT ![k] = PendingFrom(Start(k))]
      /\ chunked' = [chunked EXCEPT ![k] = conf.chunk > 0 /\ Len(Prompt) - Start(k) > conf.chunk]
      /\ IF Restores(k) THEN lru' = Touched(k) /\ kv' = Copied(k) ELSE UNCHANGED <<lru, kv>>
      /\ UNCHANGED <<conf, stage, ask, hint, queue, job>>
  BY DEF Settings, Begin, handlers
<1>2. job \in Requests /\ Prompt \in Seq(Tokens) /\ Prompt # <<>> /\ m \in Seq(Tokens)
  BY <1>1 DEF Asked, Fitting, Prompt
<1>3. Start(k) \in Nat /\ Start(k) < Len(Prompt)
  BY <1>2 DEF Start, Restores
<1>4. lru[k] \in Seq(Snapshots) /\ Good(lru[k])
  BY DEF Filed
<1>5. /\ lru' \in [Ranks -> Seq(Snapshots)] /\ Filed' /\ kv' \in [Ranks -> AnyTokens]
      /\ Start(k) > 0 => kv'[k] = Prefix(Prompt, Start(k))
      /\ \A j \in Ranks : j # k => kv'[j] = kv[j]
  <2>1. CASE ~Restores(k)
    BY <1>1, <2>1 DEF Start, Filed
  <2>2. CASE Restores(k)
    <3>1. m # <<>> /\ m \in Keys(lru[k]) /\ Start(k) = Len(m) /\ m = Prefix(Prompt, Len(m))
      BY <1>2, <2>2 DEF Restores, Start, Fitting, Fits, Prompt
    <3>2. Touch(lru[k], m) \in Seq(Snapshots) /\ Good(Touch(lru[k], m))
      BY <1>4, <3>1, TouchFacts, TouchKeeps DEF Good
    <3>3. Entry(lru[k], m).state = m
      <4>1. Where(lru[k], m) \in 1..Len(lru[k]) /\ lru[k][Where(lru[k], m)].key = m
        BY <1>4, <3>1, WhereFacts
      <4> QED  BY <1>4, <4>1 DEF Good, True, Entry
    <3>4. m \in AnyTokens
      BY <1>2, SeqMonotonic DEF AnyTokens
    <3>5. lru' = [lru EXCEPT ![k] = Touch(lru[k], m)] /\ kv' = [kv EXCEPT ![k] = m]
      BY <1>1, <2>2, <3>3 DEF Touched, Copied
    <3>6. lru' \in [Ranks -> Seq(Snapshots)] /\ Filed'
      BY <3>2, <3>5 DEF Filed
    <3>7. kv' \in [Ranks -> AnyTokens] /\ kv'[k] = m /\ \A j \in Ranks : j # k => kv'[j] = kv[j]
      BY <3>4, <3>5
    <3> QED  BY <3>1, <3>6, <3>7
  <2> QED  BY <2>1, <2>2
<1>6. TypeOK'
  <2>1. pending' \in [Ranks -> SUBSET Nat]
    BY <1>1, <1>2, PendingType
  <2>2. pos' \in [Ranks -> Nat] /\ at' \in [Ranks -> Places]
    BY <1>1, <1>3 DEF Places
  <2>3. chunked' \in [Ranks -> BOOLEAN]
    BY <1>1
  <2> QED  BY <1>1, <1>5, <2>1, <2>2, <2>3
<1>7. Fitting' /\ Asked'
  BY <1>1 DEF Fitting, Asked
<1>8. AllPlaced'
  <2>0. Prompt' = Prompt
    BY <1>1 DEF Prompt
  <2>1. Placed(k)'
    BY <1>1, <1>3, <1>5, <2>0 DEF Placed
  <2>2. ASSUME NEW j \in Ranks, j # k  PROVE Placed(j)'
    <3>1. at'[j] = at[j] /\ pos'[j] = pos[j] /\ kv'[j] = kv[j]
      BY <1>1, <1>5, <2>2
    <3> QED  BY <2>0, <3>1 DEF AllPlaced, Placed
  <2> QED  BY <2>1, <2>2 DEF AllPlaced
<1> QED  BY <1>5, <1>6, <1>7, <1>8

LEMMA EndFacts ==
  ASSUME TrueInv, NEW k \in Ranks, at[k] = "forward"
  PROVE  End(k) \in Nat /\ pos[k] < End(k) /\ End(k) <= Len(Prompt)
<1> USE DEF TrueInv, TypeOK
<1>1. job \in Requests /\ Prompt \in Seq(Tokens) /\ Len(Prompt) \in Nat /\ pos[k] < Len(Prompt)
  BY DEF Asked, AllPlaced, Placed, Prompt
<1>2. Ends(k) \subseteq Nat /\ Len(Prompt) \in Ends(k)
  <2>1. CASE ask[job].kind = "logits"
    BY <1>1, <2>1 DEF Ends
  <2>2. CASE ask[job].kind # "logits" /\ chunked[k]
    BY <1>1, <2>2 DEF Ends
  <2>3. CASE ask[job].kind # "logits" /\ ~chunked[k]
    BY <1>1, <2>3 DEF Ends
  <2> QED  BY <2>1, <2>2, <2>3
<1> DEFINE ends == {n \in Ends(k) : n > pos[k]}
<1>3. ends \subseteq Nat /\ Len(Prompt) \in ends
  BY <1>1, <1>2
<1>4. \E n \in ends : \A l \in ends : n <= l
  BY <1>3, LeastExists, Zenon
<1>5. End(k) \in ends /\ \A l \in ends : End(k) <= l
  BY <1>4 DEF End
<1> QED  BY <1>3, <1>5

LEMMA ForwardTrue ==
  ASSUME TrueInv, Forward
  PROVE  TrueInv'
<1> USE DEF TrueInv, TypeOK
<1>1. /\ \A k \in Ranks : at[k] = "forward"
      /\ kv' = [k \in Ranks |-> (IF pos[k] = 0 THEN <<>> ELSE kv[k])
                                   \o SubSeq(Prompt, pos[k] + 1, End(k))]
      /\ pos' = [k \in Ranks |-> End(k)]
      /\ at' = [k \in Ranks |-> "capture"]
      /\ UNCHANGED <<conf, stage, ask, hint, queue, job, pending, chunked, lru>>
  BY DEF Forward, handlers
<1>2. ASSUME NEW k \in Ranks
      PROVE  kv'[k] = Prefix(Prompt, End(k)) /\ kv'[k] \in AnyTokens /\ End(k) \in 1..Len(Prompt)
  <2>1. job \in Requests /\ Prompt \in Seq(Tokens) /\ Len(Prompt) \in Nat /\ pos[k] < Len(Prompt)
    BY <1>1 DEF Asked, AllPlaced, Placed, Prompt
  <2>2. End(k) \in 1..Len(Prompt) /\ pos[k] \in 0..Len(Prompt) /\ End(k) \in pos[k]..Len(Prompt)
    BY <1>1, <2>1, EndFacts
  <2>3. (IF pos[k] = 0 THEN <<>> ELSE kv[k]) = Prefix(Prompt, pos[k])
    BY <1>1, <2>1, <2>2, PrefixFacts, SMTT(30) DEF AllPlaced, Placed
  <2>4. Prefix(Prompt, pos[k]) \o SubSeq(Prompt, pos[k] + 1, End(k)) = Prefix(Prompt, End(k))
    BY <2>1, <2>2, PrefixFacts
  <2>5. Prefix(Prompt, End(k)) \in AnyTokens
    <3>1. Prefix(Prompt, End(k)) \in Seq(Tokens)
      BY <2>1, <2>2, PrefixFacts
    <3> QED  BY <3>1, SeqMonotonic DEF AnyTokens
  <2> QED  BY <1>1, <2>2, <2>3, <2>4, <2>5
<1>3. TypeOK'
  <2>1. kv' \in [Ranks -> AnyTokens]
    BY <1>1, <1>2
  <2>2. pos' \in [Ranks -> Nat]
    BY <1>1, <1>2
  <2> QED  BY <1>1, <2>1, <2>2 DEF Places
<1>4. Fitting' /\ Filed' /\ Asked'
  BY <1>1 DEF Fitting, Filed, Asked
<1>5. AllPlaced'
  <2>1. Prompt' = Prompt
    BY <1>1 DEF Prompt
  <2> QED  BY <1>1, <1>2, <2>1 DEF AllPlaced, Placed
<1> QED  BY <1>3, <1>4, <1>5

LEMMA CaptureTrue ==
  ASSUME TrueInv, NEW k \in Ranks, Capture(k)
  PROVE  TrueInv'
<1> USE DEF TrueInv, TypeOK
<1> DEFINE key == Prefix(Prompt, pos[k])
<1>1. /\ at[k] = "capture" /\ at' = [at EXCEPT ![k] = AfterCapture(k)]
      /\ UNCHANGED <<conf, stage, ask, hint, queue, job, pos, chunked, kv>>
      /\ \/ lru' = lru
         \/ key \in Keys(lru[k]) /\ lru' = [lru EXCEPT ![k] = Touch(@, key)]
         \/ key \notin Keys(lru[k]) /\ lru' = [lru EXCEPT ![k] = Insert(@, key, kv[k])]
      /\ pending' = pending \/ pending' = [pending EXCEPT ![k] = @ \ {pos[k]}]
  BY DEF Capture, handlers
<1>2. /\ job \in Requests /\ Prompt \in Seq(Tokens) /\ Len(Prompt) \in Nat
      /\ pos[k] \in 1..Len(Prompt) /\ kv[k] = key
  BY <1>1 DEF Asked, AllPlaced, Placed, Prompt
<1>3. key \in Seq(Tokens)
  BY <1>2, PrefixFacts
<1>4. lru[k] \in Seq(Snapshots) /\ Good(lru[k])
  BY DEF Filed
<1>5. PICK q : q \in Seq(Snapshots) /\ Good(q) /\ lru' = [lru EXCEPT ![k] = q]
  <2>1. CASE lru' = lru
    BY <1>4, <2>1
  <2>2. CASE key \in Keys(lru[k]) /\ lru' = [lru EXCEPT ![k] = Touch(@, key)]
    <3>1. Touch(lru[k], key) \in Seq(Snapshots) /\ Good(Touch(lru[k], key))
      BY <1>4, <2>2, TouchFacts, TouchKeeps DEF Good
    <3> QED  BY <2>2, <3>1
  <2>3. CASE key \notin Keys(lru[k]) /\ lru' = [lru EXCEPT ![k] = Insert(@, key, kv[k])]
    <3>1. Insert(lru[k], key, kv[k]) \in Seq(Snapshots) /\ Good(Insert(lru[k], key, kv[k]))
      BY <1>2, <1>3, <1>4, <2>3, InsertKeeps
    <3> QED  BY <2>3, <3>1
  <2> QED  BY <1>1, <2>1, <2>2, <2>3
<1>6. lru' \in [Ranks -> Seq(Snapshots)] /\ Filed'
  BY <1>5 DEF Filed
<1>7. AfterCapture(k) = IF pos[k] = Len(Prompt) THEN "decode" ELSE "forward"
  BY DEF AfterCapture
<1>8. TypeOK'
  <2>1. pending[k] \ {pos[k]} \in SUBSET Nat
    OBVIOUS
  <2>2. pending' \in [Ranks -> SUBSET Nat]
    BY <1>1, <2>1
  <2>3. at' \in [Ranks -> Places]
    BY <1>1, <1>7 DEF Places
  <2> QED  BY <1>1, <1>6, <2>2, <2>3
<1>9. Fitting' /\ Asked'
  BY <1>1 DEF Fitting, Asked
<1>10. AllPlaced'
  <2>0. Prompt' = Prompt
    BY <1>1 DEF Prompt
  <2>1. Placed(k)'
    <3>1. at'[k] = "forward" => pos[k] < Len(Prompt)
      BY <1>1, <1>2, <1>7
    <3>2. at'[k] # "capture"
      BY <1>1, <1>7
    <3> QED  BY <1>1, <1>2, <2>0, <3>1, <3>2 DEF Placed
  <2>2. ASSUME NEW j \in Ranks, j # k  PROVE Placed(j)'
    <3>1. at'[j] = at[j] /\ pos'[j] = pos[j] /\ kv'[j] = kv[j]
      BY <1>1, <2>2
    <3> QED  BY <2>0, <3>1 DEF AllPlaced, Placed
  <2> QED  BY <2>1, <2>2 DEF AllPlaced
<1> QED  BY <1>6, <1>8, <1>9, <1>10

LEMMA DecodeTrue ==
  ASSUME TrueInv, Decode
  PROVE  TrueInv'
<1> USE DEF TrueInv, TypeOK
<1>1. /\ kv' = [k \in Ranks |-> Append(kv[k], Generated)]
      /\ at' = [k \in Ranks |-> "decoded"] /\ \A k \in Ranks : at[k] = "decode"
      /\ UNCHANGED <<conf, stage, ask, hint, queue, job, pos, pending, chunked, lru>>
  BY DEF Decode, handlers
<1>2. \A k \in Ranks : Append(kv[k], Generated) \in AnyTokens
  BY AppendProperties DEF AnyTokens
<1>3. TypeOK'
  BY <1>1, <1>2 DEF Places
<1>4. Fitting' /\ Filed' /\ Asked' /\ AllPlaced'
  BY <1>1 DEF Fitting, Filed, Asked, AllPlaced, Placed
<1> QED  BY <1>3, <1>4

LEMMA ReturnTrue ==
  ASSUME TrueInv, NEW k \in Ranks, Return(k)
  PROVE  TrueInv'
<1> USE DEF TrueInv, TypeOK
<1>1. /\ at[k] \in {"decode", "decoded"} /\ at' = [at EXCEPT ![k] = "idle"]
      /\ stage' = stage \/ stage' = [stage EXCEPT ![job] = "done"]
      /\ UNCHANGED <<conf, ask, hint, queue, job, pos, pending, chunked, kv, lru>>
  BY DEF Return
<1>2. job \in Requests /\ stage[job] # "new"
  BY <1>1 DEF Asked
<1>3. stage' \in [Requests -> Stages] /\ \A s \in Requests : stage'[s] = "new" <=> stage[s] = "new"
  BY <1>1, <1>2 DEF Stages
<1>4. TypeOK'
  BY <1>1, <1>3 DEF Places
<1>5. Fitting' /\ Filed'
  BY <1>1, <1>3 DEF Fitting, Filed
<1>6. Asked'
  <2>1. \A i \in 1..Len(queue) : queue[i] \in Requests
    OBVIOUS
  <2> QED  BY <1>1, <1>2, <1>3, <2>1 DEF Asked
<1>7. AllPlaced'
  BY <1>1 DEF AllPlaced, Placed, Prompt
<1> QED  BY <1>4, <1>5, <1>6, <1>7

LEMMA TrueInvHolds == Spec => []TrueInv
<1>1. TrueInv /\ [Next]_vars => TrueInv'
  <2> SUFFICES ASSUME TrueInv, [Next]_vars PROVE TrueInv'
    OBVIOUS
  <2>1. CASE UNCHANGED vars
    BY <2>1 DEF vars, handlers, TrueInv, TypeOK, Fitting, Asked, Filed, AllPlaced, Placed, Prompt
  <2> QED
    BY <2>1, LookupTrue, SubmitTrue, BroadcastTrue, SettingsTrue, ForwardTrue, CaptureTrue,
       DecodeTrue, ReturnTrue DEF Next, Generate
<1> QED  BY <1>1, TrueInit, PTL DEF Spec

(***************************************************************************)
(* What a snapshot restores is the state after exactly the tokens that it  *)
(* is filed under; no prefix is filed twice, and no cache exceeds its      *)
(* bound (prefix_snapshot.py, capture and restore; generation.py, the cuts *)
(* of the prefill): for any prompts, ranks, clients and sizes of blocks,   *)
(* chunks and caches.                                                      *)
(***************************************************************************)
THEOREM SnapshotsTrueHolds == Spec => []SnapshotsTrue
<1>1. TrueInv => SnapshotsTrue
  <2> SUFFICES ASSUME TrueInv, NEW k \in Ranks
               PROVE  /\ \A i \in 1..Len(lru[k]) : lru[k][i].state = lru[k][i].key
                      /\ Cardinality(Keys(lru[k])) = Len(lru[k])
                      /\ Len(lru[k]) <= MaxEntries
    BY DEF SnapshotsTrue
  <2>1. lru[k] \in Seq(Snapshots) /\ Good(lru[k])
    BY DEF TrueInv, TypeOK, Filed
  <2>2. Cardinality(Keys(lru[k])) = Len(lru[k])
    BY <2>1, KeysCounted DEF Good
  <2> QED  BY <2>1, <2>2 DEF Good, True
<1> QED  BY <1>1, TrueInvHolds, PTL

(***************************************************************************)
(* A forward that does not start at position 0 finds the model in the      *)
(* state of the part of its prompt that is skipped, with a token left to   *)
(* run (lookup_hint, restore and generate), whatever other handlers have   *)
(* done to the caches since the lookup.                                    *)
(***************************************************************************)
THEOREM ResumesRightHolds == Spec => []ResumesRight
<1>1. TrueInv => ResumesRight
  BY DEF TrueInv, AllPlaced, Placed, ResumesRight
<1> QED  BY <1>1, TrueInvHolds, PTL

-----------------------------------------------------------------------------
(***************************************************************************)
(* The ranks in step, when the requests come one by one.  Between the      *)
(* lookup and the last capture of a request their caches differ; what      *)
(* agrees is what each of them will be: after the restore that the hint    *)
(* asks for, and after the capture that is due.                            *)
(***************************************************************************)

\* The cache of rank k after the capture it is about to make, and what it then
\* has left to capture.
Captures(k) ==
  /\ at[k] = "capture" /\ pos[k] \in pending[k]
  /\ pos[k] % Block = 0 /\ pos[k] >= MinTokens
Cache(k) ==
  IF Captures(k)
    THEN IF Prefix(Prompt, pos[k]) \in Keys(lru[k])
           THEN Touch(lru[k], Prefix(Prompt, pos[k]))
           ELSE Insert(lru[k], Prefix(Prompt, pos[k]), kv[k])
    ELSE lru[k]
Left(k) == IF at[k] = "capture" THEN pending[k] \ {pos[k]} ELSE pending[k]

\* Restoring the hint of r would make the cache of rank k that of rank 0, whose
\* lookup has touched the entry already.
Ready(k, r) ==
  IF hint[r].match = <<>> THEN Cache(k) = Cache(0)
  ELSE /\ hint[r].match \in Keys(Cache(k))
       /\ Touch(Cache(k), hint[r].match) = Cache(0)

Open(r) == stage[r] \in {"hinted", "queued"}
Waiting(r) == stage[r] = "hinted" \/ \E i \in 1..Len(queue) : queue[i] = r

OneByOne ==
  /\ \A r, s \in Requests : Open(r) /\ Open(s) => r = s
  /\ \A r \in Requests : Open(r) => ask[r].kind # "rows"
  /\ Len(queue) <= 1
  /\ \A i \in 1..Len(queue) : stage[queue[i]] = "queued"
  /\ at[0] # "idle" => stage[job] = "queued" /\ \A r \in Requests : ~Waiting(r)

\* The ranks restore, or have restored; run and capture; are through with the
\* prompt, and perhaps with the request.
Starting == \A k \in Ranks :
  /\ at[k] \in {"settings", "forward"}
  /\ at[k] = "settings" => Ready(k, job)
  /\ at[k] = "forward" => /\ lru[k] = lru[0]
                          /\ pos[k] = Len(hint[job].match)
                          /\ pending[k] = PendingFrom(Len(hint[job].match))
Prefilling == \A k \in Ranks :
  /\ at[k] \in {"forward", "capture"} /\ pos[k] = pos[0] /\ pos[k] < Len(Prompt)
  /\ Left(k) = Left(0) /\ Cache(k) = Cache(0)
Finishing == \A k \in Ranks :
  /\ at[k] \in {"capture", "decode", "decoded", "idle"}
  /\ at[k] = "capture" => pos[k] = Len(Prompt)
  /\ \A r \in Requests : Waiting(r) => Ready(k, r)
  /\ (\A r \in Requests : ~Waiting(r)) => Cache(k) = Cache(0)
Agree == conf.orderly => OneByOne /\ (Starting \/ Prefilling \/ Finishing)

LEMMA AgreeInit == Init => Agree
<1> SUFFICES ASSUME Init PROVE OneByOne /\ Finishing
  BY DEF Agree
<1>1. 0 \in Ranks
  BY SnapshotAssumption
<1>2. \A r \in Requests : ~Waiting(r) /\ ~Open(r)
  BY DEF Init, Waiting, Open
<1>3. OneByOne
  BY <1>1, <1>2 DEF Init, OneByOne
<1>4. \A k \in Ranks : at[k] = "idle" /\ lru[k] = lru[0]
  BY <1>1 DEF Init
<1>5. Finishing
  BY <1>1, <1>2, <1>4 DEF Finishing, Cache, Captures
<1> QED  BY <1>3, <1>5

\* Rank 0 is idle only when all ranks are through with the prompt.
LEMMA IdleFinishing ==
  ASSUME Starting \/ Prefilling \/ Finishing, NEW k \in Ranks,
         at[k] \in {"idle", "decode", "decoded"}
  PROVE  Finishing
  BY DEF Starting, Prefilling

\* A rank whose state and prompt stay as they are.
LEMMA CacheKept ==
  ASSUME NEW k, at'[k] = at[k], pos'[k] = pos[k], pending'[k] = pending[k],
         lru'[k] = lru[k], kv'[k] = kv[k], at[k] # "idle" => Prompt' = Prompt
  PROVE  Cache(k)' = Cache(k) /\ Left(k)' = Left(k)
<1>1. Left(k)' = Left(k)
  BY DEF Left
<1>2. Captures(k)' <=> Captures(k)
  BY DEF Captures
<1>3. Cache(k)' = Cache(k)
  <2>1. CASE ~Captures(k)
    BY <1>2, <2>1 DEF Cache
  <2>2. CASE Captures(k)
    <3>1. Prompt' = Prompt
      BY <2>2 DEF Captures
    <3> QED  BY <1>2, <2>2, <3>1 DEF Cache
  <2> QED  BY <2>1, <2>2
<1> QED  BY <1>1, <1>3

\* Before a forward the ranks are alike.
LEMMA ForwardAlike ==
  ASSUME Starting \/ Prefilling \/ Finishing, \A k \in Ranks : at[k] = "forward",
         NEW k \in Ranks
  PROVE  pos[k] = pos[0] /\ pending[k] = pending[0] /\ lru[k] = lru[0] /\ ~Finishing
<1>0. 0 \in Ranks /\ ~Finishing
  BY SnapshotAssumption DEF Finishing
<1>1. CASE Starting
  BY <1>0, <1>1 DEF Starting
<1>2. CASE Prefilling
  BY <1>0, <1>2 DEF Prefilling, Left, Cache, Captures
<1> QED  BY <1>0, <1>1, <1>2

\* The ranks go on finishing while no handler thread gets ahead.
LEMMA FinishingKept ==
  ASSUME Finishing, Prompt' = Prompt, 0 \in Ranks,
         \A j \in Ranks : Cache(j)' = Cache(j),
         \A j \in Ranks, s \in Requests : Ready(j, s) => Ready(j, s)',
         \A s \in Requests : Waiting(s)' <=> Waiting(s),
         \A j \in Ranks : /\ at'[j] \in {"capture", "decode", "decoded", "idle"}
                          /\ at'[j] = "capture" => pos'[j] = Len(Prompt)
  PROVE  Finishing'
<1> SUFFICES ASSUME NEW j \in Ranks
             PROVE  /\ at'[j] \in {"capture", "decode", "decoded", "idle"}
                    /\ at'[j] = "capture" => pos'[j] = Len(Prompt')
                    /\ \A s \in Requests : Waiting(s)' => Ready(j, s)'
                    /\ (\A s \in Requests : ~Waiting(s)') => Cache(j)' = Cache(0)'
  BY DEF Finishing
<1>1. \A s \in Requests : Waiting(s)' => Ready(j, s)'
  BY DEF Finishing
<1>2. (\A s \in Requests : ~Waiting(s)') => Cache(j)' = Cache(0)'
  BY DEF Finishing
<1>3. Len(Prompt') = Len(Prompt)
  OBVIOUS
<1>4. /\ at'[j] \in {"capture", "decode", "decoded", "idle"}
      /\ at'[j] = "capture" => pos'[j] = Len(Prompt')
  BY <1>3
<1> QED  BY <1>1, <1>2, <1>4, Zenon

LEMMA LookupAgree ==
  ASSUME TrueInv, Agree, conf.orderly, NEW r \in Requests, Lookup(r)
  PROVE  OneByOne' /\ Finishing'
<1> USE DEF TrueInv, TypeOK
<1>0. 0 \in Ranks /\ OneByOne /\ (Starting \/ Prefilling \/ Finishing)
  BY SnapshotAssumption DEF Agree
<1>1. PICK p \in Prompts, kind \in Kinds \ {"rows"} :
        /\ ask' = [ask EXCEPT ![r] = [prompt |-> p, kind |-> kind]]
        /\ \/ UNCHANGED <<hint, lru>>
           \/ /\ hint' = [hint EXCEPT ![r] = [match |-> Prefix(p, Longest(p)),
                                              captures |-> CapturePositions(p)]]
              /\ lru' = IF Longest(p) = 0 THEN lru
                        ELSE [lru EXCEPT ![0] = Touch(@, Prefix(p, Longest(p)))]
  BY DEF Lookup
<1>2. /\ stage[r] = "new" /\ stage' = [stage EXCEPT ![r] = "hinted"]
      /\ \A s \in Requests : stage[s] \in {"new", "done"}
      /\ UNCHANGED <<conf, queue, job, at, pos, pending, chunked, kv>>
  BY DEF Lookup
<1>3. \A s \in Requests : ~Open(s) /\ ~Waiting(s)
  BY <1>0, <1>2 DEF Open, Waiting, OneByOne
<1>4. at[0] = "idle" /\ Finishing
  <2>1. at[0] = "idle"
    BY <1>0, <1>2 DEF OneByOne, Asked
  <2> QED  BY <1>0, <2>1, IdleFinishing
<1>5. \A k \in Ranks : Cache(k) = lru[0]
  BY <1>3, <1>4 DEF Finishing, Cache, Captures
<1>6. lru[0] \in Seq(Snapshots) /\ Distinct(lru[0])
  BY <1>0 DEF Filed, Good
<1>7. ASSUME NEW k \in Ranks, k # 0  PROVE Cache(k)' = lru[0]
  <2>1. at[k] # "idle" => Prompt' = Prompt
    BY <1>1, <1>2 DEF Asked, Prompt
  <2>2. lru'[k] = lru[k]
    BY <1>1, <1>7
  <2> QED  BY <1>2, <1>5, <2>1, <2>2, CacheKept
<1>8. Cache(0)' = lru'[0]
  BY <1>2, <1>4 DEF Cache, Captures
<1>9. \/ hint'[r].match = <<>> /\ lru' = lru
      \/ /\ hint'[r].match # <<>> /\ hint'[r].match \in Keys(lru[0])
         /\ lru'[0] = Touch(lru[0], hint'[r].match)
  <2>1. p \in Seq(Tokens) /\ p # <<>> /\ Len(p) \in Nat
    BY SnapshotAssumption
  <2>2. /\ Longest(p) \in 0..Len(p)
        /\ Longest(p) # 0 => Prefix(p, Longest(p)) \in Keys(lru[0])
    BY <2>1, LongestFacts DEF Known
  <2>3. Longest(p) = 0 <=> Prefix(p, Longest(p)) = <<>>
    BY <2>1, <2>2, PrefixFacts
  <2>4. hint[r].match = <<>>
    BY <1>2 DEF Fitting
  <2> QED  BY <1>0, <1>1, <2>2, <2>3, <2>4
<1>10. ASSUME NEW k \in Ranks  PROVE Ready(k, r)'
  <2>1. CASE hint'[r].match = <<>> /\ lru' = lru
    BY <1>7, <1>8, <1>10, <2>1 DEF Ready
  <2>2. CASE /\ hint'[r].match # <<>> /\ hint'[r].match \in Keys(lru[0])
             /\ lru'[0] = Touch(lru[0], hint'[r].match)
    <3>1. /\ Keys(lru'[0]) = Keys(lru[0])
          /\ Touch(lru'[0], hint'[r].match) = lru'[0]
      BY <1>6, <2>2, TouchKeeps
    <3> QED  BY <1>7, <1>8, <1>10, <2>2, <3>1 DEF Ready
  <2> QED  BY <1>9, <2>1, <2>2
<1>11. \A s \in Requests : (Waiting(s)' <=> s = r) /\ (Open(s)' <=> s = r)
  BY <1>2, <1>3 DEF Waiting, Open
<1>12. OneByOne'
  <2>1. ask'[r].kind # "rows"
    BY <1>1
  <2>2. \A i \in 1..Len(queue) : queue[i] \in Requests
    OBVIOUS
  <2>3. \A i \in 1..Len(queue') : stage'[queue'[i]] = "queued"
    BY <1>2, <1>3, <2>2 DEF Waiting
  <2> QED  BY <1>0, <1>2, <1>4, <1>11, <2>1, <2>3 DEF OneByOne
<1>13. Finishing'
  <2>1. \A k \in Ranks : at[k] # "idle" => Prompt' = Prompt
    BY <1>1, <1>2 DEF Asked, Prompt
  <2> QED  BY <1>2, <1>4, <1>10, <1>11, <2>1 DEF Finishing
<1> QED  BY <1>12, <1>13

LEMMA SubmitAgree ==
  ASSUME TrueInv, Agree, conf.orderly, NEW r \in Requests, Submit(r)
  PROVE  OneByOne' /\ Finishing'
<1> USE DEF TrueInv, TypeOK
<1>0. 0 \in Ranks /\ OneByOne /\ (Starting \/ Prefilling \/ Finishing)
  BY SnapshotAssumption DEF Agree
<1>1. /\ stage[r] = "hinted" /\ stage' = [stage EXCEPT ![r] = "queued"]
      /\ queue' = Append(queue, r)
      /\ UNCHANGED <<conf, ask, hint, job, at, pos, pending, chunked, kv, lru>>
  BY DEF Submit
<1>2. Waiting(r) /\ Open(r) /\ at[0] = "idle" /\ Finishing
  <2>1. Waiting(r) /\ Open(r)
    BY <1>1 DEF Waiting, Open
  <2>2. at[0] = "idle"
    BY <1>0, <2>1 DEF OneByOne
  <2> QED  BY <1>0, <2>1, <2>2, IdleFinishing
<1>3. Len(queue) = 0
  <2>1. ASSUME NEW i \in 1..Len(queue)  PROVE FALSE
    <3>1. queue[i] \in Requests /\ stage[queue[i]] = "queued"
      BY <1>0 DEF OneByOne
    <3>2. queue[i] = r
      BY <1>0, <1>2, <3>1 DEF OneByOne, Open
    <3> QED  BY <1>1, <3>1, <3>2
  <2>2. Len(queue) \in Nat
    OBVIOUS
  <2> QED  BY <2>1, <2>2
<1>4. Len(queue') = 1 /\ queue'[1] = r
  BY <1>1, <1>3, AppendProperties
<1>5. \A s \in Requests : (Waiting(s) <=> s = r) /\ (Waiting(s)' <=> s = r) /\ (Open(s)' <=> s = r)
  <2> SUFFICES ASSUME NEW s \in Requests
               PROVE  (Waiting(s) <=> s = r) /\ (Waiting(s)' <=> s = r) /\ (Open(s)' <=> s = r)
    OBVIOUS
  <2>1. Open(s) => s = r
    BY <1>0, <1>2 DEF OneByOne
  <2>2. Waiting(s) <=> s = r
    BY <1>1, <1>3, <2>1 DEF Waiting, Open
  <2>3. Waiting(s)' <=> s = r
    BY <1>1, <1>4, <2>1 DEF Waiting, Open
  <2> QED  BY <1>1, <2>1, <2>2, <2>3 DEF Open
<1>6. \A k \in Ranks : Cache(k)' = Cache(k)
  <2>1. Prompt' = Prompt
    BY <1>1 DEF Prompt
  <2> QED  BY <1>1, <2>1, CacheKept
<1>7. \A k \in Ranks : Ready(k, r)'
  BY <1>0, <1>1, <1>2, <1>6 DEF Finishing, Ready
<1>8. OneByOne'
  BY <1>0, <1>1, <1>2, <1>4, <1>5 DEF OneByOne
<1>9. Finishing'
  BY <1>1, <1>2, <1>5, <1>7 DEF Finishing, Prompt
<1> QED  BY <1>8, <1>9

LEMMA BroadcastAgree ==
  ASSUME TrueInv, Agree, conf.orderly, Broadcast
  PROVE  OneByOne' /\ Starting'
<1> USE DEF TrueInv, TypeOK
<1> DEFINE r == Head(queue)
<1>0. 0 \in Ranks /\ OneByOne /\ (Starting \/ Prefilling \/ Finishing)
  BY SnapshotAssumption DEF Agree
<1>1. /\ queue # <<>> /\ job' = r /\ queue' = Tail(queue)
      /\ \A k \in Ranks : at[k] = "idle"
      /\ at' = [k \in Ranks |-> "settings"]
      /\ UNCHANGED <<conf, stage, ask, hint, pos, pending, chunked, kv, lru>>
  BY DEF Broadcast
<1>2. /\ r \in Requests /\ r = queue[1] /\ 1 \in 1..Len(queue)
      /\ Len(queue) = 1 /\ Len(queue') = 0
  <2>1. /\ r \in Requests /\ r = queue[1] /\ Len(queue) \in Nat \ {0}
        /\ Len(queue') = Len(queue) - 1
    BY <1>1, HeadTailProperties
  <2> QED  BY <1>0, <2>1 DEF OneByOne
<1>3. stage[r] = "queued" /\ Waiting(r) /\ Open(r)
  BY <1>0, <1>2 DEF OneByOne, Waiting, Open
<1>4. Finishing
  BY <1>0, <1>1, IdleFinishing
<1>5. \A s \in Requests : Open(s) => s = r
  BY <1>0, <1>2, <1>3 DEF OneByOne
<1> HIDE DEF r
<1>6. \A s \in Requests : ~Waiting(s)'
  <2>1. 1..Len(queue') = {}
    BY <1>2
  <2>2. \A s \in Requests : stage[s] # "hinted"
    BY <1>3, <1>5 DEF Open
  <2> QED  BY <1>1, <2>1, <2>2 DEF Waiting
<1>7. OneByOne'
  <2>1. \A s \in Requests : Open(s)' <=> Open(s)
    BY <1>1 DEF Open
  <2>2. Len(queue') <= 1 /\ 1..Len(queue') = {}
    BY <1>2
  <2>3. stage'[job'] = "queued" /\ ask' = ask
    BY <1>1, <1>3
  <2> QED  BY <1>0, <1>6, <2>1, <2>2, <2>3 DEF OneByOne
<1>8. \A k \in Ranks : Cache(k)' = lru[k] /\ Cache(k) = lru[k]
  BY <1>1 DEF Cache, Captures
<1>9. \A k \in Ranks : Ready(k, job)'
  BY <1>0, <1>1, <1>2, <1>3, <1>4, <1>8 DEF Finishing, Ready
<1> QED  BY <1>1, <1>7, <1>9 DEF Starting

LEMMA SettingsAgree ==
  ASSUME TrueInv, Agree, conf.orderly, NEW k \in Ranks, Settings(k)
  PROVE  OneByOne' /\ Starting'
<1> USE DEF TrueInv, TypeOK
<1> DEFINE m == hint[job].match
<1>0. 0 \in Ranks /\ OneByOne /\ (Starting \/ Prefilling \/ Finishing)
  BY SnapshotAssumption DEF Agree
<1>1. /\ at[k] = "settings" /\ at' = [at EXCEPT ![k] = "forward"]
      /\ pos' = [pos EXCEPT ![k] = Start(k)]
      /\ pending' = [pending EXCEPT ![k] = PendingFrom(Start(k))]
      /\ UNCHANGED <<conf, stage, ask, hint, queue, job>>
      /\ IF Restores(k) THEN lru' = [lru EXCEPT ![k] = Touch(@, m)] ELSE lru' = lru
  BY DEF Settings, Begin, handlers, Touched
<1>2. Starting
  BY <1>0, <1>1 DEF Prefilling, Finishing
<1>3. /\ at[0] # "idle" /\ stage[job] = "queued" /\ job \in Requests
      /\ ask[job].kind # "rows"
  <2>1. at[0] # "idle"
    BY <1>0, <1>2 DEF Starting
  <2>2. stage[job] = "queued" /\ job \in Requests
    BY <1>0, <2>1 DEF OneByOne, Asked
  <2> QED  BY <1>0, <2>1, <2>2 DEF OneByOne, Open
<1>4. \A j \in Ranks : at[j] # "capture" /\ Cache(j) = lru[j]
  BY <1>2 DEF Starting, Cache, Captures
<1>5. Fits(Prompt, m)
  BY <1>3 DEF Fitting, Prompt
<1>6. Ready(k, job)
  BY <1>1, <1>2 DEF Starting
<1>7. /\ lru'[k] = lru[0] /\ lru'[0] = lru[0] /\ Start(k) = Len(m)
      /\ \A j \in Ranks : j # k => lru'[j] = lru[j]
  <2>1. CASE m = <<>>
    <3>1. ~Restores(k)
      BY <2>1 DEF Restores
    <3> QED  BY <1>0, <1>1, <1>4, <1>6, <2>1, <3>1 DEF Ready, Start
  <2>2. CASE m # <<>>
    <3>1. m \in Keys(lru[k]) /\ Touch(lru[k], m) = lru[0]
      BY <1>0, <1>4, <1>6, <2>2 DEF Ready
    <3>2. Restores(k)
      BY <1>3, <1>5, <2>2, <3>1 DEF Restores, Fits
    <3>3. lru' = [lru EXCEPT ![k] = lru[0]]
      BY <1>1, <3>1, <3>2
    <3> QED  BY <1>0, <3>2, <3>3 DEF Start
  <2> QED  BY <2>1, <2>2
<1>8. pos'[k] = Len(m) /\ pending'[k] = PendingFrom(Len(m))
  BY <1>1, <1>7
<1>9. m' = m /\ PendingFrom(Len(m))' = PendingFrom(Len(m))
  BY <1>1 DEF PendingFrom, Prompt
<1>10. \A j \in Ranks : at'[j] # "capture" /\ Cache(j)' = lru'[j]
  BY <1>1, <1>4 DEF Cache, Captures
<1>11. OneByOne'
  <2>1. \A s \in Requests : (Open(s)' <=> Open(s)) /\ (Waiting(s)' <=> Waiting(s))
    BY <1>1 DEF Open, Waiting
  <2> QED  BY <1>0, <1>1, <1>3, <2>1 DEF OneByOne
<1>12. Starting'
  <2> SUFFICES ASSUME NEW j \in Ranks
               PROVE  /\ at'[j] \in {"settings", "forward"}
                      /\ at'[j] = "settings" => Ready(j, job)'
                      /\ at'[j] = "forward" => /\ lru'[j] = lru'[0]
                                               /\ pos'[j] = Len(m)'
                                               /\ pending'[j] = PendingFrom(Len(m))'
    BY DEF Starting
  <2>1. CASE j = k
    BY <1>1, <1>7, <1>8, <1>9, <2>1
  <2>2. CASE j # k
    <3>1. at'[j] = at[j] /\ pos'[j] = pos[j] /\ pending'[j] = pending[j] /\ lru'[j] = lru[j]
      BY <1>1, <1>7, <2>2
    <3>2. at[j] = "settings" => Ready(j, job)'
      BY <1>0, <1>1, <1>2, <1>4, <1>7, <1>10, <3>1 DEF Starting, Ready
    <3> QED  BY <1>2, <1>7, <1>9, <3>1, <3>2 DEF Starting
  <2> QED  BY <2>1, <2>2
<1> QED  BY <1>11, <1>12

\* Two ranks in the same place after a forward.
LEMMA AlikeAfter ==
  ASSUME NEW k, NEW j, at'[k] = at'[j], pos'[k] = pos'[j], pending'[k] = pending'[j],
         lru'[k] = lru'[j], kv'[k] = kv'[j]
  PROVE  Cache(k)' = Cache(j)' /\ Left(k)' = Left(j)'
<1>1. Captures(k)' <=> Captures(j)'
  BY DEF Captures
<1>2. Cache(k)' = Cache(j)'
  BY <1>1 DEF Cache
<1>3. Left(k)' = Left(j)'
  BY DEF Left
<1> QED  BY <1>2, <1>3

LEMMA ForwardAgree ==
  ASSUME TrueInv, TrueInv', Agree, conf.orderly, Forward
  PROVE  OneByOne' /\ (Prefilling' \/ Finishing')
<1> USE DEF TrueInv, TypeOK
<1>0. 0 \in Ranks /\ OneByOne /\ (Starting \/ Prefilling \/ Finishing)
  BY SnapshotAssumption DEF Agree
<1>1. /\ \A k \in Ranks : at[k] = "forward" /\ End(k) = End(0)
      /\ pos' = [k \in Ranks |-> End(k)] /\ at' = [k \in Ranks |-> "capture"]
      /\ UNCHANGED <<conf, stage, ask, hint, queue, job, pending, chunked, lru>>
  BY DEF Forward, handlers
<1>2. \A k \in Ranks : pending[k] = pending[0] /\ lru[k] = lru[0]
  BY <1>0, <1>1, ForwardAlike
<1>3. Prompt' = Prompt
  BY <1>1 DEF Prompt
<1>4. \A k \in Ranks : at'[k] = "capture" /\ pos'[k] = End(0)
  BY <1>1
<1>5. \A k \in Ranks : kv'[k] = Prefix(Prompt, End(0))
  BY <1>3, <1>4 DEF AllPlaced, Placed
<1>6. \A k \in Ranks : Cache(k)' = Cache(0)' /\ Left(k)' = Left(0)'
  <2> SUFFICES ASSUME NEW k \in Ranks PROVE Cache(k)' = Cache(0)' /\ Left(k)' = Left(0)'
    OBVIOUS
  <2>1. /\ at'[k] = at'[0] /\ pos'[k] = pos'[0] /\ kv'[k] = kv'[0]
        /\ pending'[k] = pending'[0] /\ lru'[k] = lru'[0]
    BY <1>0, <1>1, <1>2, <1>4, <1>5
  <2> QED  BY <2>1, AlikeAfter
<1>7. \A s \in Requests : (Open(s)' <=> Open(s)) /\ (Waiting(s)' <=> Waiting(s))
  BY <1>1 DEF Open, Waiting
<1>8. at[0] # "idle" /\ \A s \in Requests : ~Waiting(s)
  BY <1>0, <1>1 DEF OneByOne
<1>9. OneByOne'
  BY <1>0, <1>1, <1>7, <1>8 DEF OneByOne
<1>10. End(0) < Len(Prompt) \/ End(0) = Len(Prompt)
  <2>1. End(0) \in Nat /\ End(0) <= Len(Prompt)
    BY <1>0, <1>1, EndFacts
  <2>2. Len(Prompt) \in Nat
    BY <1>0, <1>1 DEF Asked, Prompt
  <2> QED  BY <2>1, <2>2
<1>11. CASE End(0) < Len(Prompt)
  BY <1>0, <1>3, <1>4, <1>6, <1>9, <1>11 DEF Prefilling
<1>12. CASE End(0) = Len(Prompt)
  BY <1>3, <1>4, <1>6, <1>7, <1>8, <1>9, <1>12 DEF Finishing
<1> QED  BY <1>10, <1>11, <1>12

LEMMA CaptureAgree ==
  ASSUME TrueInv, Agree, conf.orderly, NEW k \in Ranks, Capture(k)
  PROVE  OneByOne' /\ (Prefilling' \/ Finishing')
<1> USE DEF TrueInv, TypeOK
<1> DEFINE key == Prefix(Prompt, pos[k])
<1>0. 0 \in Ranks /\ OneByOne /\ (Starting \/ Prefilling \/ Finishing)
  BY SnapshotAssumption DEF Agree
<1>1. /\ at[k] = "capture" /\ at' = [at EXCEPT ![k] = AfterCapture(k)]
      /\ UNCHANGED <<conf, stage, ask, hint, queue, job, pos, chunked, kv>>
      /\ IF pos[k] \in pending[k]
           THEN /\ lru' = IF pos[k] % Block # 0 \/ pos[k] < MinTokens THEN lru
                          ELSE [lru EXCEPT ![k] =
                                  IF key \in Keys(@) THEN Touch(@, key)
                                  ELSE Insert(@, key, kv[k])]
                /\ pending' = [pending EXCEPT ![k] = @ \ {pos[k]}]
           ELSE lru' = lru /\ pending' = pending
  BY DEF Capture, handlers
<1>2. Prompt' = Prompt
  BY <1>1 DEF Prompt
<1>3. AfterCapture(k) \in {"decode", "forward"}
  BY DEF AfterCapture
<1>4. /\ pending'[k] = Left(k)
      /\ \A j \in Ranks : j # k => at'[j] = at[j] /\ pending'[j] = pending[j] /\ lru'[j] = lru[j]
  BY <1>1 DEF Left
<1>5. lru'[k] = Cache(k)
  <2>1. pos[k] \in Nat /\ MinTokens \in Nat
    BY SnapshotAssumption
  <2>2. Captures(k) <=>
          pos[k] \in pending[k] /\ ~(pos[k] % Block # 0 \/ pos[k] < MinTokens)
    BY <1>1, <2>1 DEF Captures
  <2>3. CASE Captures(k)
    <3> DEFINE q == IF key \in Keys(lru[k]) THEN Touch(lru[k], key)
                    ELSE Insert(lru[k], key, kv[k])
    <3>1. lru' = [lru EXCEPT ![k] = q]
      BY <1>1, <2>2, <2>3
    <3>2. Cache(k) = q
      BY <2>3 DEF Cache
    <3> HIDE DEF q
    <3> QED  BY <3>1, <3>2
  <2>4. CASE ~Captures(k)
    BY <1>1, <2>2, <2>4 DEF Cache
  <2> QED  BY <2>3, <2>4
<1>6. at'[k] = AfterCapture(k)
  BY <1>1
<1>7. \A j \in Ranks : Cache(j)' = Cache(j) /\ Left(j)' = Left(j)
  <2>1. Cache(k)' = Cache(k) /\ Left(k)' = Left(k)
    <3>1. at'[k] # "capture"
      BY <1>3, <1>6
    <3> QED  BY <1>4, <1>5, <3>1 DEF Cache, Captures, Left
  <2>2. ASSUME NEW j \in Ranks, j # k  PROVE Cache(j)' = Cache(j) /\ Left(j)' = Left(j)
    BY <1>1, <1>2, <1>4, <2>2, CacheKept
  <2> QED  BY <2>1, <2>2
<1>8. \A s \in Requests : (Open(s)' <=> Open(s)) /\ (Waiting(s)' <=> Waiting(s))
  BY <1>1 DEF Open, Waiting
<1>9. OneByOne'
  <2>1. at'[0] # "idle" => at[0] # "idle"
    BY <1>1
  <2> QED  BY <1>0, <1>1, <1>8, <2>1 DEF OneByOne
<1>10. CASE Prefilling
  <2>1. AfterCapture(k) = "forward"
    <3>1. pos[k] \in Nat /\ Len(Prompt) \in Nat /\ pos[k] < Len(Prompt)
      BY <1>1, <1>10 DEF Prefilling, Asked, Prompt
    <3> QED  BY <3>1 DEF AfterCapture
  <2>2. \A j \in Ranks : at'[j] \in {"forward", "capture"}
    BY <1>4, <1>6, <1>10, <2>1 DEF Prefilling
  <2> QED  BY <1>0, <1>1, <1>2, <1>7, <1>9, <1>10, <2>2 DEF Prefilling
<1>11. CASE Finishing
  <2>1. AfterCapture(k) = "decode"
    BY <1>1, <1>11 DEF Finishing, AfterCapture
  <2>2. \A j \in Ranks : /\ at'[j] \in {"capture", "decode", "decoded", "idle"}
                         /\ at'[j] = "capture" => pos'[j] = Len(Prompt)
    BY <1>1, <1>4, <1>6, <1>11, <2>1 DEF Finishing
  <2>3. \A j \in Ranks, s \in Requests : Ready(j, s) => Ready(j, s)'
    BY <1>0, <1>1, <1>7 DEF Ready
  <2> QED  BY <1>0, <1>2, <1>7, <1>8, <1>9, <1>11, <2>2, <2>3, FinishingKept
<1>12. ~Starting
  BY <1>1 DEF Starting
<1> QED  BY <1>0, <1>10, <1>11, <1>12

LEMMA DecodeAgree ==
  ASSUME TrueInv, Agree, conf.orderly, Decode
  PROVE  OneByOne' /\ Finishing'
<1> USE DEF TrueInv, TypeOK
<1>0. 0 \in Ranks /\ OneByOne /\ (Starting \/ Prefilling \/ Finishing)
  BY SnapshotAssumption DEF Agree
<1>1. /\ \A k \in Ranks : at[k] = "decode" /\ at'[k] = "decoded"
      /\ UNCHANGED <<conf, stage, ask, hint, queue, job, pos, pending, chunked, lru>>
  BY DEF Decode, handlers
<1>2. Finishing
  BY <1>0, <1>1, IdleFinishing
<1>3. \A s \in Requests : (Open(s)' <=> Open(s)) /\ (Waiting(s)' <=> Waiting(s))
  BY <1>1 DEF Open, Waiting
<1>4. OneByOne' /\ \A s \in Requests : ~Waiting(s)
  BY <1>0, <1>1, <1>3 DEF OneByOne
<1>5. \A j \in Ranks : Cache(j)' = Cache(j)
  BY <1>1 DEF Cache, Captures
<1>6. Finishing'
  BY <1>0, <1>1, <1>2, <1>3, <1>4, <1>5 DEF Finishing
<1> QED  BY <1>4, <1>6

LEMMA ReturnAgree ==
  ASSUME TrueInv, Agree, conf.orderly, NEW k \in Ranks, Return(k)
  PROVE  OneByOne' /\ Finishing'
<1> USE DEF TrueInv, TypeOK
<1>0. 0 \in Ranks /\ OneByOne /\ (Starting \/ Prefilling \/ Finishing)
  BY SnapshotAssumption DEF Agree
<1>1. /\ at[k] \in {"decode", "decoded"} /\ at' = [at EXCEPT ![k] = "idle"]
      /\ stage' = IF k = 0 THEN [stage EXCEPT ![job] = "done"] ELSE stage
      /\ UNCHANGED <<conf, ask, hint, queue, job, pos, pending, chunked, kv, lru>>
  BY DEF Return
<1>2. Finishing
  BY <1>0, <1>1, IdleFinishing
<1>3. Prompt' = Prompt
  BY <1>1 DEF Prompt
<1>4. \A j \in Ranks : j # k => at'[j] = at[j]
  BY <1>1
<1>5. \A j \in Ranks : Cache(j)' = Cache(j)
  <2>1. Cache(k)' = Cache(k)
    BY <1>1 DEF Cache, Captures
  <2>2. ASSUME NEW j \in Ranks, j # k  PROVE Cache(j)' = Cache(j)
    BY <1>1, <1>3, <1>4, <2>2, CacheKept
  <2> QED  BY <2>1, <2>2
<1>6. \A j \in Ranks, s \in Requests : Ready(j, s)' <=> Ready(j, s)
  BY <1>0, <1>1, <1>5 DEF Ready
<1>7. \A i \in 1..Len(queue) : queue[i] \in Requests
  OBVIOUS
<1>8. job \in Requests
  BY <1>1 DEF Asked
<1>9. /\ \A s \in Requests : (Open(s)' => Open(s)) /\ (Waiting(s)' <=> Waiting(s))
      /\ OneByOne'
  <2>1. CASE k = 0
    <3>1. at[0] # "idle" /\ \A s \in Requests : ~Waiting(s)
      BY <1>0, <1>1, <2>1 DEF OneByOne
    <3>2. stage' \in [Requests -> Stages] /\ stage'[job] = "done"
          /\ \A s \in Requests : s # job => stage'[s] = stage[s]
      BY <1>1, <1>8, <2>1 DEF Stages
    <3>3. \A s \in Requests : (Open(s)' => Open(s)) /\ ~Waiting(s)'
      BY <1>1, <3>1, <3>2 DEF Open, Waiting
    <3>4. \A i \in 1..Len(queue) : FALSE
      BY <1>7, <3>1 DEF Waiting
    <3>5. at'[0] = "idle"
      BY <1>1, <2>1
    <3> QED  BY <1>0, <1>1, <3>1, <3>3, <3>4, <3>5 DEF OneByOne
  <2>2. CASE k # 0
    <3>1. stage' = stage /\ at'[0] = at[0]
      BY <1>0, <1>1, <2>2
    <3>2. \A s \in Requests : (Open(s)' <=> Open(s)) /\ (Waiting(s)' <=> Waiting(s))
      BY <1>1, <3>1 DEF Open, Waiting
    <3> QED  BY <1>0, <1>1, <3>1, <3>2 DEF OneByOne
  <2> QED  BY <2>1, <2>2
<1>10. Finishing'
  <2>1. \A j \in Ranks : /\ at'[j] \in {"capture", "decode", "decoded", "idle"}
                         /\ at'[j] = "capture" => pos'[j] = Len(Prompt)
    BY <1>1, <1>2 DEF Finishing
  <2> QED  BY <1>0, <1>2, <1>3, <1>5, <1>6, <1>9, <2>1, FinishingKept
<1> QED  BY <1>9, <1>10

(***************************************************************************)
(* One request of one row at a time: the ranks bring the same tokens to    *)
(* every forward, and between requests their caches are equal, although    *)
(* the lookup touches the cache of rank 0 before the others restore        *)
(* (lookup_hint and restore of prefix_snapshot.py, do_POST).               *)
(***************************************************************************)
THEOREM RanksAgreeHolds == Spec => []RanksAgree
<1>1. TrueInv /\ TrueInv' /\ Agree /\ [Next]_vars => Agree'
  <2> SUFFICES ASSUME TrueInv, TrueInv', Agree, [Next]_vars, conf'.orderly
               PROVE  OneByOne' /\ (Starting' \/ Prefilling' \/ Finishing')
    BY DEF Agree
  <2>1. conf' = conf
    BY DEF Next, Generate, vars, handlers, Lookup, Submit, Broadcast, Settings, Begin, Forward,
           Capture, Decode, Return
  <2>2. CASE UNCHANGED vars
    <3>0. 0 \in Ranks /\ OneByOne /\ (Starting \/ Prefilling \/ Finishing)
      BY <2>1, SnapshotAssumption DEF Agree
    <3>1. /\ UNCHANGED <<stage, ask, hint, queue, job, at, pos, pending, kv, lru>>
          /\ Prompt' = Prompt
      BY <2>2 DEF vars, handlers, Prompt
    <3>2. \A j \in Ranks : Cache(j)' = Cache(j) /\ Left(j)' = Left(j)
      BY <3>1, CacheKept
    <3>3. OneByOne' /\ \A s \in Requests : Waiting(s)' <=> Waiting(s)
      BY <3>0, <3>1 DEF OneByOne, Open, Waiting
    <3>4. \A j \in Ranks : \A s : Ready(j, s)' <=> Ready(j, s)
      BY <3>0, <3>1, <3>2 DEF Ready
    <3>5. CASE Starting
      <4>1. \A n : PendingFrom(n)' = PendingFrom(n)
        BY <3>1 DEF PendingFrom
      <4> QED  BY <3>1, <3>3, <3>4, <3>5, <4>1 DEF Starting
    <3>6. CASE Prefilling
      BY <3>0, <3>1, <3>2, <3>3, <3>6 DEF Prefilling
    <3>7. CASE Finishing
      <4>1. \A j \in Ranks : /\ at'[j] \in {"capture", "decode", "decoded", "idle"}
                             /\ at'[j] = "capture" => pos'[j] = Len(Prompt)
        BY <3>1, <3>7 DEF Finishing
      <4> QED  BY <3>0, <3>1, <3>2, <3>3, <3>4, <3>7, <4>1, FinishingKept
    <3> QED  BY <3>0, <3>5, <3>6, <3>7
  <2> QED
    BY <2>1, <2>2, LookupAgree, SubmitAgree, BroadcastAgree, SettingsAgree, ForwardAgree,
       CaptureAgree, DecodeAgree, ReturnAgree DEF Next, Generate
<1>2. TrueInv /\ Agree => RanksAgree
  <2> SUFFICES ASSUME TrueInv, Agree, conf.orderly, NEW k \in Ranks
               PROVE  /\ (\A j \in Ranks : at[j] = "forward") =>
                           pos[k] = pos[0] /\ pending[k] = pending[0]
                      /\ (/\ \A r \in Requests : stage[r] \in {"new", "done"}
                          /\ \A j \in Ranks : at[j] = "idle") => lru[k] = lru[0]
    BY DEF RanksAgree
  <2>0. 0 \in Ranks /\ OneByOne /\ (Starting \/ Prefilling \/ Finishing)
    BY SnapshotAssumption DEF Agree
  <2>1. ASSUME \A j \in Ranks : at[j] = "forward"
        PROVE  pos[k] = pos[0] /\ pending[k] = pending[0]
    BY <2>0, <2>1, ForwardAlike
  <2>2. ASSUME \A r \in Requests : stage[r] \in {"new", "done"}, \A j \in Ranks : at[j] = "idle"
        PROVE  lru[k] = lru[0]
    <3>1. Finishing
      BY <2>0, <2>2, IdleFinishing
    <3>2. \A i \in 1..Len(queue) : queue[i] \in Requests
      BY DEF TrueInv, TypeOK
    <3>3. \A r \in Requests : ~Waiting(r)
      BY <2>0, <2>2, <3>2 DEF OneByOne, Waiting
    <3>4. Cache(k) = lru[k] /\ Cache(0) = lru[0]
      BY <2>0, <2>2 DEF Cache, Captures
    <3> QED  BY <3>1, <3>3, <3>4, <2>0 DEF Finishing
  <2> QED  BY <2>1, <2>2
<1>3. Init => Agree
  BY AgreeInit
<1> QED  BY <1>1, <1>2, <1>3, TrueInvHolds, PTL DEF Spec
=============================================================================
