---------------------------- MODULE MoeIpcProofs ----------------------------
(***************************************************************************)
(* Proofs about MoeIpc, for any number of ranks, slots and calls.          *)
(***************************************************************************)
EXTENDS MoeIpc, TLAPS

(***************************************************************************)
(* Two requests less than Slots apart have slots of their own.             *)
(***************************************************************************)
LEMMA SlotsApart ==
  ASSUME Slots \in Nat \ {0}, NEW m \in Nat, NEW n \in Nat, m < n, n < m + Slots
  PROVE  Slot(m) # Slot(n)
<1> DEFINE p == m \div Slots
           q == n \div Slots
<1>1. p \in Int /\ q \in Int /\ m % Slots \in 0..Slots - 1 /\ n % Slots \in 0..Slots - 1
  OBVIOUS
<1>2. m = Slots * p + (m % Slots) /\ n = Slots * q + (n % Slots)
  OBVIOUS
<1> HIDE DEF p, q
<1> SUFFICES ASSUME m % Slots = n % Slots PROVE FALSE
  BY DEF Slot
<1>3. CASE q <= p
  <2>1. Slots * q <= Slots * p
    BY <1>1, <1>3
  <2> QED  BY <1>1, <1>2, <2>1
<1>4. CASE q >= p + 1
  <2>1. Slots * q >= Slots * (p + 1)
    BY <1>1, <1>4
  <2>2. Slots * (p + 1) = Slots * p + Slots
    BY <1>1
  <2> QED  BY <1>1, <1>2, <2>1, <2>2
<1> QED  BY <1>1, <1>3, <1>4

LEMMA SlotType ==
  ASSUME Slots \in Nat \ {0}, NEW n \in Nat
  PROVE  Slot(n) \in 0..Slots - 1
  BY DEF Slot

-----------------------------------------------------------------------------
(***************************************************************************)
(* The inductive invariant.  ReadIsWhole is not inductive: that a slot is  *)
(* not written again while a rank reads it rests on what the ack cells say *)
(* of calls long past, and that rank 0 and the server do not write the     *)
(* header at the same time rests on where both are.                        *)
(***************************************************************************)
Places == {"idle", "fill", "publish", "tell", "wait", "read"}
Loop == {"wait", "compute", "readback", "writeback", "respond"}
Tensors == Nat \cup {Torn}

TypeOK ==
  /\ conf \in [predict : BOOLEAN, native : BOOLEAN]
  /\ req \in Nat /\ resp \in Nat
  /\ input \in Tensors
  /\ output \in [0..Slots - 1 -> Tensors]
  /\ acks \in [0..Slots - 1 -> [Ranks -> Nat]]
  /\ pc \in [Ranks -> Places]
  /\ seq \in [Ranks -> Nat]
  /\ saw \in Nat /\ told \in Nat
  /\ calls \in [Ranks -> Nat]
  /\ server \in Loop
  /\ last \in Nat /\ cur \in Nat /\ back \in Nat

\* The server is at the request that rank 0 published last, or has answered
\* it, or has not seen it yet.
ServerAt ==
  /\ resp = last
  /\ server = "wait" => cur = last /\ req \in {last, last + 1}
  /\ server # "wait" => cur = req /\ req = last + 1
  /\ server = "writeback" => back = req

\* Rank 0 submits when the server has nothing to do, and its input stays until
\* it has the answer.
Rank0At ==
  /\ IF pc[0] = "idle" THEN calls[0] = seq[0] ELSE seq[0] = calls[0] + 1
  /\ IF pc[0] \in {"fill", "publish"}
       THEN req = last /\ seq[0] = req + 1 /\ saw = resp ELSE seq[0] = req
  /\ pc[0] \in {"idle", "read"} => req = last
  /\ pc[0] \in {"publish", "tell", "wait"} => input = seq[0]

\* The other ranks are at the calls they count; an ack is of a call that is
\* over.
OthersAt == \A k \in Others :
  /\ pc[k] \in {"idle", "wait", "read"}
  /\ seq[k] = IF pc[k] = "idle" THEN calls[k] ELSE calls[k] + 1
  /\ pc[k] = "read" => seq[k] <= resp
AcksPast == \A s \in 0..Slots - 1, k \in Others : acks[s][k] <= calls[k]

\* Nobody is behind rank 0 by more calls than there are slots.
Ahead == \A k \in Ranks : seq[0] <= calls[k] + Slots

\* The answers of the last Slots requests are in their slots, except the one
\* whose slot the request under way has taken.
Answers == \A n \in 1..last : cur < n + Slots => output[Slot(n)] = n
Computed == server \in {"readback", "writeback", "respond"} => output[Slot(cur)] = cur

IpcInv == TypeOK /\ ServerAt /\ Rank0At /\ OthersAt /\ AcksPast /\ Ahead /\ Answers /\ Computed

LEMMA Numbered ==
  ASSUME IpcAssumption
  PROVE  /\ 0 \in Ranks /\ Others \subseteq Ranks /\ Slots \in Nat \ {0}
         /\ \A k \in Ranks : k # 0 <=> k \in Others
  BY DEF IpcAssumption, Ranks, Others

LEMMA InitIpc == ASSUME IpcAssumption, Init PROVE IpcInv
<1>1. TypeOK
  BY DEF Init, TypeOK, Places, Loop, Tensors
<1>2. ServerAt /\ Rank0At /\ Answers /\ Computed
  BY Numbered DEF Init, ServerAt, Rank0At, Answers, Computed
<1>3. OthersAt /\ AcksPast /\ Ahead
  BY Numbered DEF Init, OthersAt, AcksPast, Ahead
<1> QED  BY <1>1, <1>2, <1>3 DEF IpcInv

\* While the server has a request rank 0 waits for it, and its input is there.
LEMMA UnderWay ==
  ASSUME IpcAssumption, IpcInv, req = last + 1
  PROVE  pc[0] \in {"tell", "wait"} /\ seq[0] = req /\ input = req
<1>1. pc[0] \in Places /\ last \in Nat
  BY Numbered DEF IpcInv, TypeOK
<1>2. pc[0] \in {"tell", "wait"}
  BY <1>1 DEF IpcInv, Rank0At, Places
<1> QED  BY <1>2 DEF IpcInv, Rank0At

\* What the server alone has written is not touched by a rank.
LEMMA BySide ==
  ASSUME IpcInv, UNCHANGED <<output, server, last, cur>>
  PROVE  Answers' /\ Computed'
  BY DEF IpcInv, Answers, Computed

LEMMA BeginSubmitInv ==
  ASSUME IpcAssumption, IpcInv, BeginSubmit
  PROVE  IpcInv'
<1> USE Numbered DEF IpcInv
<1>1. /\ pc[0] = "idle" /\ SlotFree(req + 1 - Slots) /\ seq' = [seq EXCEPT ![0] = req + 1]
      /\ saw' = resp /\ input' = Torn /\ pc' = [pc EXCEPT ![0] = "fill"]
      /\ UNCHANGED <<conf, req, resp, output, acks, told, calls, server, last, cur, back>>
  BY DEF BeginSubmit, Goto, header, loop
<1>2. TypeOK'
  BY <1>1 DEF TypeOK, Places, Tensors
<1>3. ServerAt' /\ Rank0At' /\ OthersAt' /\ AcksPast'
  BY <1>1 DEF TypeOK, ServerAt, Rank0At, OthersAt, AcksPast
<1>4. Ahead'
  <2> SUFFICES ASSUME NEW k \in Ranks PROVE req + 1 <= calls[k] + Slots
    BY <1>1 DEF Ahead, TypeOK
  <2>1. CASE k = 0
    BY <1>1, <2>1 DEF TypeOK, Rank0At
  <2>2. CASE k # 0
    <3>1. calls[k] \in Nat /\ req \in Nat
      BY DEF TypeOK
    <3>2. CASE req + 1 - Slots > 0
      <4>1. Slot(req + 1 - Slots) \in 0..Slots - 1
        BY <3>1, <3>2, SlotType
      <4>2. /\ acks[Slot(req + 1 - Slots)][k] \in Nat
            /\ acks[Slot(req + 1 - Slots)][k] <= calls[k]
        BY <2>2, <4>1 DEF TypeOK, AcksPast
      <4>3. acks[Slot(req + 1 - Slots)][k] >= req + 1 - Slots
        BY <1>1, <2>2, <3>2 DEF SlotFree
      <4> QED  BY <3>1, <4>2, <4>3
    <3> QED  BY <3>1, <3>2
  <2> QED  BY <2>1, <2>2
<1> QED  BY <1>1, <1>2, <1>3, <1>4, BySide

LEMMA WriteFieldsInv ==
  ASSUME IpcAssumption, IpcInv, WriteFields
  PROVE  IpcInv' /\ resp' = resp
<1> USE Numbered DEF IpcInv
<1>1. /\ pc[0] = "fill" /\ input' = seq[0] /\ resp' = saw /\ pc' = [pc EXCEPT ![0] = "publish"]
      /\ UNCHANGED <<conf, req, output, acks, seq, saw, told, calls, server, last, cur, back>>
  BY DEF WriteFields, Goto, loop
<1>2. resp' = resp
  BY <1>1 DEF Rank0At
<1>3. TypeOK'
  BY <1>1 DEF TypeOK, Places, Tensors
<1>4. ServerAt' /\ Rank0At' /\ OthersAt' /\ AcksPast' /\ Ahead'
  BY <1>1, <1>2 DEF TypeOK, ServerAt, Rank0At, OthersAt, AcksPast, Ahead
<1> QED  BY <1>1, <1>2, <1>3, <1>4, BySide

LEMMA PublishInv ==
  ASSUME IpcAssumption, IpcInv, Publish
  PROVE  IpcInv' /\ req' = req + 1
<1> USE Numbered DEF IpcInv
<1>1. /\ pc[0] = "publish" /\ req' = seq[0] /\ pc' = [pc EXCEPT ![0] = "tell"]
      /\ UNCHANGED <<conf, resp, input, output, acks, seq, saw, told, calls, server, last, cur, back>>
  BY DEF Publish, Goto, loop
<1>2. req = last /\ req' = req + 1 /\ server = "wait"
  BY <1>1 DEF Rank0At, ServerAt, TypeOK
<1>3. TypeOK'
  BY <1>1 DEF TypeOK, Places
<1>4. ServerAt' /\ Rank0At' /\ OthersAt' /\ AcksPast' /\ Ahead'
  BY <1>1, <1>2 DEF TypeOK, ServerAt, Rank0At, OthersAt, AcksPast, Ahead
<1> QED  BY <1>1, <1>2, <1>3, <1>4, BySide

LEMMA TellInv ==
  ASSUME IpcAssumption, IpcInv, Tell
  PROVE  IpcInv'
<1> USE Numbered DEF IpcInv
<1>1. /\ pc[0] = "tell" /\ told' \in {told, seq[0]} /\ pc' = [pc EXCEPT ![0] = "wait"]
      /\ UNCHANGED <<conf, req, resp, input, output, acks, seq, saw, calls, server, last, cur, back>>
  BY DEF Tell, Goto, header, loop
<1>2. TypeOK'
  BY <1>1 DEF TypeOK, Places
<1>3. ServerAt' /\ Rank0At' /\ OthersAt' /\ AcksPast' /\ Ahead'
  BY <1>1 DEF TypeOK, ServerAt, Rank0At, OthersAt, AcksPast, Ahead
<1> QED  BY <1>1, <1>2, <1>3, BySide

LEMMA ExpectInv ==
  ASSUME IpcAssumption, IpcInv, NEW k \in Ranks, Expect(k)
  PROVE  IpcInv'
<1> USE Numbered DEF IpcInv
<1>1. /\ k # 0 /\ pc[k] = "idle" /\ seq' = [seq EXCEPT ![k] = @ + 1]
      /\ pc' = [pc EXCEPT ![k] = "wait"]
      /\ UNCHANGED <<conf, req, resp, input, output, acks, saw, told, calls, server, last, cur, back>>
  BY DEF Expect, Goto, header, loop
<1>2. TypeOK'
  BY <1>1 DEF TypeOK, Places
<1>3. seq'[0] = seq[0] /\ pc'[0] = pc[0]
  BY <1>1 DEF TypeOK
<1>4. ServerAt' /\ Rank0At' /\ AcksPast' /\ Ahead'
  BY <1>1, <1>3 DEF ServerAt, Rank0At, AcksPast, Ahead
<1>5. OthersAt'
  BY <1>1 DEF TypeOK, OthersAt
<1> QED  BY <1>1, <1>2, <1>4, <1>5, BySide

LEMMA BeginReadInv ==
  ASSUME IpcAssumption, IpcInv, NEW k \in Ranks, BeginRead(k)
  PROVE  IpcInv'
<1> USE Numbered DEF IpcInv
<1>1. /\ pc[k] = "wait" /\ resp >= seq[k] /\ pc' = [pc EXCEPT ![k] = "read"]
      /\ UNCHANGED <<conf, req, resp, input, output, acks, seq, saw, told, calls, server, last, cur, back>>
  BY DEF BeginRead, Goto, header, loop
<1>2. TypeOK'
  BY <1>1 DEF TypeOK, Places
<1>3. Rank0At'
  <2>1. CASE k = 0
    <3>1. req = last
      BY <1>1, <2>1 DEF TypeOK, Rank0At, ServerAt
    <3> QED  BY <1>1, <2>1, <3>1 DEF TypeOK, Rank0At
  <2>2. CASE k # 0
    BY <1>1, <2>2 DEF TypeOK, Rank0At
  <2> QED  BY <2>1, <2>2
<1>4. ServerAt' /\ AcksPast' /\ Ahead'
  BY <1>1 DEF ServerAt, AcksPast, Ahead
<1>5. OthersAt'
  BY <1>1 DEF TypeOK, OthersAt
<1> QED  BY <1>1, <1>2, <1>3, <1>4, <1>5, BySide

LEMMA EndReadInv ==
  ASSUME IpcAssumption, IpcInv, NEW k \in Ranks, EndRead(k)
  PROVE  IpcInv'
<1> USE Numbered DEF IpcInv
<1>1. /\ pc[k] = "read" /\ calls' = [calls EXCEPT ![k] = @ + 1] /\ pc' = [pc EXCEPT ![k] = "idle"]
      /\ acks' = IF k = 0 THEN acks ELSE [acks EXCEPT ![Slot(seq[k])][k] = seq[k]]
      /\ UNCHANGED <<conf, req, resp, input, output, seq, saw, told, server, last, cur, back>>
  BY DEF EndRead, Goto, header, loop
<1>2. seq[k] = calls[k] + 1 /\ seq[k] \in Nat /\ calls[k] \in Nat
  BY <1>1 DEF TypeOK, Rank0At, OthersAt
<1>3. Slot(seq[k]) \in 0..Slots - 1
  BY <1>2, SlotType
<1>4. acks' \in [0..Slots - 1 -> [Ranks -> Nat]]
  BY <1>1, <1>2, <1>3 DEF TypeOK
<1>5. TypeOK'
  BY <1>1, <1>2, <1>4 DEF TypeOK, Places
<1>6. /\ calls'[k] = calls[k] + 1 /\ pc'[k] = "idle"
      /\ \A j \in Ranks : j # k => calls'[j] = calls[j] /\ pc'[j] = pc[j]
  BY <1>1 DEF TypeOK
<1>7. Rank0At'
  <2>1. CASE k = 0
    BY <1>1, <1>2, <1>6, <2>1 DEF Rank0At
  <2>2. CASE k # 0
    BY <1>1, <1>6, <2>2 DEF Rank0At
  <2> QED  BY <2>1, <2>2
<1>8. ServerAt'
  BY <1>1 DEF ServerAt
<1>9. OthersAt'
  BY <1>1, <1>2, <1>6 DEF OthersAt
<1>10. Ahead'
  <2> SUFFICES ASSUME NEW j \in Ranks PROVE seq[0] <= calls'[j] + Slots
    BY <1>1 DEF Ahead
  <2>1. calls[j] \in Nat /\ seq[0] \in Nat /\ seq[0] <= calls[j] + Slots
    BY DEF TypeOK, Ahead
  <2> QED  BY <1>6, <2>1
<1>11. AcksPast'
  <2> SUFFICES ASSUME NEW s \in 0..Slots - 1, NEW j \in Others PROVE acks'[s][j] <= calls'[j]
    BY DEF AcksPast
  <2>1. acks[s][j] \in Nat /\ calls[j] \in Nat /\ acks[s][j] <= calls[j]
    BY DEF TypeOK, AcksPast
  <2>2. CASE j # k
    <3>1. acks'[s][j] = acks[s][j]
      BY <1>1, <1>3, <2>2 DEF TypeOK
    <3> QED  BY <1>6, <2>1, <2>2, <3>1
  <2>3. CASE j = k
    <3>1. acks'[s][k] \in {acks[s][k], seq[k]}
      BY <1>1, <1>3, <2>3 DEF TypeOK
    <3> QED  BY <1>2, <1>6, <2>1, <2>3, <3>1
  <2> QED  BY <2>2, <2>3
<1> QED  BY <1>1, <1>5, <1>7, <1>8, <1>9, <1>10, <1>11, BySide

\* A step of the server that leaves the ranks' side of the segment alone.
LEMMA RanksAside ==
  ASSUME IpcInv, UNCHANGED <<acks, client>>, input' = input, resp' >= resp, resp \in Nat,
         resp' \in Nat, pc[0] \in {"tell", "wait"}, req' = req
  PROVE  Rank0At' /\ OthersAt' /\ AcksPast' /\ Ahead'
<1>1. Rank0At' /\ AcksPast' /\ Ahead'
  BY DEF IpcInv, client, Rank0At, AcksPast, Ahead
<1>2. OthersAt'
  <2> SUFFICES ASSUME NEW k \in Others, pc[k] = "read" PROVE seq[k] <= resp'
    BY DEF IpcInv, client, OthersAt
  <2>1. seq[k] <= resp /\ seq[k] \in Nat
    BY DEF IpcInv, TypeOK, OthersAt, Others, Ranks
  <2> QED  BY <2>1
<1> QED  BY <1>1, <1>2

LEMMA TakeRequestInv ==
  ASSUME IpcAssumption, IpcInv, TakeRequest
  PROVE  IpcInv'
<1> USE Numbered DEF IpcInv
<1>1. /\ server = "wait" /\ req > last /\ cur' = req
      /\ output' = [output EXCEPT ![Slot(req)] = Torn] /\ server' = "compute"
      /\ UNCHANGED <<conf, req, resp, input, acks, client, last, back>>
  BY DEF TakeRequest, header
<1>2. req = last + 1 /\ cur = last /\ last \in Nat /\ resp \in Nat
  BY <1>1 DEF ServerAt, TypeOK
<1>3. Slot(req) \in 0..Slots - 1
  BY <1>2, SlotType
<1>4. pc[0] \in {"tell", "wait"}
  BY <1>2, UnderWay
<1>5. TypeOK'
  BY <1>1, <1>2, <1>3 DEF TypeOK, client, Loop, Tensors
<1>6. ServerAt' /\ Computed'
  BY <1>1, <1>2 DEF ServerAt, Computed
<1>7. Answers'
  <2> SUFFICES ASSUME NEW n \in 1..last, req < n + Slots  PROVE output'[Slot(n)] = n
    BY <1>1 DEF Answers
  <2>1. output[Slot(n)] = n
    BY <1>2 DEF Answers
  <2>2. Slot(n) # Slot(req)
    BY <1>2, SlotsApart
  <2>3. Slot(n) \in 0..Slots - 1
    BY SlotType
  <2> QED  BY <1>1, <2>1, <2>2, <2>3 DEF TypeOK
<1>8. Rank0At' /\ OthersAt' /\ AcksPast' /\ Ahead'
  BY <1>1, <1>2, <1>4, RanksAside
<1> QED  BY <1>5, <1>6, <1>7, <1>8

LEMMA EndComputeInv ==
  ASSUME IpcAssumption, IpcInv, EndCompute
  PROVE  IpcInv'
<1> USE Numbered DEF IpcInv
<1>1. /\ server = "compute" /\ output' = [output EXCEPT ![Slot(cur)] = input]
      /\ server' \in {"respond", "readback"}
      /\ UNCHANGED <<conf, req, resp, input, acks, client, last, cur, back>>
  BY DEF EndCompute, header
<1>2. cur = req /\ req = last + 1 /\ last \in Nat /\ cur \in Nat /\ resp \in Nat
  BY <1>1 DEF ServerAt, TypeOK
<1>3. Slot(cur) \in 0..Slots - 1
  BY <1>2, SlotType
<1>4. pc[0] \in {"tell", "wait"} /\ input = cur
  BY <1>2, UnderWay
<1>5. TypeOK'
  BY <1>1, <1>3 DEF TypeOK, client, Loop, Tensors
<1>6. ServerAt' /\ Computed'
  BY <1>1, <1>2, <1>3, <1>4 DEF ServerAt, Computed, TypeOK
<1>7. Answers'
  <2> SUFFICES ASSUME NEW n \in 1..last, cur < n + Slots  PROVE output'[Slot(n)] = n
    BY <1>1 DEF Answers
  <2>1. output[Slot(n)] = n
    BY DEF Answers
  <2>2. Slot(n) # Slot(cur)
    BY <1>2, SlotsApart
  <2>3. Slot(n) \in 0..Slots - 1
    BY SlotType
  <2> QED  BY <1>1, <2>1, <2>2, <2>3 DEF TypeOK
<1>8. Rank0At' /\ OthersAt' /\ AcksPast' /\ Ahead'
  BY <1>1, <1>2, <1>4, RanksAside
<1> QED  BY <1>5, <1>6, <1>7, <1>8

\* The two header accesses of the Python respond: what it read is still there.
LEMMA ReadBackInv ==
  ASSUME IpcAssumption, IpcInv, ReadBack
  PROVE  IpcInv'
<1> USE Numbered DEF IpcInv
<1>1. /\ server = "readback" /\ back' = req /\ server' = "writeback"
      /\ UNCHANGED <<conf, req, resp, input, output, acks, client, last, cur>>
  BY DEF ReadBack, header
<1>2. req = last + 1 /\ resp \in Nat /\ pc[0] \in {"tell", "wait"}
  BY <1>1, UnderWay DEF ServerAt, TypeOK
<1>3. TypeOK'
  BY <1>1 DEF TypeOK, client, Loop
<1>4. ServerAt' /\ Computed' /\ Answers'
  BY <1>1 DEF ServerAt, Computed, Answers
<1>5. Rank0At' /\ OthersAt' /\ AcksPast' /\ Ahead'
  BY <1>1, <1>2, RanksAside
<1> QED  BY <1>3, <1>4, <1>5

LEMMA WriteBackInv ==
  ASSUME IpcAssumption, IpcInv, WriteBack
  PROVE  IpcInv' /\ req' = req
<1> USE Numbered DEF IpcInv
<1>1. /\ server = "writeback" /\ req' = back /\ server' = "respond"
      /\ UNCHANGED <<conf, resp, input, output, acks, client, last, cur, back>>
  BY DEF WriteBack
<1>2. req' = req
  BY <1>1 DEF ServerAt
<1>3. req = last + 1 /\ resp \in Nat /\ pc[0] \in {"tell", "wait"}
  BY <1>1, UnderWay DEF ServerAt, TypeOK
<1>4. TypeOK'
  BY <1>1 DEF TypeOK, client, Loop
<1>5. ServerAt' /\ Computed' /\ Answers'
  BY <1>1, <1>2 DEF ServerAt, Computed, Answers
<1>6. Rank0At' /\ OthersAt' /\ AcksPast' /\ Ahead'
  BY <1>1, <1>2, <1>3, RanksAside
<1> QED  BY <1>2, <1>4, <1>5, <1>6

LEMMA RespondInv ==
  ASSUME IpcAssumption, IpcInv, Respond
  PROVE  IpcInv' /\ resp' = resp + 1
<1> USE Numbered DEF IpcInv
<1>1. /\ server = "respond" /\ resp' = cur /\ last' = cur /\ server' = "wait"
      /\ UNCHANGED <<conf, req, input, output, acks, client, cur, back>>
  BY DEF Respond
<1>2. /\ cur = req /\ req = last + 1 /\ resp = last /\ last \in Nat
      /\ pc[0] \in {"tell", "wait"}
  BY <1>1, UnderWay DEF ServerAt, TypeOK
<1>3. TypeOK'
  BY <1>1 DEF TypeOK, client, Loop
<1>4. ServerAt' /\ Computed'
  BY <1>1, <1>2 DEF ServerAt, Computed
<1>5. Answers'
  <2> SUFFICES ASSUME NEW n \in 1..cur, cur < n + Slots  PROVE output[Slot(n)] = n
    BY <1>1 DEF Answers
  <2>1. CASE n = cur
    BY <1>1, <2>1 DEF Computed
  <2>2. CASE n # cur
    <3>1. n \in 1..last
      BY <1>2, <2>2
    <3> QED  BY <3>1 DEF Answers
  <2> QED  BY <2>1, <2>2
<1>6. Rank0At' /\ OthersAt' /\ AcksPast' /\ Ahead'
  BY <1>1, <1>2, RanksAside
<1> QED  BY <1>1, <1>2, <1>3, <1>4, <1>5, <1>6

-----------------------------------------------------------------------------
LEMMA StutterInv == ASSUME IpcInv, UNCHANGED vars PROVE IpcInv'
  BY DEF vars, IpcInv, TypeOK, ServerAt, Rank0At, OthersAt, AcksPast, Ahead, Answers, Computed

LEMMA IpcInvHolds == ASSUME IpcAssumption PROVE Spec => []IpcInv
<1>1. Init => IpcInv
  BY InitIpc
<1>2. IpcInv /\ [Next]_vars => IpcInv'
  BY BeginSubmitInv, WriteFieldsInv, PublishInv, TellInv, ExpectInv, BeginReadInv, EndReadInv,
     TakeRequestInv, EndComputeInv, ReadBackInv, WriteBackInv, RespondInv, StutterInv
  DEF Next, Rank, Rank0, Server
<1> QED  BY <1>1, <1>2, PTL DEF Spec

(***************************************************************************)
(* Every variable of the segment, the ranks and the server loop keeps its  *)
(* type (ipc.py, the decode calls of runtime.py, moe_server.py).           *)
(***************************************************************************)
THEOREM TypeCorrect == ASSUME IpcAssumption PROVE Spec => []TypeOK
<1>1. IpcInv => TypeOK
  BY DEF IpcInv
<1> QED  BY <1>1, IpcInvHolds, PTL

(***************************************************************************)
(* What a rank copies out of a slot is the output of the request it waited *)
(* for, whole, and the server computes with the whole input of its request *)
(* (submit, wait_slot_acks and wait_response of ipc.py, the server's loop):*)
(* for any number of ranks and slots, however far rank 0 runs ahead.       *)
(***************************************************************************)
THEOREM WholeWhenUsedHolds == ASSUME IpcAssumption PROVE Spec => []WholeWhenUsed
<1>1. IpcInv => ReadIsWhole
  <2> SUFFICES ASSUME IpcInv, NEW k \in Ranks, pc[k] = "read"
               PROVE  seq[k] = calls[k] + 1 /\ output[Slot(seq[k])] = seq[k]
    BY DEF ReadIsWhole
  <2> USE Numbered DEF IpcInv
  <2>1. seq[k] = calls[k] + 1 /\ seq[k] <= last /\ calls[k] \in Nat /\ last \in Nat
    <3>1. CASE k = 0
      BY <3>1 DEF TypeOK, Rank0At, ServerAt
    <3>2. CASE k # 0
      BY <3>2 DEF TypeOK, OthersAt, ServerAt
    <3> QED  BY <3>1, <3>2
  <2>2. cur < seq[k] + Slots
    <3>1. cur \in Nat /\ seq[0] \in Nat /\ cur <= seq[0]
      <4>1. cur <= req /\ req <= seq[0]
        BY DEF TypeOK, ServerAt, Rank0At
      <4> QED  BY <4>1 DEF TypeOK
    <3>2. seq[0] <= calls[k] + Slots
      BY DEF Ahead
    <3> QED  BY <2>1, <3>1, <3>2
  <2>3. seq[k] \in 1..last
    BY <2>1
  <2> QED  BY <2>1, <2>2, <2>3 DEF Answers
<1>2. IpcInv => InputIsWhole
  BY UnderWay DEF IpcInv, ServerAt, InputIsWhole
<1>3. IpcInv => WholeWhenUsed
  BY <1>1, <1>2 DEF WholeWhenUsed
<1> QED  BY <1>3, IpcInvHolds, PTL

(***************************************************************************)
(* Neither side of the segment undoes what the other has written into the  *)
(* header that both write back without a lock (submit and respond of       *)
(* ipc.py): the numbers of requests and responses never go back.           *)
(***************************************************************************)
THEOREM HeaderAdvancesHolds == ASSUME IpcAssumption PROVE Spec => HeaderAdvances
<1>1. IpcInv /\ [Next]_vars => [req' >= req /\ resp' >= resp]_vars
  <2> SUFFICES ASSUME IpcInv, Next PROVE req' >= req /\ resp' >= resp
    OBVIOUS
  <2>1. req \in Nat /\ resp \in Nat
    BY DEF IpcInv, TypeOK
  <2>2. \/ req' = req \/ Publish \/ WriteBack
    BY DEF Next, Rank, Rank0, Server, BeginSubmit, WriteFields, Tell, Expect, BeginRead, EndRead,
           TakeRequest, EndCompute, ReadBack, Respond, header
  <2>3. \/ resp' = resp \/ WriteFields \/ Respond
    BY DEF Next, Rank, Rank0, Server, BeginSubmit, Publish, Tell, Expect, BeginRead, EndRead,
           TakeRequest, EndCompute, ReadBack, WriteBack, header
  <2>4. req' >= req
    BY <2>1, <2>2, PublishInv, WriteBackInv
  <2>5. resp' >= resp
    BY <2>1, <2>3, WriteFieldsInv, RespondInv
  <2> QED  BY <2>4, <2>5
<1> QED  BY <1>1, IpcInvHolds, PTL DEF Spec, HeaderAdvances
=============================================================================
