------------------------------- MODULE MoeIpc -------------------------------
(***************************************************************************)
(* The shared memory between the model's ranks and the CPU-MoE server:     *)
(* src/components/moe/ipc.py, the decode calls of src/models/deepseek_v4/  *)
(* runtime.py on each rank, and the server loop of moe_server.py (or the   *)
(* native one of src/csrc/deepseek_cpu_moe_ext.cpp).                       *)
(*                                                                         *)
(* Rank 0 submits one request at a time into a single input buffer; the    *)
(* server writes the output of request n to slot n % Slots; every rank     *)
(* copies it from there, and ranks other than 0 acknowledge, so that rank  *)
(* 0 does not have a slot overwritten that another rank still reads.       *)
(*                                                                         *)
(* A tensor in the shared memory is named by the request it belongs to, 0  *)
(* while nobody has written it and Torn while a copy into it is going on.  *)
(* One access to an integer of the header is atomic.                       *)
(***************************************************************************)
EXTENDS Integers

CONSTANTS
  World,    \* number of ranks, at least 1
  Slots,    \* DEEPSEEK_CPU_MOE_OUTPUT_SLOTS, at least 1
  MaxCalls, \* bound: how many times each rank calls the layer
  Torn      \* no number

\* What a deployment gives; Torn tells a tensor that is being written.
IpcAssumption ==
  World \in Nat \ {0} /\ Slots \in Nat \ {0} /\ MaxCalls \in Nat /\ Torn \notin Nat

Ranks == 0..World - 1
Others == 1..World - 1
Slot(seq) == seq % Slots

VARIABLES
  conf,       \* how the processes were started: conf.predict is
              \* DEEPSEEK_CPU_MOE_PREDICT_SEQ (ranks count instead of being
              \* told), conf.native says that the server runs the native loop
  req, resp,  \* header: request_seq and response_seq
  input,      \* the input, ids and weights buffers, as one
  output,     \* output[s]: the output buffer of slot s
  acks,       \* acks[s][k]: the ack cell of rank k for slot s
  pc,         \* pc[k]: where rank k is in a decode call
  seq,        \* seq[k]: the request rank k waits for, or the last it had
  saw,        \* resp as rank 0 read it when it began to submit
  told,       \* the last sequence number rank 0 broadcast
  calls,      \* calls[k]: calls rank k has finished
  server,     \* where the server loop is
  last,       \* last_seq of the server
  cur,        \* the request the server is at
  back        \* req as the Python respond read it

header == <<conf, req, resp>>
client == <<pc, seq, saw, told, calls>>
loop == <<server, last, cur, back>>
vars == <<conf, req, resp, input, output, acks, pc, seq, saw, told, calls,
          server, last, cur, back>>

Init ==
  /\ conf \in [predict : BOOLEAN, native : BOOLEAN]
  /\ req = 0 /\ resp = 0
  /\ input = 0
  /\ output = [s \in 0..Slots - 1 |-> 0]
  /\ acks = [s \in 0..Slots - 1 |-> [k \in Ranks |-> 0]]
  /\ pc = [k \in Ranks |-> "idle"]
  /\ seq = [k \in Ranks |-> 0]
  /\ saw = 0 /\ told = 0
  /\ calls = [k \in Ranks |-> 0]
  /\ server = "wait" /\ last = 0 /\ cur = 0 /\ back = 0

-----------------------------------------------------------------------------
(***************************************************************************)
(* Rank 0: _external_cpu_server_submit_decode.                             *)
(***************************************************************************)
Goto(k, place) == pc' = [pc EXCEPT ![k] = place]

\* A mutant of SlotFree: the loop over the ranks starts one too late.
SlotFreeButOne(s) ==
  s > 0 => \A k \in 2..World - 1 : acks[Slot(s)][k] >= s

\* wait_slot_acks for the request that had the slot before.
SlotFree(s) ==
  s > 0 => \A k \in Others : acks[Slot(s)][k] >= s

\* submit reads the header and starts to copy the input.
BeginSubmit ==
  /\ pc[0] = "idle" /\ calls[0] < MaxCalls
  /\ SlotFree(req + 1 - Slots)
  /\ seq' = [seq EXCEPT ![0] = req + 1]
  /\ saw' = resp
  /\ input' = Torn
  /\ Goto(0, "fill")
  /\ UNCHANGED <<header, output, acks, told, calls, loop>>

\* The input is copied; pack_into of (response_seq, layer_id, stop).
WriteFields ==
  /\ pc[0] = "fill"
  /\ input' = seq[0]
  /\ resp' = saw
  /\ Goto(0, "publish")
  /\ UNCHANGED <<conf, req, output, acks, seq, saw, told, calls, loop>>

\* pack_into of request_seq: from here on the server may take the request.
Publish ==
  /\ pc[0] = "publish"
  /\ req' = seq[0]
  /\ Goto(0, "tell")
  /\ UNCHANGED <<conf, resp, input, output, acks, seq, saw, told, calls, loop>>

\* The broadcast of the sequence number, unless the others predict it.
Tell ==
  /\ pc[0] = "tell"
  /\ told' = IF conf.predict THEN told ELSE seq[0]
  /\ Goto(0, "wait")
  /\ UNCHANGED <<header, input, output, acks, seq, saw, calls, loop>>

\* The other ranks: count, or take part in the broadcast (seq is the last
\* number they had, so a broadcast they have not had is a greater one).
Expect(k) ==
  /\ k # 0 /\ pc[k] = "idle" /\ calls[k] < MaxCalls
  /\ IF conf.predict THEN seq' = [seq EXCEPT ![k] = @ + 1]
     ELSE told > seq[k] /\ seq' = [seq EXCEPT ![k] = @ + 1]
  /\ Goto(k, "wait")
  /\ UNCHANGED <<header, input, output, acks, saw, told, calls, loop>>

\* A mutant of BeginRead: the last response is taken for this one.
BeginReadEarly(k) ==
  /\ pc[k] = "wait" /\ resp >= seq[k] - 1
  /\ Goto(k, "read")
  /\ UNCHANGED <<header, input, output, acks, seq, saw, told, calls, loop>>

\* wait_response, and the copy of the output begins.
BeginRead(k) ==
  /\ pc[k] = "wait" /\ resp >= seq[k]
  /\ Goto(k, "read")
  /\ UNCHANGED <<header, input, output, acks, seq, saw, told, calls, loop>>

\* A mutant of EndRead: nobody acknowledges.
EndReadNoAck(k) ==
  /\ pc[k] = "read"
  /\ calls' = [calls EXCEPT ![k] = @ + 1]
  /\ Goto(k, "idle")
  /\ UNCHANGED <<header, input, output, acks, seq, saw, told, loop>>

\* The copy ends, and ranks other than 0 acknowledge.
EndRead(k) ==
  /\ pc[k] = "read"
  /\ acks' = IF k = 0 THEN acks ELSE [acks EXCEPT ![Slot(seq[k])][k] = seq[k]]
  /\ calls' = [calls EXCEPT ![k] = @ + 1]
  /\ Goto(k, "idle")
  /\ UNCHANGED <<header, input, output, seq, saw, told, loop>>

-----------------------------------------------------------------------------
(***************************************************************************)
(* The server: wait_request, the layer's forward, respond.                 *)
(***************************************************************************)
TakeRequest ==
  /\ server = "wait" /\ req > last
  /\ cur' = req
  /\ output' = [output EXCEPT ![Slot(req)] = Torn]
  /\ server' = "compute"
  /\ UNCHANGED <<header, input, acks, client, last, back>>

EndCompute ==
  /\ server = "compute"
  /\ output' = [output EXCEPT ![Slot(cur)] = input]
  /\ server' = IF conf.native THEN "respond" ELSE "readback"
  /\ UNCHANGED <<header, input, acks, client, last, cur, back>>

\* A mutant of ReadBack: response_seq is published first.
ReadBackPublished ==
  /\ server = "readback"
  /\ back' = req
  /\ resp' = cur
  /\ server' = "writeback"
  /\ UNCHANGED <<conf, req, input, output, acks, client, last, cur>>

\* The Python respond reads the header and writes three fields back ...
ReadBack ==
  /\ server = "readback"
  /\ back' = req
  /\ server' = "writeback"
  /\ UNCHANGED <<header, input, output, acks, client, last, cur>>

WriteBack ==
  /\ server = "writeback"
  /\ req' = back
  /\ server' = "respond"
  /\ UNCHANGED <<conf, resp, input, output, acks, client, last, cur, back>>

\* ... before it publishes response_seq, which is all the native loop does.
Respond ==
  /\ server = "respond"
  /\ resp' = cur
  /\ last' = cur
  /\ server' = "wait"
  /\ UNCHANGED <<conf, req, input, output, acks, client, cur, back>>

-----------------------------------------------------------------------------
Rank0 == BeginSubmit \/ WriteFields \/ Publish \/ Tell
Rank(k) == (k = 0 /\ Rank0) \/ Expect(k) \/ BeginRead(k) \/ EndRead(k)
Server == TakeRequest \/ EndCompute \/ ReadBack \/ WriteBack \/ Respond

Next == (\E k \in Ranks : Rank(k)) \/ Server

Spec == Init /\ [][Next]_vars

\* Every process is scheduled; they spin, none of them waits for a client.
FairSpec == Spec /\ (\A k \in Ranks : WF_vars(Rank(k))) /\ WF_vars(Server)

-----------------------------------------------------------------------------
(***************************************************************************)
(* While a rank copies the output of its n-th call out of the slot, the    *)
(* slot holds the output of request n, whole: rank 0 and the server may be *)
(* up to Slots requests ahead, and wait_slot_acks holds them back.         *)
(***************************************************************************)
ReadIsWhole ==
  \A k \in Ranks : pc[k] = "read" =>
    seq[k] = calls[k] + 1 /\ output[Slot(seq[k])] = seq[k]

(***************************************************************************)
(* While the server computes request n, the input buffer holds the input   *)
(* of request n: rank 0 does not write the next one over it.               *)
(***************************************************************************)
InputIsWhole == server = "compute" => input = cur

\* What is read out of the segment is never being overwritten, on either side.
WholeWhenUsed == ReadIsWhole /\ InputIsWhole

(***************************************************************************)
(* The two sides write fields of one header without a lock: submit writes  *)
(* back the response_seq it read, the Python respond writes back the       *)
(* request_seq it read.  Neither undoes what the other wrote meanwhile.    *)
(***************************************************************************)
HeaderAdvances == [][req' >= req /\ resp' >= resp]_vars

(***************************************************************************)
(* Every rank gets through all its calls: nobody waits for ever for an     *)
(* ack, a broadcast, a request or a response.                              *)
(***************************************************************************)
AllCallsReturn == \A k \in Ranks : <>(calls[k] = MaxCalls)
=============================================================================
