----------------------------- MODULE MCMoeServer -----------------------------
(***************************************************************************)
(* The external CPU-MoE server for TLC: an instance of WeightArena, how a  *)
(* launch comes up and ends, and one of MoeIpc, the calls to the server    *)
(* that is up.  They share nothing: a behaviour is one of either.          *)
(*                                                                         *)
(* The launcher is not used again while the model still runs, so the       *)
(* bounded number of launches ends behaviours in an idle state.            *)
(***************************************************************************)
EXTENDS WeightArena

CONSTANTS Clients, Slots, MaxCalls, Torn

VARIABLES
  part,  \* the module that a behaviour is one of
  conf, req, resp, input, output, acks, pc, seq, saw, told, calls, serverLoop, last, cur, back

ipcVars == <<conf, req, resp, input, output, acks, pc, seq, saw, told, calls,
             serverLoop, last, cur, back>>

Segment == INSTANCE MoeIpc WITH World <- Clients, server <- serverLoop

ASSUME SegmentAssumption == Segment!IpcAssumption

MCInit ==
  /\ part \in {"launches", "calls"}
  /\ env \in (IF part = "launches" THEN Settings ELSE {CHOOSE s \in Settings : TRUE}) /\ Init
  /\ Segment!Init
  /\ part = "calls" \/ conf = [predict |-> FALSE, native |-> FALSE]
MCNext ==
  \/ part = "launches" /\ Next /\ UNCHANGED <<part, ipcVars>>
  \/ part = "calls" /\ Segment!Next /\ UNCHANGED <<part, vars>>

\* FairSpec of both, each in its own behaviours.
Launches(A) == part = "launches" /\ A
Calls(A) == part = "calls" /\ A
MCSpec ==
  /\ MCInit /\ [][MCNext]_<<part, vars, ipcVars>>
  /\ WF_vars(Launches(Launcher)) /\ WF_vars(Launches(Server))
  /\ \A r \in Ranks : WF_vars(Launches(Rank(r)))
  /\ \A k \in Segment!Ranks : WF_ipcVars(Calls(Segment!Rank(k)))
  /\ WF_ipcVars(Calls(Segment!Server))

-----------------------------------------------------------------------------
\* What is read out of the segment is never being overwritten: MoeIpc.
WholeWhenUsed == Segment!WholeWhenUsed
\* Neither side's write-back of the header undoes what the other wrote: MoeIpc.
HeaderAdvances == Segment!HeaderAdvances
\* Every rank gets through all its calls: MoeIpc.
AllCallsReturn == part = "calls" => Segment!AllCallsReturn
=============================================================================
