-------------------------- MODULE RequestService --------------------------
(***************************************************************************)
(* What a serving engine promises the threads that call it, whatever queue *)
(* and worker stand behind it: a request is refused or accepted; an        *)
(* accepted request is answered or failed exactly once, alone or together  *)
(* with a few others that asked for the same thing; and the caller is told *)
(* what happened and nothing else.  ServingEngine implements it.           *)
(***************************************************************************)
EXTENDS Naturals, FiniteSets

CONSTANTS
  Requests,
  Ask,         \* what a request may ask for
  Width        \* how many requests may be settled by one run

VARIABLES
  asks,        \* asks[r]: what request r asks for
  status,      \* status[r]: what has become of r inside the service
  told         \* told[r]: what the caller of r has been told

serviceVars == <<asks, status, told>>

Settled == {"served", "broken"}

Init ==
  /\ asks \in [Requests -> Ask]
  /\ status = [r \in Requests |-> "new"]
  /\ told = [r \in Requests |-> "nothing"]

Accept(r) ==
  /\ status[r] = "new" /\ told[r] = "nothing"
  /\ status' = [status EXCEPT ![r] = "pending"]
  /\ UNCHANGED <<asks, told>>

Refuse(r) ==
  /\ status[r] = "new" /\ told[r] = "nothing"
  /\ told' = [told EXCEPT ![r] = "refused"]
  /\ UNCHANGED <<asks, status>>

\* Requests settled together are pending, few, and ask for the same thing.
Together(S) ==
  /\ S # {} /\ Cardinality(S) <= Width
  /\ \A r, s \in S : status[r] = "pending" /\ asks[r] = asks[s]

Settle(S, how) ==
  /\ Together(S)
  /\ status' = [r \in Requests |-> IF r \in S THEN how ELSE status[r]]
  /\ UNCHANGED <<asks, told>>

\* The caller learns how its request was settled, or gives up before.
Tell(r) ==
  /\ status[r] \in Settled /\ told[r] = "nothing"
  /\ told' = [told EXCEPT ![r] = status[r]]
  /\ UNCHANGED <<asks, status>>

GiveUp(r) ==
  /\ status[r] # "new" /\ told[r] = "nothing"
  /\ told' = [told EXCEPT ![r] = "gaveup"]
  /\ UNCHANGED <<asks, status>>

Next ==
  \/ \E r \in Requests : Accept(r) \/ Refuse(r) \/ Tell(r) \/ GiveUp(r)
  \/ \E S \in SUBSET Requests, how \in Settled : Settle(S, how)

Spec == Init /\ [][Next]_serviceVars
=============================================================================
