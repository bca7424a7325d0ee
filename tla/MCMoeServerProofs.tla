-------------------------- MODULE MCMoeServerProofs -------------------------
(***************************************************************************)
(* For every number of ranks, launches and kills: the server answers only  *)
(* from weights that the ranks of the current launch have loaded, unless   *)
(* one of the two settings named in AnswersUseLoadedWeights is in use.     *)
(*                                                                         *)
(* The argument follows what a name can denote.  Once this launch has      *)
(* created an arena, its name denotes this launch's segment or nothing,    *)
(* because everybody else only unlinks.  The ranks are started after the   *)
(* server has created (and cleared) all arenas, or create them themselves  *)
(* before they write a ready file, so whoever maps an arena by name gets   *)
(* this launch's; and a request is only made after all ranks have loaded.  *)
(*                                                                         *)
(* The last section states what MoeIpcProofs proves of the calls for the   *)
(* launches and calls of MCMoeServer together.                             *)
(***************************************************************************)
EXTENDS MCMoeServer, TLAPS

-----------------------------------------------------------------------------
(* Type correctness *)

LEMMA Sets ==
  /\ 0 \in Ranks
  /\ Ipc \in Names /\ Ipc \notin Ranks
  /\ Ranks \subseteq Names
  /\ 0 \in Segments
  /\ \A r \in Ranks : r \in Nat /\ (r + 1 < World => r + 1 \in Ranks)
BY WorldAssumption, BoundsAssumption DEF Ranks, Ipc, Names, Segments

LEMMA InitTypeOK == Init => TypeOK
BY Sets, BoundsAssumption
   DEF Init, TypeOK, NoServer, NoRank, Settings

LEMMA LauncherTypeOK == TypeOK /\ Launcher => TypeOK'
<1> SUFFICES ASSUME TypeOK, Launcher PROVE TypeOK'
  OBVIOUS
<1> USE Sets DEF TypeOK
<1>1. CASE StartServer
  <2>1. launch' \in Segments
    BY <1>1, BoundsAssumption DEF StartServer, Segments
  <2> QED
    BY <1>1, <2>1 DEF StartServer, NoServer, NoRank
<1>2. CASE StartRanks
  BY <1>2 DEF StartRanks, NoRank
<1>3. CASE Cleanup
  BY <1>3 DEF Cleanup, NoServer, ServerNames
<1>4. CASE Teardown
  BY <1>4 DEF Teardown, RankNames
<1> QED
  BY <1>1, <1>2, <1>3, <1>4 DEF Launcher

LEMMA ServerTypeOK == TypeOK /\ Server => TypeOK'
<1> SUFFICES ASSUME TypeOK, Server PROVE TypeOK'
  OBVIOUS
<1> USE Sets DEF TypeOK
<1>1. CASE CreateIpc
  BY <1>1 DEF CreateIpc
<1>2. CASE CreateArena
  BY <1>2 DEF CreateArena
<1>3. CASE PreTouch
  BY <1>3 DEF PreTouch
<1>4. CASE SeeReady
  BY <1>4 DEF SeeReady
<1>5. CASE ReadyTimeout
  BY <1>5 DEF ReadyTimeout
<1>6. CASE Attach
  <2> DEFINE r == server.next
  <2>1. r \in Ranks /\ shm[r] \in Segments
    BY Sets
  <2>2. CASE shm[r] = 0
    BY <1>6, <2>2 DEF Attach
  <2>3. CASE shm[r] # 0
    <3>1. server' = [server EXCEPT
                       !.att[r] = shm[r],
                       !.pc = IF r + 1 < World THEN @ ELSE "serve",
                       !.next = IF r + 1 < World THEN @ + 1 ELSE 0]
      BY <1>6, <2>3 DEF Attach
    <3>2. (IF r + 1 < World THEN server.next + 1 ELSE 0) \in Ranks
      BY <2>1, Sets
    <3>3. [server.att EXCEPT ![r] = shm[r]] \in [Ranks -> Segments]
      BY <2>1
    <3>4. server' \in [pc : {"off", "start", "create", "touch", "wait",
                             "attach", "serve", "finally", "unlink", "dead"},
                       next : Ranks, att : [Ranks -> Segments],
                       announced : BOOLEAN]
      BY <3>1, <3>2, <3>3
    <3> QED
      BY <1>6, <3>4 DEF Attach
  <2> QED
    BY <2>2, <2>3
<1>7. CASE Answer
  BY <1>7 DEF Answer
<1>8. CASE UnlinkArenas
  BY <1>8 DEF UnlinkArenas
<1>9. CASE UnlinkIpc
  BY <1>9 DEF UnlinkIpc
<1> QED
  BY <1>1, <1>2, <1>3, <1>4, <1>5, <1>6, <1>7, <1>8, <1>9 DEF Server

LEMMA RankTypeOK ==
  ASSUME NEW r \in Ranks, TypeOK, Rank(r) PROVE TypeOK'
<1> USE Sets DEF TypeOK, Goto
<1>1. CASE Bind(r)
  BY <1>1 DEF Bind
<1>2. CASE Load(r)
  BY <1>2 DEF Load
<1>3. CASE MarkReady(r)
  BY <1>3 DEF MarkReady
<1>4. CASE OpenIpc(r)
  <2>1. CASE shm[Ipc] = 0
    BY <1>4, <2>1 DEF OpenIpc
  <2>2. CASE shm[Ipc] # 0
    <3>1. rank' = [rank EXCEPT ![r].pc = IF r = 0 THEN "submit" ELSE "wait",
                               ![r].ipc = shm[Ipc]]
      BY <1>4, <2>2 DEF OpenIpc
    <3>2. shm[Ipc] \in Segments
      BY Sets
    <3>3. rank' = [rank EXCEPT ![r] =
                    [rank[r] EXCEPT !.pc = IF r = 0 THEN "submit" ELSE "wait",
                                    !.ipc = shm[Ipc]]]
      BY <3>1
    <3>4. (IF r = 0 THEN "submit" ELSE "wait") \in {"submit", "wait"}
      OBVIOUS
    <3>5. [rank[r] EXCEPT !.pc = IF r = 0 THEN "submit" ELSE "wait",
                          !.ipc = shm[Ipc]]
            \in [pc : {"off", "bind", "load", "mark", "prefill", "submit",
                      "wait", "done", "raised", "ended"},
                arena : Segments, ipc : Segments]
      <4>1. rank[r] \in [pc : {"off", "bind", "load", "mark", "prefill",
                              "submit", "wait", "done", "raised", "ended"},
                        arena : Segments, ipc : Segments]
        OBVIOUS
      <4> QED
        BY ONLY <4>1, <3>2, <3>4
    <3>6. rank' \in [Ranks -> [pc : {"off", "bind", "load", "mark",
                                     "prefill", "submit", "wait", "done",
                                     "raised", "ended"},
                               arena : Segments, ipc : Segments]]
      BY <3>3, <3>5
    <3> QED
      BY <1>4, <3>6 DEF OpenIpc
  <2> QED
    BY <2>1, <2>2
<1>5. CASE Submit
  BY <1>5 DEF Submit
<1>6. CASE Collect(r)
  BY <1>6 DEF Collect
<1>7. CASE EndRank(r)
  BY <1>7 DEF EndRank
<1> QED
  BY <1>1, <1>2, <1>3, <1>4, <1>5, <1>6, <1>7 DEF Rank

LEMMA FaultTypeOK == TypeOK /\ Fault => TypeOK'
<1> SUFFICES ASSUME TypeOK, Fault PROVE TypeOK'
  OBVIOUS
<1> USE Sets DEF TypeOK
<1>1. CASE KillServer
  BY <1>1, BoundsAssumption DEF KillServer, ServerNames
<1>2. CASE KillRanks
  BY <1>2, BoundsAssumption DEF KillRanks, RankNames
<1>3. CASE \E n \in Names : TrackerUnlinks(n)
  BY <1>3 DEF TrackerUnlinks
<1> QED
  BY <1>1, <1>2, <1>3 DEF Fault

(***************************************************************************)
(* Every variable keeps its type in every step of the launcher, the        *)
(* server, the ranks and the faults.                                       *)
(***************************************************************************)
THEOREM TypeCorrect == Spec => []TypeOK
<1>1. TypeOK /\ [Next]_vars => TypeOK'
  <2>1. TypeOK /\ Next => TypeOK'
    BY LauncherTypeOK, ServerTypeOK, RankTypeOK, FaultTypeOK DEF Next
  <2>2. TypeOK /\ UNCHANGED vars => TypeOK'
    BY DEF TypeOK, vars
  <2> QED
    BY <2>1, <2>2
<1> QED
  BY <1>1, InitTypeOK, PTL DEF Spec

-----------------------------------------------------------------------------
(* The inductive invariant *)

\* The settings under which nothing is wrong.
Safe == ~env.pinned /\ (env.precreate \/ env.clean)

\* The name of r's arena denotes this launch's segment or nothing.
Current(r) == shm[r] \in {0, launch}

\* Rank r has mapped this launch's arena and loaded its experts into it.
Filled(r) == rank[r].arena = launch /\ <<r, launch>> \in loaded

\* The launcher starts the server, then the ranks, and empties the directory.
LauncherInv ==
  /\ run = "idle" => /\ server.pc = "off"
                     /\ \A r \in Ranks : rank[r].pc \in {"off", "ended"}
  /\ run # "idle" => launch > 0
  /\ run = "server" => \A r \in Ranks : rank[r].pc = "off"
  /\ run = "server" /\ env.clean => ready = {}
  /\ run = "ranks" /\ env.precreate => server.announced

\* What the server has done when it reaches each point of its main.
ServerInv ==
  /\ server.pc \in {"start", "create", "touch"} => ~server.announced
  /\ server.pc \in {"create", "touch"} => env.precreate
  /\ server.pc = "start" => server.next = 0
  /\ server.pc \in {"wait", "attach", "serve"} /\ env.precreate
       => server.announced

\* What the names of the arenas denote.
NamesInv ==
  /\ server.pc = "create" => \A r \in Ranks : r < server.next => Current(r)
  /\ server.pc = "touch" => \A r \in Ranks : r <= server.next => Current(r)
  /\ env.precreate /\ server.announced => \A r \in Ranks : Current(r)
  /\ ~env.precreate =>
       \A r \in Ranks : rank[r].arena = launch => Current(r)

\* No request segment, and no request, is of a later launch.
IpcInv ==
  /\ shm[Ipc] <= launch
  /\ \A r \in Ranks : rank[r].ipc <= launch
  /\ \A l \in asked : l <= launch

\* Ranks past the load have filled their arenas, a ready file of this launch
\* says that the rank has made its own, and a request of this launch says
\* that all ranks are past the load.
RanksInv ==
  /\ \A r \in Ranks : rank[r].pc \in {"load", "mark"} => rank[r].arena = launch
  /\ \A r \in Ranks :
       rank[r].pc \in {"mark", "prefill", "submit", "wait", "done"} => Filled(r)
  /\ env.clean /\ ~env.precreate =>
       \A r \in ready : rank[r].arena = launch
  /\ launch \in asked \/ rank[0].pc = "submit" =>
       \A r \in Ranks : Filled(r) /\ rank[r].pc \notin {"off", "bind", "load"}

\* The server has mapped this launch's arenas.
AttachInv ==
  /\ server.pc = "wait" => \A r \in Ranks : r < server.next => r \in ready
  /\ server.pc = "attach" => Ranks \subseteq ready
  /\ server.pc = "attach" =>
       \A r \in Ranks : r < server.next => server.att[r] = launch
  /\ server.pc = "serve" => \A r \in Ranks : server.att[r] = launch

Inv ==
  /\ LauncherInv /\ ServerInv /\ NamesInv /\ IpcInv
  /\ Safe => RanksInv /\ AttachInv /\ verdict # "wrong"

\* Loops over the ranks in order.
LEMMA Order ==
  ASSUME NEW q \in Ranks
  PROVE  \A r \in Ranks :
           /\ ~(r < 0)
           /\ r < q + 1 => r <= q
           /\ r <= q => r = q \/ r < q
           /\ ~(q + 1 < World) => r <= q
BY WorldAssumption DEF Ranks

LEMMA InitInv == Init => Inv
BY Sets DEF Init, Inv, LauncherInv, ServerInv, NamesInv, IpcInv, RanksInv,
            AttachInv, Current, NoServer, NoRank

LEMMA LauncherKeepsInv == TypeOK /\ Inv /\ Launcher => Inv'
<1> SUFFICES ASSUME TypeOK, Inv, Launcher PROVE Inv'
  OBVIOUS
<1> USE Sets DEF TypeOK, Segments
<1> USE DEF Inv, Safe, Current, Filled
<1>1. CASE StartServer
  BY <1>1 DEF StartServer, NoServer, NoRank,
              LauncherInv, ServerInv, NamesInv, IpcInv, RanksInv, AttachInv
<1>2. CASE StartRanks
  BY <1>2 DEF StartRanks, NoRank, ArenasAnnounced,
              LauncherInv, ServerInv, NamesInv, IpcInv, RanksInv, AttachInv
<1>3. CASE Cleanup
  BY <1>3 DEF Cleanup, NoServer,
              LauncherInv, ServerInv, NamesInv, IpcInv, RanksInv, AttachInv
<1>4. CASE Teardown
  BY <1>4 DEF Teardown,
              LauncherInv, ServerInv, NamesInv, IpcInv, RanksInv, AttachInv
<1> QED
  BY <1>1, <1>2, <1>3, <1>4 DEF Launcher

LEMMA ServerKeepsInv == TypeOK /\ Inv /\ Server => Inv'
<1> SUFFICES ASSUME TypeOK, Inv, Server PROVE Inv'
  OBVIOUS
<1> USE Sets DEF TypeOK, Segments
<1> USE DEF Inv, Safe, Current, Filled, LauncherInv, ServerInv, NamesInv,
            IpcInv, RanksInv, AttachInv
<1> DEFINE q == server.next
<1>0. q \in Ranks /\ q \in Nat /\ launch \in Nat
  OBVIOUS
<1>r. \A r \in Ranks : /\ ~(r < 0)
                       /\ r < q + 1 => r <= q
                       /\ r <= q => r = q \/ r < q
                       /\ ~(q + 1 < World) => r <= q
  BY <1>0, Order
<1>1. CASE CreateIpc
  <2>1. \A r \in Ranks : shm'[r] = shm[r]
    BY <1>1 DEF CreateIpc
  <2>2. shm'[Ipc] = launch
    BY <1>1 DEF CreateIpc
  <2> QED
    BY <1>0, <1>r, <1>1, <2>1, <2>2 DEF CreateIpc
<1>2. CASE CreateArena
  <2>1. shm'[q] = launch /\ \A n \in Names : n # q => shm'[n] = shm[n]
    BY <1>0, <1>2 DEF CreateArena
  <2> QED
    BY <1>0, <1>r, <1>2, <2>1 DEF CreateArena
<1>3. CASE PreTouch
  <2>1. /\ server.pc = "touch"
        /\ env.precreate /\ ~server.announced
        /\ UNCHANGED <<env, launch, run, shm, ready, rank, asked, verdict>>
    BY <1>3 DEF PreTouch
  <2>2. \A r \in Ranks : rank[r].pc = "off"
    BY <2>1
  <2>3. CASE q + 1 < World
    <3>1. server' = [server EXCEPT !.pc = "create", !.next = @ + 1]
      BY <1>3, <2>3 DEF PreTouch
    <3> QED
      BY <1>0, <1>r, <2>1, <2>2, <3>1
  <2>4. CASE ~(q + 1 < World)
    <3>1. server' = [server EXCEPT !.pc = "wait", !.next = 0,
                                   !.announced = TRUE]
      BY <1>3, <2>4 DEF PreTouch
    <3> QED
      BY <1>0, <1>r, <2>1, <2>2, <2>4, <3>1
  <2> QED
    BY <2>3, <2>4
<1>4. CASE SeeReady
  <2>1. /\ server.pc = "wait"
        /\ q \in ready
        /\ UNCHANGED <<env, launch, run, shm, ready, rank, loaded, asked,
                       verdict>>
    BY <1>4 DEF SeeReady
  <2>2. CASE q + 1 < World
    <3>1. server' = [server EXCEPT !.next = @ + 1]
      BY <1>4, <2>2 DEF SeeReady
    <3> QED
      BY <1>0, <1>r, <2>1, <3>1
  <2>3. CASE ~(q + 1 < World)
    <3>1. server' = [server EXCEPT !.pc = "attach", !.next = 0]
      BY <1>4, <2>3 DEF SeeReady
    <3> QED
      BY <1>0, <1>r, <2>1, <2>3, <3>1
  <2> QED
    BY <2>2, <2>3
<1>5. CASE ReadyTimeout
  BY <1>5 DEF ReadyTimeout
<1>6. CASE Attach
  <2>1. /\ server.pc = "attach"
        /\ UNCHANGED <<env, launch, run, shm, ready, rank, loaded, asked,
                       verdict>>
    BY <1>6 DEF Attach
  <2>2. CASE shm[q] = 0
    BY <1>6, <2>1, <2>2 DEF Attach
  <2>3. CASE shm[q] # 0
    <3>1. server' = [server EXCEPT
                       !.att[q] = shm[q],
                       !.pc = IF q + 1 < World THEN @ ELSE "serve",
                       !.next = IF q + 1 < World THEN @ + 1 ELSE 0]
      BY <1>6, <2>3 DEF Attach
    <3>2. /\ server'.att = [server.att EXCEPT ![q] = shm[q]]
          /\ server'.pc = IF q + 1 < World THEN "attach" ELSE "serve"
          /\ server'.next = IF q + 1 < World THEN q + 1 ELSE 0
          /\ server'.announced = server.announced
      BY <2>1, <3>1
    <3>3. Safe => Current(q)
      BY <1>0, <2>1
    <3>4. Safe => \A r \in Ranks : r <= q => server'.att[r] = launch
      BY <1>0, <1>r, <2>1, <2>3, <3>2, <3>3
    <3> QED
      BY <1>0, <1>r, <2>1, <3>2, <3>4
  <2> QED
    BY <2>2, <2>3
<1>7. CASE Answer
  BY <1>7 DEF Answer, UsesLoadedWeights
<1>8. CASE UnlinkArenas
  BY <1>8 DEF UnlinkArenas
<1>9. CASE UnlinkIpc
  BY <1>9 DEF UnlinkIpc
<1> QED
  BY <1>1, <1>2, <1>3, <1>4, <1>5, <1>6, <1>7, <1>8, <1>9 DEF Server

LEMMA RankKeepsInv ==
  ASSUME NEW r \in Ranks, TypeOK, Inv, Rank(r) PROVE Inv'
<1> USE Sets DEF TypeOK, Segments, Goto
<1> USE DEF Inv, Safe, Current, Filled, LauncherInv, ServerInv, NamesInv,
            IpcInv, RanksInv, AttachInv
<1>1. CASE Bind(r)
  <2>1. /\ rank[r].pc = "bind" /\ run = "ranks"
        /\ UNCHANGED <<env, launch, run, ready, server, asked, verdict>>
    BY <1>1 DEF Bind
  <2>2. CASE env.precreate /\ shm[r] = 0
    BY <1>1, <2>1, <2>2 DEF Bind
  <2>3. CASE env.precreate /\ shm[r] # 0
    <3>1. /\ rank' = [rank EXCEPT ![r].pc = "load", ![r].arena = shm[r]]
          /\ UNCHANGED <<shm, loaded>>
      BY <1>1, <2>3 DEF Bind
    <3>2. shm[r] = launch
      BY <2>1, <2>3
    <3> QED
      BY <2>1, <2>3, <3>1, <3>2
  <2>4. CASE ~env.precreate
    <3>1. /\ rank' = [rank EXCEPT ![r].pc = "load", ![r].arena = launch]
          /\ loaded' = loaded \ {<<r, launch>>}
          /\ shm'[r] = launch
          /\ \A n \in Names : n # r => shm'[n] = shm[n]
      BY <1>1, <2>4 DEF Bind
    <3> QED
      BY <2>1, <2>4, <3>1
  <2> QED
    BY <2>2, <2>3, <2>4
<1>2. CASE Load(r)
  BY <1>2 DEF Load
<1>3. CASE MarkReady(r)
  BY <1>3 DEF MarkReady
<1>4. CASE OpenIpc(r)
  BY <1>4 DEF OpenIpc, AllLoaded
<1>5. CASE Submit
  BY <1>5 DEF Submit
<1>6. CASE Collect(r)
  BY <1>6 DEF Collect
<1>7. CASE EndRank(r)
  BY <1>7 DEF EndRank
<1> QED
  BY <1>1, <1>2, <1>3, <1>4, <1>5, <1>6, <1>7 DEF Rank

LEMMA FaultKeepsInv == TypeOK /\ Inv /\ Fault => Inv'
<1> SUFFICES ASSUME TypeOK, Inv, Fault PROVE Inv'
  OBVIOUS
<1> USE Sets DEF TypeOK, Segments
<1> USE DEF Inv, Safe, Current, Filled, LauncherInv, ServerInv, NamesInv,
            IpcInv, RanksInv, AttachInv
<1>1. CASE KillServer
  BY <1>1 DEF KillServer
<1>2. CASE KillRanks
  BY <1>2 DEF KillRanks
<1>3. CASE \E n \in Names : TrackerUnlinks(n)
  BY <1>3 DEF TrackerUnlinks
<1> QED
  BY <1>1, <1>2, <1>3 DEF Fault

(***************************************************************************)
(* AnswersUseLoadedWeights for any number of ranks, launches and kills.    *)
(***************************************************************************)
THEOREM LoadedWeightsOnly == Spec => []AnswersUseLoadedWeights
<1>1. TypeOK /\ Inv /\ [Next]_vars => Inv'
  <2>1. TypeOK /\ Inv /\ Next => Inv'
    BY LauncherKeepsInv, ServerKeepsInv, RankKeepsInv, FaultKeepsInv DEF Next
  <2>2. Inv /\ UNCHANGED vars => Inv'
    BY DEF Inv, Safe, Current, Filled, LauncherInv, ServerInv, NamesInv,
           IpcInv, RanksInv, AttachInv, vars
  <2> QED
    BY <2>1, <2>2
<1>2. TypeOK /\ Inv => AnswersUseLoadedWeights
  BY DEF Inv, Safe, AnswersUseLoadedWeights, TypeOK, Settings
<1> QED
  BY <1>1, <1>2, InitInv, TypeCorrect, PTL DEF Spec

(***************************************************************************)
(* The same of the launches of MCMoeServer: its behaviours are launches,   *)
(* or calls that leave the arenas alone.                                   *)
(***************************************************************************)
THEOREM LaunchesAnswerFromLoadedWeights == MCSpec => []AnswersUseLoadedWeights
<1>1. MCInit => Init
  BY DEF MCInit
<1>2. [MCNext]_<<part, vars, ipcVars>> => [Next]_vars
  BY DEF MCNext
<1>3. MCSpec => MCInit /\ [][MCNext]_<<part, vars, ipcVars>>
  BY PTL DEF MCSpec
<1> QED
  BY <1>1, <1>2, <1>3, LoadedWeightsOnly, PTL DEF Spec

-----------------------------------------------------------------------------
(* The calls *)

Proved == INSTANCE MoeIpcProofs WITH World <- Clients, server <- serverLoop

LEMMA CallsAreProved ==
  /\ Proved!IpcAssumption
  /\ MCSpec => Proved!Spec
<1>1. Proved!IpcAssumption
  BY SegmentAssumption DEF Segment!IpcAssumption, Proved!IpcAssumption
<1>2. MCInit => Proved!Init
  BY DEF MCInit, Segment!Init, Proved!Init, Segment!Ranks, Proved!Ranks
<1>3. [MCNext]_<<part, vars, ipcVars>> => [Proved!Next]_Proved!vars
  <2>1. ipcVars = Proved!vars
    BY DEF ipcVars, Proved!vars
  <2>2. ipcVars' = ipcVars => Proved!vars' = Proved!vars
    BY DEF ipcVars, Proved!vars
  <2>3. Segment!Next => Proved!Next
    BY DEF Segment!Next, Segment!Rank, Segment!Rank0, Segment!Server, Segment!Ranks,
           Segment!Others, Segment!Slot, Segment!SlotFree, Segment!Goto, Segment!BeginSubmit,
           Segment!WriteFields, Segment!Publish, Segment!Tell, Segment!Expect, Segment!BeginRead,
           Segment!EndRead, Segment!TakeRequest, Segment!EndCompute, Segment!ReadBack,
           Segment!WriteBack, Segment!Respond, Segment!header, Segment!client, Segment!loop,
           Proved!Next, Proved!Rank, Proved!Rank0, Proved!Server, Proved!Ranks,
           Proved!Others, Proved!Slot, Proved!SlotFree, Proved!Goto, Proved!BeginSubmit,
           Proved!WriteFields, Proved!Publish, Proved!Tell, Proved!Expect, Proved!BeginRead,
           Proved!EndRead, Proved!TakeRequest, Proved!EndCompute, Proved!ReadBack,
           Proved!WriteBack, Proved!Respond, Proved!header, Proved!client, Proved!loop
  <2> QED  BY <2>2, <2>3 DEF MCNext
<1>4. MCSpec => MCInit /\ [][MCNext]_<<part, vars, ipcVars>>
  BY PTL DEF MCSpec
<1> QED  BY <1>1, <1>2, <1>3, <1>4, PTL DEF Proved!Spec

(***************************************************************************)
(* What a rank copies out of a slot is the output of the request it waited *)
(* for, whole, and the server computes with the whole input of its request *)
(* (submit, wait_slot_acks and wait_response of ipc.py, the server's loop).*)
(***************************************************************************)
THEOREM WholeWhenUsedHolds == MCSpec => []WholeWhenUsed
<1>1. Proved!Spec => []Proved!WholeWhenUsed
  BY CallsAreProved, Proved!WholeWhenUsedHolds
<1>2. Proved!WholeWhenUsed => WholeWhenUsed
  BY DEF WholeWhenUsed, Segment!WholeWhenUsed, Segment!ReadIsWhole, Segment!InputIsWhole,
         Segment!Ranks, Segment!Slot,
         Proved!WholeWhenUsed, Proved!ReadIsWhole, Proved!InputIsWhole, Proved!Ranks, Proved!Slot
<1> QED  BY <1>1, <1>2, CallsAreProved, PTL

(***************************************************************************)
(* Neither side of the segment undoes what the other has written into the  *)
(* header that both write back without a lock (submit and respond of       *)
(* ipc.py): the numbers of requests and responses never go back.           *)
(***************************************************************************)
THEOREM HeaderAdvancesHolds == MCSpec => HeaderAdvances
<1>1. Proved!Spec => Proved!HeaderAdvances
  BY CallsAreProved, Proved!HeaderAdvancesHolds
<1>2. Proved!HeaderAdvances <=> HeaderAdvances
  BY DEF HeaderAdvances, Segment!HeaderAdvances, Segment!vars, Proved!HeaderAdvances, Proved!vars
<1> QED  BY <1>1, <1>2, CallsAreProved
=============================================================================
