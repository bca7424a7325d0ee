----------------------------- MODULE WeightArena -----------------------------
(***************************************************************************)
(* Shared expert weights of the external CPU-MoE server                    *)
(* (src/src/components/moe/shared_weights.py).                             *)
(*                                                                         *)
(* Each tensor-parallel rank loads its share of the routed experts into a  *)
(* POSIX shared-memory arena; the server process maps all arenas and       *)
(* computes with them.  Server and ranks agree only through names in       *)
(* /dev/shm, files "rank<r>.ready" in a directory, and a launcher script   *)
(* (scripts/run_pd_serial.sh) that starts the server, then the ranks, and  *)
(* kills the server when the ranks are done.  Names and files may outlive  *)
(* the processes that made them, so what a name denotes is the point of    *)
(* the model.                                                              *)
(*                                                                         *)
(* A segment is identified by its name and the launch that created it: a   *)
(* launch creates each name at most once.  shm[n] is the launch whose      *)
(* segment the name n denotes, 0 when the name does not exist.             *)
(***************************************************************************)
EXTENDS Naturals

CONSTANTS
  World,        \* number of ranks
  MaxLaunches,  \* how often the launcher is used in the same directory
  MaxKills      \* processes killed from outside (out of memory, operator)

ASSUME WorldAssumption == World \in Nat \ {0}
ASSUME BoundsAssumption == MaxLaunches \in Nat /\ MaxKills \in Nat

Ranks == 0 .. World - 1

\* The request segment of CPUMoESharedMemory; the arenas are named by rank.
Ipc == World
Names == Ranks \cup {Ipc}
Segments == 0 .. MaxLaunches

VARIABLES
  env,       \* settings of the deployment, the same in every launch
  launch,    \* number of the current launch
  run,       \* the launcher: "idle", "server" (only it is up), "ranks"
  shm,       \* /dev/shm: what each name denotes
  ready,     \* ranks whose ready file exists
  server,    \* pc, next (rank of a loop), att (arenas mapped), announced
  rank,      \* pc, arena and ipc: the segments the rank has mapped
  loaded,    \* arenas <<rank, launch>> that hold the rank's weights
  asked,     \* request segments that hold an unanswered request
  answered,  \* request segments that hold an answer
  verdict,   \* were answers computed from the weights the ranks loaded?
  owed,      \* names the resource trackers of dead processes still unlink
  kills

vars == <<env, launch, run, shm, ready, server, rank, loaded, asked,
          answered, verdict, owed, kills>>

(***************************************************************************)
(* Settings: does the server create the arenas (PRECREATE, and PRECREATED  *)
(* for the ranks), does the loader move int8 experts to the backend's      *)
(* pinned arena (DEEPSEEK_GPU_PREFILL_MOE_ARENA, on by default), does the  *)
(* launcher empty the directory first.                                     *)
(***************************************************************************)
Settings == [precreate : BOOLEAN, pinned : BOOLEAN, clean : BOOLEAN]

NoServer == [pc |-> "off", next |-> 0, att |-> [r \in Ranks |-> 0],
             announced |-> FALSE]
NoRank == [pc |-> "off", arena |-> 0, ipc |-> 0]

TypeOK ==
  /\ env \in Settings
  /\ launch \in Segments
  /\ run \in {"idle", "server", "ranks"}
  /\ shm \in [Names -> Segments]
  /\ ready \subseteq Ranks
  /\ server \in [pc : {"off", "start", "create", "touch", "wait", "attach",
                       "serve", "finally", "unlink", "dead"},
                 next : Ranks, att : [Ranks -> Segments],
                 announced : BOOLEAN]
  /\ rank \in [Ranks -> [pc : {"off", "bind", "load", "mark", "prefill",
                               "submit", "wait", "done", "raised", "ended"},
                         arena : Segments, ipc : Segments]]
  /\ loaded \subseteq Ranks \X Segments
  /\ asked \subseteq Segments
  /\ answered \subseteq Segments
  /\ verdict \in {"none", "right", "wrong"}
  /\ owed \subseteq Names
  /\ kills \in 0 .. MaxKills

Init ==
  /\ env \in Settings
  /\ launch = 0
  /\ run = "idle"
  /\ shm = [n \in Names |-> 0]
  /\ ready = {}
  /\ server = NoServer
  /\ rank = [r \in Ranks |-> NoRank]
  /\ loaded = {}
  /\ asked = {}
  /\ answered = {}
  /\ verdict = "none"
  /\ owed = {}
  /\ kills = 0

-----------------------------------------------------------------------------
(* The launcher *)

\* The directory is emptied and the server started.
StartServer ==
  /\ run = "idle"
  /\ launch < MaxLaunches
  /\ launch' = launch + 1
  /\ run' = "server"
  /\ ready' = IF env.clean THEN {} ELSE ready
  /\ server' = [NoServer EXCEPT !.pc = "start"]
  /\ rank' = [r \in Ranks |-> NoRank]
  /\ UNCHANGED <<env, shm, loaded, asked, answered, verdict, owed, kills>>

\* A launcher that would wait only for the request segment.
ArenasUnderWay == env.precreate => server.pc \notin {"off", "start"}

\* With PRECREATE the launcher waits until the server's log says that the
\* arenas exist.
ArenasAnnounced == env.precreate => server.announced

StartRanks ==
  /\ run = "server"
  /\ ArenasAnnounced
  /\ run' = "ranks"
  /\ rank' = [r \in Ranks |-> [NoRank EXCEPT !.pc = "bind"]]
  /\ UNCHANGED <<env, launch, shm, ready, server, loaded, asked, answered,
                 verdict, owed, kills>>

\* Names that the server created; its tracker unlinks them when it dies.
ServerNames ==
  (IF server.pc \in {"off", "start", "dead"} THEN {} ELSE {Ipc})
    \cup (IF env.precreate /\ server.pc \notin {"unlink", "dead"}
          THEN IF server.announced THEN Ranks
               ELSE {r \in Ranks : \/ r < server.next
                                   \/ r = server.next /\ server.pc = "touch"}
          ELSE {})

\* The ranks have ended (or never started because the server died before it
\* announced the arenas): the launcher kills the server, whose finally
\* clauses do not run on SIGTERM, and may be used again.
Cleanup ==
  /\ \/ run = "ranks" /\ \A r \in Ranks : rank[r].pc = "ended"
     \/ run = "server" /\ server.pc = "dead" /\ ~ArenasAnnounced
  /\ run' = "idle"
  /\ server' = NoServer
  /\ owed' = owed \cup ServerNames
  /\ UNCHANGED <<env, launch, shm, ready, rank, loaded, asked, answered,
                 verdict, kills>>

-----------------------------------------------------------------------------
(* The server: main of moe_server.py in shared-weight mode *)

\* CPUMoESharedMemory(create=True) unlinks a stale segment of that name.
CreateIpc ==
  /\ server.pc = "start"
  /\ shm' = [shm EXCEPT ![Ipc] = launch]
  /\ server' = [server EXCEPT !.pc = IF env.precreate THEN "create" ELSE "wait"]
  /\ UNCHANGED <<env, launch, run, ready, rank, loaded, asked, answered,
                 verdict, owed, kills>>

\* SharedCPUMoEWeightArena(create=True) of one rank: a stale arena is
\* unlinked, the new one holds zeroes.
CreateArena ==
  /\ server.pc = "create"
  /\ shm' = [shm EXCEPT ![server.next] = launch]
  /\ server' = [server EXCEPT !.pc = "touch"]
  /\ UNCHANGED <<env, launch, run, ready, rank, loaded, asked, answered,
                 verdict, owed, kills>>

\* pre_touch clears the arena; after the last one the arenas are announced.
PreTouch ==
  /\ server.pc = "touch"
  /\ loaded' = loaded \ {<<server.next, launch>>}
  /\ server' = IF server.next + 1 < World
               THEN [server EXCEPT !.pc = "create", !.next = @ + 1]
               ELSE [server EXCEPT !.pc = "wait", !.next = 0,
                                   !.announced = TRUE]
  /\ UNCHANGED <<env, launch, run, shm, ready, rank, asked, answered,
                 verdict, owed, kills>>

\* wait_until_ready polls the ready files in the order of the ranks.
SeeReady ==
  /\ server.pc = "wait"
  /\ server.next \in ready
  /\ server' = IF server.next + 1 < World
               THEN [server EXCEPT !.next = @ + 1]
               ELSE [server EXCEPT !.pc = "attach", !.next = 0]
  /\ UNCHANGED <<env, launch, run, shm, ready, rank, loaded, asked, answered,
                 verdict, owed, kills>>

\* Its deadline of 600 s may pass first.
ReadyTimeout ==
  /\ server.pc = "wait"
  /\ server.next \notin ready
  /\ server' = [server EXCEPT !.pc = "finally"]
  /\ UNCHANGED <<env, launch, run, shm, ready, rank, loaded, asked, answered,
                 verdict, owed, kills>>

\* attach_all maps what the names denote now; a missing name raises.
Attach ==
  /\ server.pc = "attach"
  /\ LET r == server.next
     IN  IF shm[r] = 0
         THEN server' = [server EXCEPT !.pc = "finally"]
         ELSE server' = [server EXCEPT
                           !.att[r] = shm[r],
                           !.pc = IF r + 1 < World THEN @ ELSE "serve",
                           !.next = IF r + 1 < World THEN @ + 1 ELSE 0]
  /\ UNCHANGED <<env, launch, run, shm, ready, rank, loaded, asked, answered,
                 verdict, owed, kills>>

\* Every answer is computed from the arenas mapped above.  It is right when
\* these are the ones the ranks of this launch have filled.
UsesLoadedWeights ==
  \A r \in Ranks : /\ server.att[r] = rank[r].arena
                   /\ <<r, server.att[r]>> \in loaded

Answer ==
  /\ server.pc = "serve"
  /\ launch \in asked
  /\ asked' = asked \ {launch}
  /\ answered' = answered \cup {launch}
  /\ verdict' = IF UsesLoadedWeights /\ verdict # "wrong" THEN "right"
                ELSE "wrong"
  /\ UNCHANGED <<env, launch, run, shm, ready, server, rank, loaded, owed,
                 kills>>

\* The finally clause unlinks by name: first the arenas the server made ...
UnlinkArenas ==
  /\ server.pc = "finally"
  /\ shm' = IF env.precreate THEN [n \in Names |-> IF n = Ipc THEN shm[n] ELSE 0]
            ELSE shm
  /\ server' = [server EXCEPT !.pc = "unlink"]
  /\ UNCHANGED <<env, launch, run, ready, rank, loaded, asked, answered,
                 verdict, owed, kills>>

\* ... then the request segment, without setting its stop word.
UnlinkIpc ==
  /\ server.pc = "unlink"
  /\ shm' = [shm EXCEPT ![Ipc] = 0]
  /\ server' = [server EXCEPT !.pc = "dead"]
  /\ UNCHANGED <<env, launch, run, ready, rank, loaded, asked, answered,
                 verdict, owed, kills>>

-----------------------------------------------------------------------------
(* The ranks: main of generation.py, _init_runtime of openai.py *)

Goto(r, pc) == [rank EXCEPT ![r].pc = pc]

\* _bind_shared_cpu_moe_weights opens the precreated arena, which may not
\* exist, or unlinks a stale one and creates its own.
Bind(r) ==
  /\ rank[r].pc = "bind"
  /\ IF env.precreate
     THEN /\ rank' = IF shm[r] = 0 THEN Goto(r, "raised")
                     ELSE [rank EXCEPT ![r].pc = "load", ![r].arena = shm[r]]
          /\ UNCHANGED <<shm, loaded>>
     ELSE /\ shm' = [shm EXCEPT ![r] = launch]
          /\ loaded' = loaded \ {<<r, launch>>}
          /\ rank' = [rank EXCEPT ![r].pc = "load", ![r].arena = launch]
  /\ UNCHANGED <<env, launch, run, ready, server, asked, answered, verdict,
                 owed, kills>>

\* load_model copies the rank's experts to where their tensors live.  With
\* the pinned arena, _maybe_bind_routed_int8_arena has moved the tensors out
\* of the shared arena before the copy, and nothing is written there.
Load(r) ==
  /\ rank[r].pc = "load"
  /\ loaded' = IF env.pinned THEN loaded
               ELSE loaded \cup {<<r, rank[r].arena>>}
  /\ rank' = Goto(r, "mark")
  /\ UNCHANGED <<env, launch, run, shm, ready, server, asked, answered,
                 verdict, owed, kills>>

MarkReady(r) ==
  /\ rank[r].pc = "mark"
  /\ ready' = ready \cup {r}
  /\ rank' = Goto(r, "prefill")
  /\ UNCHANGED <<env, launch, run, shm, server, loaded, asked, answered,
                 verdict, owed, kills>>

AllLoaded ==
  \A r \in Ranks : rank[r].pc \in {"prefill", "submit", "wait", "done"}

\* A rank that would wait for the request segment to appear.
OpenIpcWhenThere(r) ==
  /\ rank[r].pc = "prefill"
  /\ AllLoaded
  /\ shm[Ipc] # 0
  /\ rank' = [rank EXCEPT ![r].pc = IF r = 0 THEN "submit" ELSE "wait",
                          ![r].ipc = shm[Ipc]]
  /\ UNCHANGED <<env, launch, run, shm, ready, server, loaded, asked,
                 answered, verdict, owed, kills>>

\* After the load barrier and the prefill, whose collectives need all ranks,
\* the first decode step maps the request segment.
OpenIpc(r) ==
  /\ rank[r].pc = "prefill"
  /\ AllLoaded
  /\ rank' = IF shm[Ipc] = 0 THEN Goto(r, "raised")
             ELSE [rank EXCEPT ![r].pc = IF r = 0 THEN "submit" ELSE "wait",
                               ![r].ipc = shm[Ipc]]
  /\ UNCHANGED <<env, launch, run, shm, ready, server, loaded, asked,
                 answered, verdict, owed, kills>>

\* A new sequence number: an answer that is already there is not for it.
Submit ==
  /\ rank[0].pc = "submit"
  /\ asked' = asked \cup {rank[0].ipc}
  /\ answered' = answered \ {rank[0].ipc}
  /\ rank' = Goto(0, "wait")
  /\ UNCHANGED <<env, launch, run, shm, ready, server, loaded, verdict, owed,
                 kills>>

\* wait_response for the number that rank 0 has broadcast: the segment the
\* rank has mapped holds the answer.
Collect(r) ==
  /\ rank[r].pc = "wait"
  /\ rank[0].pc \in {"wait", "done"}
  /\ rank[r].ipc \in answered
  /\ rank' = Goto(r, "done")
  /\ UNCHANGED <<env, launch, run, shm, ready, server, loaded, asked,
                 answered, verdict, owed, kills>>

\* destroy_process_group, then close(unlink=True) of the rank's own arena.
EndRank(r) ==
  /\ rank[r].pc = "done"
  /\ \A q \in Ranks : rank[q].pc \in {"done", "ended"}
  /\ shm' = [shm EXCEPT ![r] = 0]
  /\ rank' = Goto(r, "ended")
  /\ UNCHANGED <<env, launch, run, ready, server, loaded, asked, answered,
                 verdict, owed, kills>>

\* Names that the ranks created and have not unlinked.
RankNames ==
  IF env.precreate THEN {}
  ELSE {r \in Ranks : rank[r].arena # 0 /\ rank[r].pc # "ended"}

\* torchrun ends all ranks when one fails; their trackers clean up.
Teardown ==
  /\ run = "ranks"
  /\ \E r \in Ranks : rank[r].pc = "raised"
  /\ owed' = owed \cup RankNames
  /\ rank' = [r \in Ranks |-> [rank[r] EXCEPT !.pc = "ended"]]
  /\ UNCHANGED <<env, launch, run, shm, ready, server, loaded, asked,
                 answered, verdict, kills>>

-----------------------------------------------------------------------------
(* Faults and the resource trackers *)

\* The resource tracker of a dead process unlinks its names, by name, some
\* time after the process is gone.
TrackerUnlinks(n) ==
  /\ n \in owed
  /\ shm' = [shm EXCEPT ![n] = 0]
  /\ owed' = owed \ {n}
  /\ UNCHANGED <<env, launch, run, ready, server, rank, loaded, asked,
                 answered, verdict, kills>>

\* A process is killed, with its tracker or without.
KillServer ==
  /\ kills < MaxKills
  /\ server.pc \notin {"off", "dead"}
  /\ kills' = kills + 1
  /\ server' = [server EXCEPT !.pc = "dead"]
  /\ owed' \in {owed, owed \cup ServerNames}
  /\ UNCHANGED <<env, launch, run, shm, ready, rank, loaded, asked, answered,
                 verdict>>

KillRanks ==
  /\ kills < MaxKills
  /\ run = "ranks"
  /\ \E r \in Ranks : rank[r].pc # "ended"
  /\ kills' = kills + 1
  /\ rank' = [r \in Ranks |-> [rank[r] EXCEPT !.pc = "ended"]]
  /\ owed' \in {owed, owed \cup RankNames}
  /\ UNCHANGED <<env, launch, run, shm, ready, server, loaded, asked,
                 answered, verdict>>

-----------------------------------------------------------------------------
Launcher == StartServer \/ StartRanks \/ Cleanup \/ Teardown

Server ==
  \/ CreateIpc \/ CreateArena \/ PreTouch
  \/ SeeReady \/ ReadyTimeout \/ Attach \/ Answer
  \/ UnlinkArenas \/ UnlinkIpc

Rank(r) ==
  \/ Bind(r) \/ Load(r) \/ MarkReady(r) \/ OpenIpc(r)
  \/ r = 0 /\ Submit
  \/ Collect(r) \/ EndRank(r)

Fault ==
  \/ KillServer \/ KillRanks
  \/ \E n \in Names : TrackerUnlinks(n)

Next == Launcher \/ Server \/ (\E r \in Ranks : Rank(r)) \/ Fault

Spec == Init /\ [][Next]_vars

\* Each process is scheduled; no kill and no tracker has to come.
FairSpec ==
  /\ Spec
  /\ WF_vars(Launcher)
  /\ WF_vars(Server)
  /\ \A r \in Ranks : WF_vars(Rank(r))

-----------------------------------------------------------------------------
(***************************************************************************)
(* Whatever is killed and whenever the names of an earlier launch go, the  *)
(* server answers from the arenas that the ranks of this launch filled,    *)
(* with two exceptions.  With the pinned arena, ready files are written    *)
(* although the shared arenas are never filled (loader.py:211).  Without   *)
(* PRECREATE and in a directory that was not emptied, a ready file of an   *)
(* earlier launch lets the server map that launch's arena                  *)
(* (shared_weights.py:264).                                                *)
(***************************************************************************)
AnswersUseLoadedWeights ==
  verdict = "wrong" => env.pinned \/ (~env.precreate /\ ~env.clean)

\* A rank has mapped a request segment that no living server serves.
Stranded ==
  \E r \in Ranks : /\ rank[r].pc \in {"submit", "wait"}
                   /\ \/ rank[r].ipc # launch
                      \/ server.pc \in {"finally", "unlink", "dead"}

(***************************************************************************)
(* Every launch comes to an end, with answers or with an error, unless a   *)
(* rank waits for ever on a segment whose server is gone (nothing sets its *)
(* stop word: moe_server.py:266) or that an earlier launch left behind.    *)
(***************************************************************************)
LaunchesEnd == []<>(run = "idle") \/ <>[]Stranded
=============================================================================
