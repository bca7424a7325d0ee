----------------------------- MODULE MCTpServer -----------------------------
(***************************************************************************)
(* Instances of TpServer for TLC.                                          *)
(***************************************************************************)
EXTENDS TpServer, TLC

\* The threads of plain requests are interchangeable, and so are those of
\* streams: sound for the safety runs, which mention no request by name.
Symmetry == Permutations(Plain) \cup Permutations(Streams)
=============================================================================
