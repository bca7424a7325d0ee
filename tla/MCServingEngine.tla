-------------------------- MODULE MCServingEngine --------------------------
(***************************************************************************)
(* Instances of ServingEngine for TLC.                                     *)
(***************************************************************************)
EXTENDS ServingEngine, TLC

\* Handler threads are interchangeable: sound for the safety runs, which
\* mention no request by name.
Symmetry == Permutations(Requests)
=============================================================================
