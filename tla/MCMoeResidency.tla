--------------------------- MODULE MCMoeResidency ---------------------------
(***************************************************************************)
(* An instance of MoeResidency for TLC: a cache of one layer when the next *)
(* layer is prefetched before the kernels of this one, which evicts it, or *)
(* of both layers.                                                         *)
(***************************************************************************)
EXTENDS MoeResidency, TLC

MCSettings ==
  {s \in AllSettings :
    /\ s.early <=> s.cached = 1
    /\ s.pinned \/ (s.store = "private" /\ s.early)
    /\ ~(s.direct /\ s.drops)
    /\ s.store = "arena" => s.early
    /\ s.store = "fp4" => (s.early <=> ~s.drops)}

\* Experts and blocks occur in sets only.
Symmetry == Permutations(Experts) \cup Permutations(Blocks)
=============================================================================
