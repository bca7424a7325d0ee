-------------------------- MODULE MCPrefixSnapshot --------------------------
(***************************************************************************)
(* Instances of PrefixSnapshot for TLC: prompts that share prefixes, of    *)
(* lengths on and off the boundaries of blocks of two tokens.              *)
(***************************************************************************)
EXTENDS PrefixSnapshot, TLC

ThePrompts == {<<1, 1, 1>>, <<1, 1, 2, 2>>, <<1, 1, 2, 2, 1>>, <<2, 2, 1>>, <<2>>}
TwoRanks == {0, 1}

\* Handler threads are interchangeable.
Symmetry == Permutations(Requests)
=============================================================================
