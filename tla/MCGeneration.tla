---------------------------- MODULE MCGeneration ----------------------------
(***************************************************************************)
(* An instance of Generation for TLC: single rows shorter than a group of  *)
(* the compressor, shorter and longer than the window, and batches of two  *)
(* rows of equal and of different length.                                  *)
(***************************************************************************)
EXTENDS Generation

MCLens == {<<1>>, <<2>>, <<5>>, <<2, 2>>, <<2, 3>>, <<8>>}
MCOld == <<-1, None>>
=============================================================================
