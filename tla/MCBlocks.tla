------------------------------- MODULE MCBlocks --------------------------------
(***************************************************************************)
(* An instance of Blocks for TLC.                                          *)
(***************************************************************************)
EXTENDS Blocks, TLC

ThreadSymmetry == Permutations(Thread)
===============================================================================
