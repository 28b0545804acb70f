--------------------------------- MODULE MCLog ---------------------------------
(***************************************************************************)
(* Instances of Log for TLC.  Threads and blocks are interchangeable.      *)
(***************************************************************************)
EXTENDS Log, TLC

Symmetric == Permutations(Procs) \cup Permutations(Blocks)
===============================================================================
