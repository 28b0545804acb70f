---------------------------- MODULE MCBufferCache ----------------------------
(***************************************************************************)
(* An instance of BufferCache for TLC: the clients are threads of one      *)
(* process, so that holdingsleep cannot tell them apart.                   *)
(***************************************************************************)
EXTENDS BufferCache, TLC

MCPid == [t \in Clients |-> 1]
BlockSymmetry == Permutations(Blocks) \cup Permutations(Clients)
===============================================================================
