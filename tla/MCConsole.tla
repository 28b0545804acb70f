------------------------------- MODULE MCConsole -------------------------------
(***************************************************************************)
(* Instances of Console for TLC.                                           *)
(***************************************************************************)
EXTENDS Console, TLC

CONSTANTS c1, c2, t1, t2

MCJobs == t1 :> {"read"} @@ t2 :> {"write", "kill"}
\* growproc: allocuvm prints that there is no memory, with ptable.lock held.
growproc(c) ==
    /\ \/ At(c, "user") /\ on[c] = t2 /\ Acquires(c, "user", ptable, "allocuvm")
       \/ Acquires(c, "allocuvm", cons, "cprintf")
       \/ Releases(c, "cprintf", cons, "fails")
       \/ Releases(c, "fails", ptable, "user")
    /\ UNCHANGED <<ring, procVars, readVars>>
GrowSpec == Init /\ [][Next \/ \E c \in Cpu : growproc(c)]_vars
===============================================================================
