------------------------------ MODULE MCMemory -------------------------------
(***************************************************************************)
(* Instances of Memory for TLC: what the processes call, what they load.   *)
(***************************************************************************)
EXTENDS Memory, TLC

Segment(v, n) == [vaddr |-> v, memsz |-> n]
\* Part of a page; two segments; one that is not aligned; one too large.
MCImages == {<<Segment(0, 1)>>, <<Segment(0, 2), Segment(2, 1)>>,
             <<Segment(0, 1), Segment(1, 1)>>, <<Segment(0, KERNBASE)>>}

\* init forks and waits; a process with threads grows and shrinks, and another
\* one loads programs, while they compete for the pages.
MCProgs == <<{"sbrk", "kthread_create", "kthread_join", "kthread_exit", "exit"},
             {"exec", "kthread_create", "exit"}>>
           @@ 0 :> {"fork", "wait"}
\* With the calls that depart from what they promise.
MCFork == [p \in Procs |->
             IF p = 0 THEN {"fork", "wait"}
             ELSE {"fork", "wait", "sbrk", "kthread_create", "kthread_join", "exit"}]

\* No slot has been cleared whose thread was still on a CPU: the window of
\* kthread_exit has not done damage.
ExitIntact == \A t \in Thread : at[t].pc = "none" => cr3[t] = Nil

MCIncrements == {-2, 3}
==============================================================================
