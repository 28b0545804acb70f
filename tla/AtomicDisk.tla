------------------------------ MODULE AtomicDisk ------------------------------
(***************************************************************************)
(* What the log promises the file system: the writes of the operations in  *)
(* progress become durable together, at a moment when no operation is in   *)
(* progress, and a crash takes the contents back to that moment.           *)
(***************************************************************************)
CONSTANTS Clients, Blocks, Data

VARIABLES
    mem,     \* the contents the file system sees
    stable,  \* the contents after a crash
    active   \* the clients in the middle of an operation

Init ==
    /\ stable \in [Blocks -> Data]
    /\ mem = stable
    /\ active = {}

Begin(p) == active' = active \cup {p} /\ UNCHANGED <<mem, stable>>
End(p) == active' = active \ {p} /\ UNCHANGED <<mem, stable>>

Write(p) ==
    /\ p \in active
    /\ \E b \in Blocks, v \in Data : mem' = [mem EXCEPT ![b] = v]
    /\ UNCHANGED <<stable, active>>

Commit ==
    /\ active = {}
    /\ stable' = mem
    /\ UNCHANGED <<mem, active>>

Crash ==
    /\ mem' = stable
    /\ active' = {}
    /\ UNCHANGED stable

Next == Commit \/ Crash \/ \E p \in Clients : Begin(p) \/ Write(p) \/ End(p)

Spec == Init /\ [][Next]_<<mem, stable, active>>
===============================================================================
