----------------------------- MODULE HandoffMutex -----------------------------
(***************************************************************************)
(* What the kthread mutexes promise the threads: each has at most one      *)
(* owner, a thread that finds it taken waits, and the owner that releases  *)
(* it hands it to one of the waiting threads, if there is any.  Nobody     *)
(* gets in between: a mutex that somebody waits for is never free.         *)
(***************************************************************************)
CONSTANTS Clients, Mutexes, Nobody

VARIABLES owner, waiters

Init ==
    /\ owner = [m \in Mutexes |-> Nobody]
    /\ waiters = [m \in Mutexes |-> {}]

Acquire(t, m) ==
    /\ owner[m] = Nobody
    /\ owner' = [owner EXCEPT ![m] = t]
    /\ UNCHANGED waiters

Wait(t, m) ==
    /\ owner[m] \notin {Nobody, t} /\ t \notin waiters[m]
    /\ waiters' = [waiters EXCEPT ![m] = @ \cup {t}]
    /\ UNCHANGED owner

Release(t, m) ==
    /\ owner[m] = t
    /\ \/ /\ waiters[m] = {}
          /\ owner' = [owner EXCEPT ![m] = Nobody]
          /\ UNCHANGED waiters
       \/ \E w \in waiters[m] : /\ owner' = [owner EXCEPT ![m] = w]
                                /\ waiters' = [waiters EXCEPT ![m] = @ \ {w}]

\* Clients that are ended while they wait are not waited for.
Leave(C) ==
    /\ UNCHANGED owner
    /\ waiters' = [m \in Mutexes |-> waiters[m] \ C]

Next ==
    \/ \E C \in SUBSET Clients : Leave(C)
    \/ \E t \in Clients, m \in Mutexes : Acquire(t, m) \/ Wait(t, m) \/ Release(t, m)

Spec == Init /\ [][Next]_<<owner, waiters>>
===============================================================================
