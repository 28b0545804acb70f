------------------------------- MODULE MCKMutex -------------------------------
(***************************************************************************)
(* Instances of KMutex for TLC: what the programs and their users do.      *)
(***************************************************************************)
EXTENDS KMutex, TLC

\* Threads that lock, unlock, allocate and free mutexes, and sleep.
MCCalls == MutexCall \cup {"create", "sleep"}
\* The same, and the threads end, and are joined, whatever they hold.
MCThreads == MutexCall \cup {"create", "kthread_exit", "join"}
\* Everything that can happen to a process.
MCAll == Call
===============================================================================
