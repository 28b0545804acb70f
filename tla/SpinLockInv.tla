------------------------------ MODULE SpinLockInv ------------------------------
(***************************************************************************)
(* The inductive invariant of SpinLock.                                    *)
(*                                                                         *)
(* Locks: a lock is taken exactly while a CPU has it or is about to record *)
(* or to clear it, and lk->cpu is empty at the two ends.  Interrupts: ncli *)
(* counts the locks a CPU has pushed, and the flag that the last popcli    *)
(* will set fits the context that is running on the CPU.  For this to      *)
(* survive swtch it has to say what a thread that is not running has       *)
(* saved.                                                                  *)
(***************************************************************************)
EXTENDS SpinLock

LockTypeOK ==
    /\ locked \in [Lock -> BOOLEAN] /\ cpu \in [Lock -> Cpu \cup {None}]
    /\ FL_IF \in [Cpu -> BOOLEAN] /\ intena \in [Cpu -> BOOLEAN]
    /\ ncli \in [Cpu -> Int] /\ step \in [Cpu -> Steps]
    /\ on \in [Cpu -> Context] /\ \A c \in Cpu : on[c] \in {c} \cup Thread
    /\ handler \in [Context -> BOOLEAN]
    /\ saved \in [Thread -> BOOLEAN \cup {None}]

LocksOK ==
    /\ OneHolder
    /\ \A l \in Lock, c \in Cpu :
          /\ step[c] \in {<<"record", l>>, <<"clear", l>>} => cpu[l] = None
          /\ step[c] = <<"spin", l>> => cpu[l] # c

CountOK == \A c \in Cpu : ncli[c] = Cardinality(Pushed(c))

\* The flag a CPU has, or will have after the last popcli, and whether it fits the
\* context x.
Flag(c) == IF Pushed(c) = {} THEN FL_IF[c] ELSE intena[c]
Fits(x, flag) ==
    /\ handler[x] => ~flag
    /\ x \in Thread /\ ~handler[x] /\ saved[x] # None => flag

FlagsOK == \A c \in Cpu : (Pushed(c) # {} => ~FL_IF[c]) /\ Fits(on[c], Flag(c))

ContextsOK ==
    /\ \A c, d \in Cpu : on[c] = on[d] => c = d
    /\ \A c \in Cpu : on[c] # c => ~handler[c]
    /\ \A t \in Thread : t \notin {on[d] : d \in Cpu} => (handler[t] <=> saved[t] = FALSE)

IInv == LockTypeOK /\ LocksOK /\ CountOK /\ FlagsOK /\ ContextsOK /\ NoLockPanic
===============================================================================
