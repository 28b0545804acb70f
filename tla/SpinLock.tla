------------------------------- MODULE SpinLock --------------------------------
(***************************************************************************)
(* Spin locks, and the interrupt flag they share with everything else that *)
(* happens on a CPU: acquire and release instruction by instruction,       *)
(* pushcli and popcli with their count and the saved flag, interrupts that *)
(* come whenever the flag is set, and swtch, which takes ptable.lock, held *)
(* by the CPU, and the saved flag, held by the thread, from one context to *)
(* another.                                                                *)
(*                                                                         *)
(* The specification lets every CPU take and drop locks in any order that  *)
(* the rules of the kernel allow; Console shows that the console obeys     *)
(* them.  Context c is the scheduler of CPU c.                             *)
(***************************************************************************)
EXTENDS Integers, FiniteSets

CONSTANTS
    Cpu, Thread,
    Lock, ptable,       \* the locks; ptable.lock
    None

ASSUME LockAssumption ==
    /\ IsFiniteSet(Lock) /\ ptable \in Lock
    /\ Cpu \cap Thread = {} /\ None \notin Cpu \cup BOOLEAN

VARIABLES
    locked, cpu,        \* of locks
    FL_IF,              \* CPU -> are interrupts enabled?
    ncli, intena,       \* CPU -> depth of pushcli, flag before the first one
    step,               \* CPU -> where it is in acquire or release, for which lock
    on,                 \* CPU -> the context it runs
    handler,            \* context -> is it inside an interrupt handler?
    saved,              \* thread -> intena saved in sched, TRUE after; None in forkret
    panicked

lockVars == <<locked, cpu, FL_IF, ncli, intena, step, on, handler, saved, panicked>>

Context == Cpu \cup Thread
Run == <<"run", None>>
Steps == {Run} \cup ({"spin", "record", "clear"} \X Lock)

\* The locks for which a CPU has called pushcli, and not yet popcli.
Pushed(c) == {l \in Lock : cpu[l] = c \/ step[c] \in {"spin", "record", "clear"} \X {l}}

SpinInit ==
    /\ locked = [l \in Lock |-> FALSE] /\ cpu = [l \in Lock |-> None]
    /\ FL_IF = [c \in Cpu |-> FALSE]
    /\ ncli = [c \in Cpu |-> 0] /\ intena = [c \in Cpu |-> FALSE]
    /\ step = [c \in Cpu |-> Run]
    /\ on = [c \in Cpu |-> c]
    /\ handler = [x \in Context |-> FALSE]
    /\ saved = [t \in Thread |-> None]
    /\ panicked = FALSE

-----------------------------------------------------------------------------
holding(c, l) == locked[l] /\ cpu[l] = c

pushcli(c) ==
    /\ FL_IF' = [FL_IF EXCEPT ![c] = FALSE]
    /\ intena' = [intena EXCEPT ![c] = IF ncli[c] = 0 THEN FL_IF[c] ELSE @]
    /\ ncli' = [ncli EXCEPT ![c] = @ + 1]

\* acquire, up to the loop.
acquire(c, l) ==
    /\ step[c] = Run
    /\ pushcli(c)
    /\ panicked' = holding(c, l)
    /\ step' = [step EXCEPT ![c] = <<"spin", l>>]
    /\ UNCHANGED <<locked, cpu, on, handler, saved>>

\* Mutant: the old value is not looked at.
xchgIgnored(c) ==
    /\ step[c][1] = "spin"
    /\ locked' = [locked EXCEPT ![step[c][2]] = TRUE]
    /\ step' = [step EXCEPT ![c] = <<"record", @[2]>>]
    /\ UNCHANGED <<cpu, FL_IF, ncli, intena, on, handler, saved, panicked>>

xchg(c) ==
    /\ step[c][1] = "spin" /\ ~locked[step[c][2]]
    /\ locked' = [locked EXCEPT ![step[c][2]] = TRUE]
    /\ step' = [step EXCEPT ![c] = <<"record", @[2]>>]
    /\ UNCHANGED <<cpu, FL_IF, ncli, intena, on, handler, saved, panicked>>

record(c) ==
    /\ step[c][1] = "record"
    /\ cpu' = [cpu EXCEPT ![step[c][2]] = c]
    /\ step' = [step EXCEPT ![c] = Run]
    /\ UNCHANGED <<locked, FL_IF, ncli, intena, on, handler, saved, panicked>>

release(c, l) ==
    /\ step[c] = Run
    /\ panicked' = ~holding(c, l)
    /\ cpu' = [cpu EXCEPT ![l] = None]
    /\ step' = [step EXCEPT ![c] = <<"clear", l>>]
    /\ UNCHANGED <<locked, FL_IF, ncli, intena, on, handler, saved>>

\* popcli is local to the CPU.  (intena is not used again once the count is 0.)
popcli(c) ==
    /\ panicked' = (FL_IF[c] \/ ncli[c] = 0)
    /\ ncli' = [ncli EXCEPT ![c] = @ - 1]
    /\ FL_IF' = [FL_IF EXCEPT ![c] = @ \/ (ncli[c] = 1 /\ intena[c])]
    /\ intena' = [intena EXCEPT ![c] = ncli[c] # 1 /\ @]

clear(c) ==
    /\ step[c][1] = "clear"
    /\ locked' = [locked EXCEPT ![step[c][2]] = FALSE]
    /\ popcli(c)
    /\ step' = [step EXCEPT ![c] = Run]
    /\ UNCHANGED <<cpu, on, handler, saved>>

-----------------------------------------------------------------------------
(***************************************************************************)
(* Interrupt gates clear the flag, and the return from the trap restores   *)
(* it; system calls leave it set.                                          *)
(***************************************************************************)
interrupt(c) ==
    /\ FL_IF[c] /\ step[c] = Run /\ ~handler[on[c]]
    /\ handler' = [handler EXCEPT ![on[c]] = TRUE]
    /\ FL_IF' = [FL_IF EXCEPT ![c] = FALSE]
    /\ UNCHANGED <<locked, cpu, ncli, intena, step, on, saved, panicked>>

iret(c) ==
    /\ step[c] = Run /\ handler[on[c]]
    /\ handler' = [handler EXCEPT ![on[c]] = FALSE]
    /\ FL_IF' = [FL_IF EXCEPT ![c] = TRUE]
    /\ UNCHANGED <<locked, cpu, ncli, intena, step, on, saved, panicked>>

\* The scheduler at the top of its loop.
sti(c) ==
    /\ step[c] = Run /\ on[c] = c /\ ~handler[c]
    /\ FL_IF' = [FL_IF EXCEPT ![c] = TRUE]
    /\ UNCHANGED <<locked, cpu, ncli, intena, step, on, handler, saved, panicked>>

\* A thread leaves the CPU: intena is saved on its stack.
sched(c) ==
    /\ step[c] = Run /\ on[c] \in Thread
    /\ panicked' = (~holding(c, ptable) \/ ncli[c] # 1 \/ FL_IF[c])
    /\ saved' = [saved EXCEPT ![on[c]] = intena[c]]
    /\ on' = [on EXCEPT ![c] = c]
    /\ UNCHANGED <<locked, cpu, FL_IF, ncli, intena, step, handler>>

\* Mutant: sched does not restore intena.
swtchKeepsIntena(c, t) ==
    /\ step[c] = Run /\ on[c] = c /\ ~handler[c] /\ t \notin {on[d] : d \in Cpu}
    /\ on' = [on EXCEPT ![c] = t]
    /\ saved' = [saved EXCEPT ![t] = IF @ = None THEN None ELSE TRUE]
    /\ UNCHANGED <<locked, cpu, FL_IF, ncli, intena, step, handler, panicked>>

\* The scheduler runs a thread, which is in sched and restores its intena, or,
\* at first, in forkret.
swtch(c, t) ==
    /\ step[c] = Run /\ on[c] = c /\ ~handler[c] /\ t \notin {on[d] : d \in Cpu}
    /\ on' = [on EXCEPT ![c] = t]
    /\ intena' = [intena EXCEPT ![c] = IF saved[t] = None THEN @ ELSE saved[t]]
    /\ saved' = [saved EXCEPT ![t] = IF @ = None THEN None ELSE TRUE]
    /\ UNCHANGED <<locked, cpu, FL_IF, ncli, step, handler, panicked>>

\* A new thread enters user mode, where interrupts are on.  It may have been
\* interrupted, and have been through sched, since it left forkret.
trapret(c) ==
    /\ step[c] = Run /\ on[c] \in Thread /\ ~handler[on[c]]
    /\ saved' = [saved EXCEPT ![on[c]] = TRUE]
    /\ FL_IF' = [FL_IF EXCEPT ![c] = TRUE]
    /\ UNCHANGED <<locked, cpu, ncli, intena, step, on, handler, panicked>>

-----------------------------------------------------------------------------
\* The rules: a lock is not taken twice, and dropped by the CPU that has it;
\* locks are dropped before a handler, or the scheduler's turn, ends; sched is
\* called with ptable.lock alone, and not in forkret.
Settled(t) == handler[t] \/ saved[t] # None
SpinStep(c) ==
    \/ \E l \in Lock \ Pushed(c) : acquire(c, l)
    \/ \E l \in Lock : cpu[l] = c /\ release(c, l)
    \/ xchg(c) \/ record(c) \/ clear(c)
    \/ interrupt(c)
    \/ Pushed(c) = {} /\ (iret(c) \/ sti(c) \/ trapret(c))
    \/ Pushed(c) = {ptable} /\ on[c] \in Thread /\ Settled(on[c]) /\ sched(c)
    \/ Pushed(c) = {ptable} /\ \E t \in Thread : swtch(c, t)

SpinNext == ~panicked /\ \E c \in Cpu : SpinStep(c)
SpinSpec == SpinInit /\ [][SpinNext]_lockVars

-----------------------------------------------------------------------------
Has(c, l) == cpu[l] = c \/ step[c] \in {<<"record", l>>, <<"clear", l>>}

\* A lock that is taken is in the hands of one CPU, and holding(), which reads
\* two fields that another CPU may be changing, is true on that CPU alone.
OneHolder ==
    \A l \in Lock :
        /\ locked[l] <=> \E c \in Cpu : Has(c, l)
        /\ \A c, d \in Cpu : Has(c, l) /\ Has(d, l) => c = d

\* Interrupts are off on a CPU from acquire to release, so that no handler finds
\* its own CPU holding a lock; when the last lock is dropped the flag is again
\* what the context had, off in a handler and on elsewhere, even if the thread
\* has been on another CPU in between.  The scheduler may have them off until
\* its next sti.
InterruptsMatch ==
    \A c \in Cpu :
        LET x == on[c] IN
        IF Pushed(c) # {} THEN ~FL_IF[c]
        ELSE /\ handler[x] => ~FL_IF[c]
             /\ x \in Thread /\ ~handler[x] /\ saved[x] # None => FL_IF[c]

\* No assertion of acquire, release, popcli and sched fails.
NoLockPanic == ~panicked
===============================================================================
