-------------------------------- MODULE Console --------------------------------
(***************************************************************************)
(* The console: its input ring, filled by interrupts and read by threads   *)
(* that sleep for a line, on the spin locks, the scheduler and the         *)
(* interrupt flag of SpinLock.  A CPU runs the handler of an interrupt on  *)
(* top of whatever context it is in: a thread in user mode or in the       *)
(* kernel, or the scheduler.                                               *)
(*                                                                         *)
(* pc and hpc say where a context and the handler on top of it are; the    *)
(* steps inside acquire and release are those of SpinLock.  Each process   *)
(* has one thread.  The scan of the scheduler, exit and the rest of kill   *)
(* are the subject of ProcTable: here the scheduler runs any thread that   *)
(* is RUNNABLE, or none.  What is written is not kept.  The inode of the   *)
(* device, which consoleread and consolewrite unlock first and lock again  *)
(* at the end, is left out: its lock is held across no step of theirs.     *)
(***************************************************************************)
EXTENDS SpinLock, Sequences

CONSTANTS
    cons,           \* cons.lock
    cpu0,           \* the CPU that gets the interrupts of the keyboard
    INPUT_BUF,      \* size of the ring
    UINT,           \* r, w and e are unsigned and wrap around
    Keys,           \* what is typed: "x", "nl", "^D", "^U", "^H"
    Jobs,           \* thread -> the calls it makes: "read", "write", "kill"
    MaxRead         \* the largest n of read()

ASSUME RingAssumption ==
    /\ cons \in Lock \ {ptable} /\ cpu0 \in Cpu
    /\ INPUT_BUF \in Nat \ {0} /\ UINT \in Nat /\ UINT > INPUT_BUF /\ UINT % INPUT_BUF = 0
    /\ MaxRead \in Nat \ {0}
    /\ Jobs \in [Thread -> SUBSET {"read", "write", "kill"}]

VARIABLES
    r, w, e, buf,       \* input
    state, killed,      \* of threads
    n, target,          \* of threads in consoleread
    pc, hpc             \* of contexts

ring == <<r, w, e, buf>>
procVars == <<state, killed>>
readVars == <<n, target>>
vars == <<lockVars, ring, procVars, readVars, pc, hpc>>

TypeOK ==
    /\ {r, w, e} \subseteq 0 .. UINT - 1 /\ buf \in [0 .. INPUT_BUF - 1 -> Keys \cup {"x"}]
    /\ state \in [Thread -> {"RUNNABLE", "RUNNING", "SLEEPING"}]
    /\ killed \in [Thread -> BOOLEAN] /\ {n, target} \subseteq [Thread -> 0 .. MaxRead]
    /\ step \in [Cpu -> Steps] /\ on \in [Cpu -> Context] /\ handler \in [Context -> BOOLEAN]

Init ==
    /\ SpinInit
    /\ r = 0 /\ w = 0 /\ e = 0 /\ buf = [i \in 0 .. INPUT_BUF - 1 |-> "x"]
    /\ state = [t \in Thread |-> "RUNNABLE"] /\ killed = [t \in Thread |-> FALSE]
    /\ n = [t \in Thread |-> 0] /\ target = n
    /\ pc = [x \in Context |-> IF x \in Cpu THEN "sti" ELSE "forkret"]
    /\ hpc = [x \in Context |-> "none"]

-----------------------------------------------------------------------------
\* CPU c is at a label of its context, or of the handler on top.
At(c, label) ==
    /\ step[c] = Run
    /\ (IF handler[on[c]] THEN hpc ELSE pc)[on[c]] = label
Goto(c, label) ==
    IF handler[on[c]] THEN hpc' = [hpc EXCEPT ![on[c]] = label] /\ UNCHANGED pc
                      ELSE pc' = [pc EXCEPT ![on[c]] = label] /\ UNCHANGED hpc

\* A call of acquire or release, after which the context is at another label.
Acquires(c, at, l, next) == At(c, at) /\ acquire(c, l) /\ Goto(c, next)
Releases(c, at, l, next) == At(c, at) /\ release(c, l) /\ Goto(c, next)

lockStep(c) ==
    /\ xchg(c) \/ record(c) \/ clear(c)
    /\ UNCHANGED <<ring, procVars, readVars, pc, hpc>>

-----------------------------------------------------------------------------
(***************************************************************************)
(* Interrupts: a key, or the timer, which makes a thread yield.            *)
(***************************************************************************)
trap(c) ==
    /\ interrupt(c)
    /\ \E h \in {"consoleintr", "yield"} :
         /\ IF h = "consoleintr" THEN c = cpu0 ELSE on[c] \in Thread
         /\ hpc' = [hpc EXCEPT ![on[c]] = h]
    /\ UNCHANGED <<ring, procVars, readVars, pc>>

trapEnd(c) ==
    /\ At(c, "iret") /\ iret(c)
    /\ hpc' = [hpc EXCEPT ![on[c]] = "none"]
    /\ UNCHANGED <<ring, procVars, readVars, pc>>

consoleintr(c) ==
    /\ Acquires(c, "consoleintr", cons, "getc")
    /\ UNCHANGED <<ring, procVars, readVars>>

Minus(a, b) == (a - b) % UINT
Plus(a, b) == (a + b) % UINT

\* The ring without the contents of the slots from i up to j, which are dead.
Without(i, j) ==
    [k \in DOMAIN buf |-> IF Minus(k, i) % INPUT_BUF < Minus(j, i) THEN "x" ELSE buf[k]]

\* Editing keys go back to w at most.
edit(c, key) ==
    /\ At(c, "getc") /\ key \in Keys \cap {"^U", "^H"}
    /\ e' = IF key = "^U" THEN w
            ELSE IF e # w THEN Minus(e, 1) ELSE e
    /\ buf' = Without(e', e)
    /\ UNCHANGED <<lockVars, r, w, procVars, readVars, pc, hpc>>

\* Mutant: a line that fills the ring is not handed over.
CommitsAtEnd(key) == key \in {"nl", "^D"}
\* The line is handed to the readers.
Commits(key) == key \in {"nl", "^D"} \/ Plus(e, 1) = Plus(r, INPUT_BUF)

\* A character is kept if there is room.
type(c, key) ==
    /\ At(c, "getc") /\ key \in Keys \ {"^U", "^H"}
    /\ Minus(e, r) < INPUT_BUF
    /\ buf' = [buf EXCEPT ![e % INPUT_BUF] = key]
    /\ e' = Plus(e, 1)
    /\ IF Commits(key) THEN w' = e' /\ Goto(c, "wakeup")
                       ELSE UNCHANGED <<w, pc, hpc>>
    /\ UNCHANGED <<lockVars, r, procVars, readVars>>

wakeup(c) ==
    /\ Acquires(c, "wakeup", ptable, "wakeup1")
    /\ UNCHANGED <<ring, procVars, readVars>>

Sleepers == {t \in Thread : state[t] = "SLEEPING"}

wakeup1(c) ==
    /\ Releases(c, "wakeup1", ptable, "getc")
    /\ state' = [t \in Thread |-> IF t \in Sleepers THEN "RUNNABLE" ELSE state[t]]
    /\ UNCHANGED <<ring, killed, readVars>>

\* Mutant: procdump prints while cons.lock is held.
intrEndPrints(c) ==
    /\ Releases(c, "getc", cons, "iret") \/ Acquires(c, "getc", cons, "getc")
    /\ UNCHANGED <<ring, procVars, readVars>>
\* No more keys.  If ^P was among them, which changes nothing else, procdump
\* prints: cprintf takes and drops cons.lock again, as consoleintr does.
intrEnd(c) ==
    /\ \E next \in {"iret", "consoleintr"} : Releases(c, "getc", cons, next)
    /\ UNCHANGED <<ring, procVars, readVars>>

\* The context leaves the CPU in a new state; it resumes at next.
SwitchOut(c, at, s, next) ==
    /\ At(c, at) /\ sched(c) /\ Goto(c, next)
    /\ state' = [state EXCEPT ![on[c]] = s]

yield(c) ==
    /\ \/ Acquires(c, "yield", ptable, "yield1") /\ UNCHANGED state
       \/ SwitchOut(c, "yield1", "RUNNABLE", "yield2")
       \/ Releases(c, "yield2", ptable, "iret") /\ UNCHANGED state
    /\ UNCHANGED <<ring, killed, readVars>>

-----------------------------------------------------------------------------
(***************************************************************************)
(* consoleread, with sleep; consolewrite and cprintf; kill.                *)
(***************************************************************************)
Calls(c, call) ==
    /\ At(c, "user") /\ on[c] \in Thread
    /\ ~killed[on[c]] /\ call \in Jobs[on[c]]

consoleread(c) ==
    /\ Calls(c, "read")
    /\ \E k \in 1 .. MaxRead : n' = [n EXCEPT ![on[c]] = k] /\ target' = [target EXCEPT ![on[c]] = k]
    /\ Acquires(c, "user", cons, "read")
    /\ UNCHANGED <<ring, procVars>>

\* One character.  An end of file that follows other characters is left for the
\* next read.
readChar(c) ==
    /\ At(c, "read")
    /\ LET t == on[c]
           key == buf[r % INPUT_BUF] IN
       /\ n[t] > 0 /\ r # w
       /\ r' = IF key = "^D" /\ n[t] < target[t] THEN r ELSE Plus(r, 1)
       /\ buf' = Without(r, r')
       /\ n' = [n EXCEPT ![t] = IF key = "^D" THEN @ ELSE @ - 1]
       /\ Goto(c, IF key \in {"^D", "nl"} THEN "readEnd" ELSE "read")
    /\ UNCHANGED <<lockVars, w, e, procVars, target>>

readEnd(c) ==
    /\ \/ Releases(c, "readEnd", cons, "user")
       \/ /\ Releases(c, "read", cons, "user")
          /\ n[on[c]] = 0 \/ (r = w /\ killed[on[c]])
    /\ n' = [n EXCEPT ![on[c]] = 0] /\ target' = [target EXCEPT ![on[c]] = 0]
    /\ UNCHANGED <<ring, procVars>>

\* Mutant: cons.lock is dropped before ptable.lock is taken.
readSleepDrops(c) ==
    /\ \/ /\ Releases(c, "read", cons, "drop")
          /\ n[on[c]] > 0 /\ r = w /\ ~killed[on[c]]
       \/ Acquires(c, "drop", ptable, "sleep1")
    /\ UNCHANGED <<ring, procVars, readVars>>
readSleep(c) ==
    /\ Acquires(c, "read", ptable, "sleep")
    /\ n[on[c]] > 0 /\ r = w /\ ~killed[on[c]]
    /\ UNCHANGED <<ring, procVars, readVars>>

sleep(c) ==
    /\ \/ Releases(c, "sleep", cons, "sleep1") /\ UNCHANGED state
       \/ SwitchOut(c, "sleep1", "SLEEPING", "sleep2")
       \/ Releases(c, "sleep2", ptable, "sleep3") /\ UNCHANGED state
       \/ Acquires(c, "sleep3", cons, "read") /\ UNCHANGED state
    /\ UNCHANGED <<ring, killed, readVars>>

consolewrite(c) ==
    /\ \/ Calls(c, "write") /\ Acquires(c, "user", cons, "write")
       \/ Releases(c, "write", cons, "user")
    /\ UNCHANGED <<ring, procVars, readVars>>

kill(c) ==
    /\ \/ Calls(c, "kill") /\ Acquires(c, "user", ptable, "kill") /\ UNCHANGED procVars
       \/ /\ Releases(c, "kill", ptable, "user")
          /\ \E t \in Thread \ {on[c]} :
               /\ killed' = [killed EXCEPT ![t] = TRUE]
               /\ state' = [state EXCEPT ![t] = IF @ = "SLEEPING" THEN "RUNNABLE" ELSE @]
    /\ UNCHANGED <<ring, readVars>>

-----------------------------------------------------------------------------
scheduler(c) ==
    /\ \/ /\ At(c, "sti") /\ sti(c) /\ Goto(c, "acquire")
          /\ UNCHANGED state
       \/ Acquires(c, "acquire", ptable, "scan") /\ UNCHANGED state
       \/ /\ At(c, "scan")
          /\ \E t \in Thread :
               /\ state[t] = "RUNNABLE" /\ swtch(c, t)
               /\ state' = [state EXCEPT ![t] = "RUNNING"]
          /\ UNCHANGED <<pc, hpc>>
       \/ Releases(c, "scan", ptable, "sti") /\ UNCHANGED state
    /\ UNCHANGED <<ring, killed, readVars>>

forkret(c) ==
    /\ \/ Releases(c, "forkret", ptable, "trapret")
       \/ At(c, "trapret") /\ trapret(c) /\ Goto(c, "user")
    /\ UNCHANGED <<ring, procVars, readVars>>

Step(c) ==
    \/ lockStep(c) \/ trap(c) \/ trapEnd(c)
    \/ consoleintr(c) \/ wakeup(c) \/ wakeup1(c) \/ intrEnd(c) \/ yield(c)
    \/ \E key \in Keys : edit(c, key) \/ type(c, key)
    \/ consoleread(c) \/ readChar(c) \/ readEnd(c) \/ readSleep(c) \/ sleep(c)
    \/ consolewrite(c) \/ kill(c) \/ scheduler(c) \/ forkret(c)

Next == ~panicked /\ \E c \in Cpu : Step(c)
Spec == Init /\ [][Next]_vars

-----------------------------------------------------------------------------
\* The console takes and drops its locks by the rules of SpinLock.
ImplementsSpinLock == SpinSpec

\* The ring with its three wrapping indices is the line and the queue of
\* Terminal: no character is lost, read twice or overwritten, and what has been
\* handed over is not edited.
Slice(i, j) == [k \in 1 .. Minus(j, i) |-> buf[Plus(i, k - 1) % INPUT_BUF]]
T == INSTANCE Terminal WITH
        Size <- INPUT_BUF, Ends <- {"nl", "^D"},
        line <- Slice(w, e), ready <- Slice(r, w)
ImplementsTerminal == T!Spec

\* A thread sleeps in consoleread only while there is nothing to read, or the
\* handler that has handed over a line is about to wake it.
NoLostInput ==
    Sleepers # {} /\ r # w =>
        \E c \in Cpu : handler[on[c]] /\ hpc[on[c]] \in {"wakeup", "wakeup1"}

\* A thread that has been killed does not sleep in consoleread.
KilledAwake == \A t \in Thread : killed[t] => state[t] # "SLEEPING"
===============================================================================
