----------------------------- MODULE MCProcTable -----------------------------
(***************************************************************************)
(* Instances of ProcTable for TLC: the programs, and the symmetry of CPUs. *)
(***************************************************************************)
EXTENDS ProcTable, TLC

CpuSymmetry == Permutations(Cpus)

\* init forks and waits; the programs in the other slots make the calls given.
Program(calls) == [p \in Procs |-> IF p = initproc THEN {"fork", "wait"} ELSE calls]

\* Single-threaded processes that fork, exec, exit and kill each other.
MCProcs == Program({"fork", "exit", "kill", "exec"})
\* A multi-threaded process, which may fault; one that calls exec as well; and
\* two kinds that init kills.
MCThreads == Program({"exit", "kthread_create", "kthread_exit", "kthread_join", "sleep", "fault"})
MCWild == Program({"exit", "kthread_create", "kthread_join", "fault", "exec", "sleep"})
MCExec == Program({"exit", "kthread_create", "sleep", "exec"})
MCExecs == Program({"kthread_create", "exec"})
Victim(calls) == [Program(calls) EXCEPT ![initproc] = @ \cup {"kill"}]
MCKill == Victim({"exit", "kthread_create", "kthread_join", "sleep"})
MCWorker == Victim({"kthread_create", "kthread_exit", "sleep"})

\* Where a thread is, running or not.
FrameOf(t) == IF \E c \in Cpus : cur[c] = t THEN pc[CHOOSE c \in Cpus : cur[c] = t]
              ELSE ctx[t]

\* Exploration stops where another CPU has freed, reused or reaped what a
\* thread between the two critical sections of kthread_exit still stands on.
ExitWindowIntact ==
    \A c \in Cpus : pc[c].at = "kexit_sched" =>
        kstack[cur[c]] /\ pstate[curproc(c)] \notin {"UNUSED", "EMBRYO", "ZOMBIE"}

\* The same, and exploration stops where a thread is made in a process while
\* exit() waits for the threads of it.
InExit(t) == tstate[t] \notin {"UNUSED", "EMBRYO", "ZOMBIE"} /\ FrameOf(t).at = "exit_wait"
ExitIntact ==
    /\ ExitWindowIntact
    /\ \A t \in Thread : InExit(t) => \A s \in ThreadsOf(t[1]) : tstate[s] # "EMBRYO"

\* Exploration stops where allocproc has given a slot twice: two calls of fork,
\* running or preempted, work on one slot, or one is about to mark as EMBRYO a
\* slot that another has filled.
Forking(t) == tstate[t] \in {"RUNNABLE", "RUNNING"} /\ FrameOf(t).at \in ForkPoints
SlotsIntact ==
    \A t \in {s \in Thread : Forking(s)} :
        /\ \A s \in Thread \ {t} : Forking(s) => FrameOf(s).x # FrameOf(t).x
        /\ FrameOf(t).at = "embryo" => pstate[FrameOf(t).x] = "UNUSED"
==============================================================================
