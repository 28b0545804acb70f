------------------------------ MODULE ProcTable ------------------------------
(***************************************************************************)
(* The process and thread table of the kernel (proc.c, and the parts of    *)
(* trap.c, exec.c and sysproc.c that change it): the per-CPU scheduler,    *)
(* sleep/wakeup, fork, exit, wait, kill, kthread_create, kthread_exit,     *)
(* kthread_join and exec's kill_threads.                                   *)
(*                                                                         *)
(* Grain of atomicity.  ptable.lock (p->ttlock is the same lock) protects  *)
(* the table: code between acquire and release is one step.  The lock is   *)
(* explicit only where it outlives a step, that is while it is handed over *)
(* by swtch from a thread to its CPU's scheduler and back.  Whatever the   *)
(* code writes without the lock is a step of its own.                      *)
(*                                                                         *)
(* A thread in execution lives on a CPU: cur[c] is the slot of the thread  *)
(* (c->proc, c->thread), pc[c] the frame on its kernel stack.  swtch saves *)
(* the frame in the slot (ctx, t->context) and loads it from there; slot   *)
(* and execution are distinct, as a slot can be freed and used again while *)
(* a CPU still executes the thread that had it.                            *)
(***************************************************************************)
EXTENDS Integers, FiniteSets

CONSTANTS
    NPROC,       \* slots of ptable.proc; slot 0 holds initproc
    NTHREAD,     \* slots of p->threads
    Cpus,        \* the CPUs that run scheduler()
    Prog,        \* Prog[p]: the system calls the program in slot p makes
    KillPids,    \* the pids passed to kill()
    MaxPid,      \* bound: no fork is entered once nextpid exceeds it
    KallocFails, \* whether kalloc() and copyuvm() may run out of memory
    Free         \* "no CPU": the value of lk when no scheduler has the lock

Procs == 0 .. NPROC - 1
Tix == 0 .. NTHREAD - 1
Thread == Procs \X Tix
initproc == 0

SysCall == {"fork", "exit", "wait", "kill", "sleep", "exec", "fault",
            "kthread_create", "kthread_exit", "kthread_join"}

ASSUME SizeAssumption == NPROC \in Nat \ {0} /\ NTHREAD \in Nat \ {0}
ASSUME CpuAssumption == Free \notin Cpus
ASSUME ProgAssumption == Prog \in [Procs -> SUBSET SysCall]
ASSUME BoundAssumption ==
    KillPids \subseteq Nat /\ MaxPid \in Nat /\ KallocFails \in BOOLEAN

State == {"UNUSED", "EMBRYO", "SLEEPING", "RUNNABLE", "RUNNING", "ZOMBIE"}

\* Control points of a thread: user mode, the return path of trap(), and the
\* places in the kernel where it holds no lock or is about to resume.
Point == SysCall \cup
    {"user", "ret", "embryo", "pid", "fork_thread", "fork_kstack", "copyuvm",
     "fork_run", "fork_done", "create_kstack", "create_run", "kexit_sched",
     "exit_wait", "exit_close", "exit_sched", "wait_wait", "join_wait",
     "kill_threads", "ticks", "zombie"}

\* The panics of the kernel that the model can reach; "" when there is none.
Message == {"", "switchuvm: no kstack", "zombie exit", "sched thread running",
            "init exiting", "trap"}

\* A frame: the point and two locals (a slot or an index, and a number).
Frame == [at : Point \cup {"idle", "sched"}, x : Nat, y : Nat]
At(l) == [at |-> l, x |-> 0, y |-> 0]

NoThread == <<-1, -1>>
NoChan == <<"none">>
ProcChan(p) == <<"proc", p>>
ThreadChan(t) == <<"thread", t[1], t[2]>>
Ticks == <<"ticks">>
Chan == {NoChan, Ticks} \cup {ProcChan(p) : p \in Procs}
                        \cup {ThreadChan(t) : t \in Thread}
NoProc == -1

VARIABLES
    pstate, pid, parent, pkilled, cwd,       \* struct proc
    tstate, tid, tkilled, chan, kstack, ctx, \* struct thread
    nextpid,
    cur, pc, lk,                             \* struct cpu, ptable.lock
    panic

procVars == <<pstate, pid, parent, pkilled, cwd, nextpid>>
threadVars == <<tstate, tid, tkilled, chan, kstack>>
cpuVars == <<cur, pc, lk, ctx>>
vars == <<procVars, threadVars, cpuVars, panic>>

TypeOK ==
    /\ pstate \in [Procs -> State]
    /\ pid \in [Procs -> Nat]
    /\ parent \in [Procs -> Procs \cup {NoProc}]
    /\ pkilled \in [Procs -> BOOLEAN]
    /\ cwd \in [Procs -> BOOLEAN]
    /\ tstate \in [Thread -> State]
    /\ tid \in [Thread -> Tix \cup {-1}]
    /\ tkilled \in [Thread -> BOOLEAN]
    /\ chan \in [Thread -> Chan]
    /\ kstack \in [Thread -> BOOLEAN]
    /\ ctx \in [Thread -> Frame]
    /\ nextpid \in Nat
    /\ cur \in [Cpus -> Thread \cup {NoThread}]
    /\ pc \in [Cpus -> Frame]
    /\ lk \in Cpus \cup {Free}
    /\ panic \in Message

(***************************************************************************)
(* userinit: slot 0 holds init with one runnable thread; everything else   *)
(* is zero, so every other slot is UNUSED and every tid is 0.              *)
(***************************************************************************)
userinit ==
    /\ pstate = [p \in Procs |-> IF p = initproc THEN "RUNNABLE" ELSE "UNUSED"]
    /\ pid = [p \in Procs |-> IF p = initproc THEN 1 ELSE 0]
    /\ parent = [p \in Procs |-> NoProc]
    /\ pkilled = [p \in Procs |-> FALSE]
    /\ cwd = [p \in Procs |-> p = initproc]
    /\ tstate = [t \in Thread |-> IF t = <<0, 0>> THEN "RUNNABLE" ELSE "UNUSED"]
    /\ tid = [t \in Thread |-> 0]
    /\ tkilled = [t \in Thread |-> FALSE]
    /\ chan = [t \in Thread |-> NoChan]
    /\ kstack = [t \in Thread |-> t = <<0, 0>>]
    /\ ctx = [t \in Thread |-> At("user")]
    /\ nextpid = 2

Init ==
    /\ userinit
    /\ cur = [c \in Cpus |-> NoThread]
    /\ pc = [c \in Cpus |-> At("idle")]
    /\ lk = Free
    /\ panic = ""

-----------------------------------------------------------------------------
(***************************************************************************)
(* Helpers.                                                                *)
(***************************************************************************)
curproc(c) == cur[c][1]
ThreadsOf(p) == {t \in Thread : t[1] = p}
IsLeast(i, S) == i \in S /\ \A j \in S : i <= j

\* acquire(&ptable.lock) by the thread on CPU c, at point l: either no
\* scheduler has the lock, or this thread resumed with it in its hands.
Locked(c, l) == pc[c].at = l /\ lk \in {Free, c}
Unlocked(c, l) == pc[c].at = l

\* release(&ptable.lock) and go on at fr; also a step that takes no lock.
Jump(c, fr) ==
    /\ pc' = [pc EXCEPT ![c] = fr]
    /\ lk' = IF lk = c THEN Free ELSE lk
    /\ UNCHANGED cur

\* sched(): save the frame in the slot, give the lock to the scheduler.
SwitchOut(c, fr) ==
    /\ ctx' = [ctx EXCEPT ![cur[c]] = fr]
    /\ pc' = [pc EXCEPT ![c] = At("sched")]
    /\ lk' = c
    /\ UNCHANGED cur

Panic(msg) ==
    /\ panic' = msg
    /\ UNCHANGED <<procVars, threadVars, cpuVars>>

\* wakeup1(ch), as a function of the thread states ts and process states ps.
\* (Mutants: only sleeping processes are looked at; only the others, as the
\* comment above wakeup1 says.)
OnlySleeping(s) == s = "SLEEPING"
ReadyOrRunning(s) == s \in {"RUNNABLE", "RUNNING"}
Live(s) == s \in {"SLEEPING", "RUNNABLE", "RUNNING"}
Sleeper(ts, ps, ch, t) == Live(ps[t[1]]) /\ ts[t] = "SLEEPING" /\ chan[t] = ch
WokenThreads(ts, ps, ch) ==
    [t \in Thread |-> IF Sleeper(ts, ps, ch, t) THEN "RUNNABLE" ELSE ts[t]]
WokenProcs(ts, ps, ch) ==
    [p \in Procs |-> IF \E t \in ThreadsOf(p) : Sleeper(ts, ps, ch, t)
                     THEN "RUNNABLE" ELSE ps[p]]

\* sleep(ch, &ptable.lock), ts being the thread states at that moment: the
\* process sleeps only if no other thread of it can run.
Awake(ts, t) == ts[t] \in {"RUNNABLE", "RUNNING", "EMBRYO"}
sleep(c, ts, ch, fr) ==
    /\ chan' = [chan EXCEPT ![cur[c]] = ch]
    /\ tstate' = [ts EXCEPT ![cur[c]] = "SLEEPING"]
    /\ pstate' = [pstate EXCEPT ![curproc(c)] =
                    IF \E t \in ThreadsOf(curproc(c)) \ {cur[c]} : Awake(ts, t)
                    THEN "RUNNABLE" ELSE "SLEEPING"]
    /\ SwitchOut(c, fr)

\* (Mutant: a thread on another CPU is taken for gone.)
GoneOrRunning(s) == s \in {"UNUSED", "ZOMBIE", "RUNNING"}
Gone(s) == s \in {"UNUSED", "ZOMBIE"}
allButRunning(p, T) ==
    pstate[p] = "ZOMBIE" \/ \A t \in ThreadsOf(p) \ T : GoneOrRunning(tstate[t])
allzombies(p, T) ==
    pstate[p] = "ZOMBIE" \/ \A t \in ThreadsOf(p) \ T : Gone(tstate[t])

\* clear_thread on every slot of T.
clear_thread(T) ==
    /\ tstate' = [t \in Thread |-> IF t \in T THEN "UNUSED" ELSE tstate[t]]
    /\ tid' = [t \in Thread |-> IF t \in T THEN -1 ELSE tid[t]]
    /\ tkilled' = [t \in Thread |-> tkilled[t] /\ t \notin T]
    /\ chan' = [t \in Thread |-> IF t \in T THEN NoChan ELSE chan[t]]
    /\ kstack' = [t \in Thread |-> kstack[t] /\ t \notin T]

-----------------------------------------------------------------------------
(***************************************************************************)
(* scheduler(), sched() and yield().  A CPU that comes back from swtch has *)
(* the lock and goes on in the inner loop over the threads of the same     *)
(* process, without looking at p->state again, then with the processes     *)
(* after it; at the end of the table it releases the lock ("idle").        *)
(***************************************************************************)
Back(c) == pc[c].at = "sched"
\* (Mutants: one thread per process and round; RUNNING threads are chosen.)
NoInnerLoop(c) == {}
OuterLoopTakesRunning(c) == {t \in Thread : /\ Back(c) => t[1] > curproc(c)
                                            /\ pstate[t[1]] \in {"RUNNABLE", "RUNNING"}
                                            /\ tstate[t] \in {"RUNNABLE", "RUNNING"}}
InnerLoop(c) == {t \in Thread : /\ Back(c) /\ t[1] = curproc(c)
                                /\ t[2] > cur[c][2] /\ tstate[t] = "RUNNABLE"}
OuterLoop(c) == {t \in Thread : /\ Back(c) => t[1] > curproc(c)
                                /\ pstate[t[1]] = "RUNNABLE"
                                /\ tstate[t] = "RUNNABLE"}
Candidates(c) == IF InnerLoop(c) # {} THEN InnerLoop(c) ELSE OuterLoop(c)
Precedes(s, t) == s[1] < t[1] \/ (s[1] = t[1] /\ s[2] < t[2])

\* Points at which a thread that slept resumes, and those where it still has
\* ptable.lock; the others (forkret, yield, sys_sleep) release it at once.
LockPoints == {"exit_wait", "wait_wait", "join_wait"}
SleepPoints == LockPoints \cup {"sleep"}

swtch(c, t) ==
    IF ~kstack[t] THEN Panic("switchuvm: no kstack")
    ELSE IF ctx[t].at = "zombie" THEN Panic("zombie exit")
    ELSE /\ pstate' = [pstate EXCEPT ![t[1]] = "RUNNING"]
         /\ tstate' = [tstate EXCEPT ![t] = "RUNNING"]
         /\ chan' = [chan EXCEPT ![t] = IF ctx[t].at \in SleepPoints THEN NoChan ELSE @]
         /\ cur' = [cur EXCEPT ![c] = t]
         /\ pc' = [pc EXCEPT ![c] = ctx[t]]
         /\ lk' = IF ctx[t].at \in LockPoints THEN c ELSE Free
         /\ UNCHANGED <<pid, parent, pkilled, cwd, nextpid, tid, tkilled, kstack, ctx, panic>>

Scanning(c) == (pc[c].at = "idle" /\ lk = Free) \/ (Back(c) /\ lk = c)

scheduler(c) ==
    /\ Scanning(c)
    /\ \E t \in Candidates(c) :
         /\ \A s \in Candidates(c) \ {t} : Precedes(t, s)
         /\ swtch(c, t)

schedulerEnd(c) ==
    /\ Scanning(c)
    /\ Candidates(c) = {}
    /\ pc' = [pc EXCEPT ![c] = At("idle")]
    /\ cur' = [cur EXCEPT ![c] = NoThread]
    /\ lk' = Free
    /\ UNCHANGED <<procVars, threadVars, ctx, panic>>

InThread(c) == pc[c].at \notin {"idle", "sched"}
Killed(c) == tkilled[cur[c]] \/ pkilled[curproc(c)]

\* Timer interrupt in a thread that holds no lock: trap() calls yield() if the
\* thread is RUNNING; from user mode a killed thread exits instead (trapret).
\* (Mutant: trap() does not look at the state of the thread.)
AlwaysPreempted(c) == InThread(c)
Preempted(c) == InThread(c) /\ tstate[cur[c]] = "RUNNING"
yield(c) ==
    /\ Preempted(c) /\ lk = Free /\ pc[c].at # "ticks"
    /\ pc[c].at = "user" => ~Killed(c)
    /\ pstate' = [pstate EXCEPT ![curproc(c)] = "RUNNABLE"]
    /\ tstate' = [tstate EXCEPT ![cur[c]] = "RUNNABLE"]
    /\ SwitchOut(c, IF pc[c].at = "user" THEN At("ret") ELSE pc[c])
    /\ UNCHANGED <<pid, parent, pkilled, cwd, nextpid, tid, tkilled, chan, kstack, panic>>

\* tickslock, which a thread has only between the test and the sleep of sys_sleep.
TicksFree == \A c \in Cpus : pc[c].at # "ticks"

\* Timer interrupt on CPU 0: wakeup(&ticks).
tick ==
    /\ lk = Free /\ TicksFree
    /\ \E t \in Thread : Sleeper(tstate, pstate, Ticks, t)
    /\ tstate' = WokenThreads(tstate, pstate, Ticks)
    /\ pstate' = WokenProcs(tstate, pstate, Ticks)
    /\ UNCHANGED <<pid, parent, pkilled, cwd, nextpid, tid, tkilled, chan, kstack,
                   cpuVars, panic>>

\* The killed checks of trap() on the way in and out of the kernel.
trapret(c) ==
    /\ pc[c].at = "ret" \/ (pc[c].at = "user" /\ Killed(c))
    /\ Jump(c, At(IF tkilled[cur[c]] THEN "kthread_exit"
                  ELSE IF pkilled[curproc(c)] THEN "exit" ELSE "user"))
    /\ UNCHANGED <<procVars, threadVars, ctx, panic>>

\* A system call (or a fault) of a program that is not killed.
syscall(c) ==
    /\ pc[c].at = "user" /\ ~Killed(c)
    /\ \E call \in Prog[curproc(c)] :
         /\ call = "fork" => nextpid <= MaxPid
         /\ Jump(c, At(call))
    /\ UNCHANGED <<procVars, threadVars, ctx, panic>>

\* A fault in user mode: trap() kills the process.
fault(c) ==
    /\ Unlocked(c, "fault")
    /\ pkilled' = [pkilled EXCEPT ![curproc(c)] = TRUE]
    /\ Jump(c, At("ret"))
    /\ UNCHANGED <<pstate, pid, parent, cwd, nextpid, threadVars, ctx, panic>>

-----------------------------------------------------------------------------
(***************************************************************************)
(* fork(), with allocproc() and allocthread().  allocproc releases the     *)
(* lock before it marks the slot, and counts nextpid without a lock.       *)
(***************************************************************************)
allocproc(c) ==
    /\ Locked(c, "fork")
    /\ \/ \E p \in Procs : /\ IsLeast(p, {q \in Procs : pstate[q] = "UNUSED"})
                           /\ Jump(c, [At("embryo") EXCEPT !.x = p])
       \/ /\ \A p \in Procs : pstate[p] # "UNUSED"
          /\ Jump(c, At("ret"))
    /\ UNCHANGED <<procVars, threadVars, ctx, panic>>

allocprocEmbryo(c) ==
    /\ Unlocked(c, "embryo")
    /\ pstate' = [pstate EXCEPT ![pc[c].x] = "EMBRYO"]
    /\ Jump(c, [at |-> "pid", x |-> pc[c].x, y |-> nextpid])
    /\ UNCHANGED <<pid, parent, pkilled, cwd, nextpid, threadVars, ctx, panic>>

allocprocPid(c) ==
    /\ Unlocked(c, "pid")
    /\ pid' = [pid EXCEPT ![pc[c].x] = pc[c].y]
    /\ nextpid' = pc[c].y + 1
    /\ Jump(c, [At("fork_thread") EXCEPT !.x = pc[c].x])
    /\ UNCHANGED <<pstate, parent, pkilled, cwd, threadVars, ctx, panic>>

\* allocthread(p) up to its release: i is the slot found.
allocthread(p, i) ==
    /\ IsLeast(i, {j \in Tix : tstate[<<p, j>>] = "UNUSED"})
    /\ tstate' = [tstate EXCEPT ![<<p, i>>] = "EMBRYO"]
    /\ tid' = [tid EXCEPT ![<<p, i>>] = i]
    /\ UNCHANGED <<tkilled, chan, kstack>>
NoSlot(p) == \A i \in Tix : tstate[<<p, i>>] # "UNUSED"

\* The rest of allocthread: a kernel stack and a context that starts in
\* forkret, or kalloc() fails and the slot is given back.
kallocOK(t) ==
    /\ kstack' = [kstack EXCEPT ![t] = TRUE]
    /\ ctx' = [ctx EXCEPT ![t] = At("user")]
    /\ UNCHANGED tstate
kallocFailed(t) ==
    /\ KallocFails
    /\ tstate' = [tstate EXCEPT ![t] = "UNUSED"]
    /\ kstack' = [kstack EXCEPT ![t] = FALSE]
    /\ UNCHANGED ctx

forkThread(c) ==
    /\ Locked(c, "fork_thread")
    /\ LET np == pc[c].x IN
       \/ \E i \in Tix : /\ allocthread(np, i)
                         /\ Jump(c, [at |-> "fork_kstack", x |-> np, y |-> i])
                         /\ UNCHANGED pstate
       \/ /\ NoSlot(np)
          /\ pstate' = [pstate EXCEPT ![np] = "UNUSED"]
          /\ Jump(c, At("ret"))
          /\ UNCHANGED threadVars
    /\ UNCHANGED <<pid, parent, pkilled, cwd, nextpid, ctx, panic>>

forkKstack(c) ==
    /\ Unlocked(c, "fork_kstack")
    /\ LET np == pc[c].x IN
       \/ /\ kallocOK(<<np, pc[c].y>>)
          /\ Jump(c, [At("copyuvm") EXCEPT !.x = np])
          /\ UNCHANGED pstate
       \/ /\ kallocFailed(<<np, pc[c].y>>)
          /\ pstate' = [pstate EXCEPT ![np] = "UNUSED"]
          /\ Jump(c, At("ret"))
    /\ UNCHANGED <<pid, parent, pkilled, cwd, nextpid, tid, tkilled, chan, panic>>

\* copyuvm and the copying of the parent's open files and directory; on
\* failure fork frees the stack of thread 0 and both slots.
forkCopy(c) ==
    /\ Unlocked(c, "copyuvm")
    /\ LET np == pc[c].x IN
       \/ /\ cwd' = [cwd EXCEPT ![np] = TRUE]
          /\ Jump(c, [At("fork_run") EXCEPT !.x = np])
          /\ UNCHANGED <<pstate, tstate, kstack>>
       \/ /\ KallocFails
          /\ kstack' = [kstack EXCEPT ![<<np, 0>>] = FALSE]
          /\ tstate' = [tstate EXCEPT ![<<np, 0>>] = "UNUSED"]
          /\ pstate' = [pstate EXCEPT ![np] = "UNUSED"]
          /\ Jump(c, At("ret"))
          /\ UNCHANGED cwd
    /\ UNCHANGED <<pid, parent, pkilled, nextpid, tid, tkilled, chan, ctx, panic>>

forkRun(c) ==
    /\ Locked(c, "fork_run")
    /\ tstate' = [tstate EXCEPT ![<<pc[c].x, 0>>] = "RUNNABLE"]
    /\ Jump(c, [At("fork_done") EXCEPT !.x = pc[c].x])
    /\ UNCHANGED <<procVars, tid, tkilled, chan, kstack, ctx, panic>>

forkDone(c) ==
    /\ Locked(c, "fork_done")
    /\ parent' = [parent EXCEPT ![pc[c].x] = curproc(c)]
    /\ pstate' = [pstate EXCEPT ![pc[c].x] = "RUNNABLE"]
    /\ Jump(c, At("ret"))
    /\ UNCHANGED <<pid, pkilled, cwd, nextpid, threadVars, ctx, panic>>

fork(c) ==
    \/ allocproc(c) \/ allocprocEmbryo(c) \/ allocprocPid(c)
    \/ forkThread(c) \/ forkKstack(c) \/ forkCopy(c) \/ forkRun(c) \/ forkDone(c)

-----------------------------------------------------------------------------
(***************************************************************************)
(* kthread_create(), kthread_exit(), kthread_join().                       *)
(***************************************************************************)
createThread(c) ==
    /\ Locked(c, "kthread_create")
    /\ \/ \E i \in Tix : /\ allocthread(curproc(c), i)
                         /\ Jump(c, [At("create_kstack") EXCEPT !.y = i])
       \/ /\ NoSlot(curproc(c))
          /\ Jump(c, At("ret"))
          /\ UNCHANGED threadVars
    /\ UNCHANGED <<procVars, ctx, panic>>

createKstack(c) ==
    /\ Unlocked(c, "create_kstack")
    /\ LET t == <<curproc(c), pc[c].y>> IN
       \/ kallocOK(t) /\ Jump(c, [At("create_run") EXCEPT !.y = pc[c].y])
       \/ kallocFailed(t) /\ Jump(c, At("ret"))
    /\ UNCHANGED <<procVars, tid, tkilled, chan, panic>>

createRun(c) ==
    /\ Locked(c, "create_run")
    /\ tstate' = [tstate EXCEPT ![<<curproc(c), pc[c].y>>] = "RUNNABLE"]
    /\ Jump(c, At("ret"))
    /\ UNCHANGED <<procVars, tid, tkilled, chan, kstack, ctx, panic>>

kthread_create(c) == createThread(c) \/ createKstack(c) \/ createRun(c)

\* First critical section: wake the joiners; the last thread goes on to
\* exit(), any other becomes a zombie and releases the lock.
kexitZombie(c) ==
    /\ Locked(c, "kthread_exit")
    /\ LET ts == WokenThreads(tstate, pstate, ThreadChan(cur[c]))
           last == allzombies(curproc(c), {cur[c]}) IN
       /\ tstate' = IF last THEN ts ELSE [ts EXCEPT ![cur[c]] = "ZOMBIE"]
       /\ pstate' = WokenProcs(tstate, pstate, ThreadChan(cur[c]))
       /\ Jump(c, At(IF last THEN "exit" ELSE "kexit_sched"))
    /\ UNCHANGED <<pid, parent, pkilled, cwd, nextpid, tid, tkilled, chan, kstack, ctx, panic>>

\* Second critical section: sched(), with the assertion it makes.
kexitSched(c) ==
    /\ Locked(c, "kexit_sched")
    /\ IF tstate[cur[c]] = "RUNNING" THEN Panic("sched thread running")
       ELSE /\ pstate' = [pstate EXCEPT ![curproc(c)] = "RUNNABLE"]
            /\ SwitchOut(c, At("zombie"))
            /\ UNCHANGED <<pid, parent, pkilled, cwd, nextpid, threadVars, panic>>

kthread_exit(c) == kexitZombie(c) \/ kexitSched(c)

\* One round of kthread_join's loop: reap the zombie, give up, or sleep.
joinRound(c, t) ==
    \/ /\ tstate[t] = "ZOMBIE"
       /\ clear_thread({t})
       /\ Jump(c, At("ret"))
       /\ UNCHANGED <<procVars, ctx, panic>>
    \/ /\ tstate[t] # "ZOMBIE" /\ tkilled[cur[c]]
       /\ Jump(c, At("ret"))
       /\ UNCHANGED <<procVars, threadVars, ctx, panic>>
    \/ /\ tstate[t] # "ZOMBIE" /\ ~tkilled[cur[c]]
       /\ sleep(c, tstate, ThreadChan(t), [At("join_wait") EXCEPT !.x = t[2]])
       /\ UNCHANGED <<pid, parent, pkilled, cwd, nextpid, tid, tkilled, kstack, panic>>

joinFirst(c) ==
    /\ Locked(c, "kthread_join")
    /\ \E i \in Tix : LET t == <<curproc(c), i>> IN
         \/ tid[t] = i /\ i # tid[cur[c]] /\ joinRound(c, t)
         \/ /\ tid[t] # i \/ i = tid[cur[c]]
            /\ Jump(c, At("ret"))
            /\ UNCHANGED <<procVars, threadVars, ctx, panic>>

joinAgain(c) == Locked(c, "join_wait") /\ joinRound(c, <<curproc(c), pc[c].x>>)

kthread_join(c) == joinFirst(c) \/ joinAgain(c)

-----------------------------------------------------------------------------
(***************************************************************************)
(* exit() and wait().                                                      *)
(***************************************************************************)
Siblings(c) == ThreadsOf(curproc(c)) \ {cur[c]}

\* exit's second loop from index i on: sleep once for the first sibling that
\* is neither ZOMBIE nor UNUSED; with none left, go on outside the lock.
\* (Mutant: it does not wait.)
exitNoWait(c, i, ts) ==
    /\ tstate' = ts
    /\ Jump(c, At("exit_close"))
    /\ UNCHANGED <<pstate, chan, ctx>>
exitLoop(c, i, ts) ==
    LET Waits == {j \in Tix : j >= i /\ <<curproc(c), j>> # cur[c]
                                     /\ ~Gone(ts[<<curproc(c), j>>])} IN
    \/ \E j \in Tix : /\ IsLeast(j, Waits)
                      /\ sleep(c, ts, ThreadChan(<<curproc(c), j>>),
                               [At("exit_wait") EXCEPT !.x = j])
    \/ /\ Waits = {}
       /\ tstate' = ts
       /\ Jump(c, At("exit_close"))
       /\ UNCHANGED <<pstate, chan, ctx>>

exitMark(c) ==
    /\ Locked(c, "exit")
    /\ tkilled' = [t \in Thread |->
                     tkilled[t] \/ (t \in Siblings(c) /\ tstate[t] # "UNUSED")]
    /\ exitLoop(c, 0, [t \in Thread |->
                         IF t \in Siblings(c) /\ tstate[t] \in {"RUNNABLE", "SLEEPING"}
                         THEN "ZOMBIE" ELSE tstate[t]])
    /\ UNCHANGED <<pid, parent, pkilled, cwd, nextpid, tid, kstack, panic>>

exitWait(c) ==
    /\ Locked(c, "exit_wait")
    /\ exitLoop(c, pc[c].x + 1, tstate)
    /\ UNCHANGED <<pid, parent, pkilled, cwd, nextpid, tid, tkilled, kstack, panic>>

\* Closing the files and releasing the directory; iput(0) faults.
exitClose(c) ==
    /\ Unlocked(c, "exit_close")
    /\ IF curproc(c) = initproc THEN Panic("init exiting")
       ELSE IF ~cwd[curproc(c)] THEN Panic("trap")
       ELSE /\ cwd' = [cwd EXCEPT ![curproc(c)] = FALSE]
            /\ Jump(c, At("exit_sched"))
            /\ UNCHANGED <<pstate, pid, parent, pkilled, nextpid, threadVars, ctx, panic>>

\* Children go to init, the parent is woken, process and thread are zombies.
Children(p) == {q \in Procs : parent[q] = p}
exitSched(c) ==
    /\ Locked(c, "exit_sched")
    /\ LET p == curproc(c)
           kids == Children(p)
           orphan == \E q \in kids : pstate[q] = "ZOMBIE"
           ch == IF orphan THEN ProcChan(initproc) ELSE NoChan
           ts1 == IF orphan THEN WokenThreads(tstate, pstate, ch) ELSE tstate
           ps1 == IF orphan THEN WokenProcs(tstate, pstate, ch) ELSE pstate
           up == ProcChan(parent[p]) IN
       /\ parent' = [q \in Procs |-> IF q \in kids THEN initproc ELSE parent[q]]
       /\ tstate' = [WokenThreads(ts1, ps1, up) EXCEPT ![cur[c]] = "ZOMBIE"]
       /\ pstate' = [WokenProcs(ts1, ps1, up) EXCEPT ![p] = "ZOMBIE"]
    /\ SwitchOut(c, At("zombie"))
    /\ UNCHANGED <<pid, pkilled, cwd, nextpid, tid, tkilled, chan, kstack, panic>>

exit(c) == exitMark(c) \/ exitWait(c) \/ exitClose(c) \/ exitSched(c)

\* One scan of wait(): reap the first child whose threads are all gone.
wait(c) ==
    /\ Locked(c, "wait") \/ Locked(c, "wait_wait")
    /\ LET kids == Children(curproc(c))
           done == {q \in kids : allzombies(q, {})} IN
       \/ \E p \in Procs :
            /\ IsLeast(p, done)
            /\ clear_thread({t \in ThreadsOf(p) : tstate[t] # "UNUSED"})
            /\ pid' = [pid EXCEPT ![p] = 0]
            /\ parent' = [parent EXCEPT ![p] = NoProc]
            /\ pkilled' = [pkilled EXCEPT ![p] = FALSE]
            /\ pstate' = [pstate EXCEPT ![p] = "UNUSED"]
            /\ Jump(c, At("ret"))
            /\ UNCHANGED <<cwd, nextpid, ctx, panic>>
       \/ /\ done = {} /\ (kids = {} \/ pkilled[curproc(c)])
          /\ Jump(c, At("ret"))
          /\ UNCHANGED <<procVars, threadVars, ctx, panic>>
       \/ /\ done = {} /\ kids # {} /\ ~pkilled[curproc(c)]
          /\ sleep(c, tstate, ProcChan(curproc(c)), At("wait_wait"))
          /\ UNCHANGED <<pid, parent, pkilled, cwd, nextpid, tid, tkilled, kstack, panic>>

-----------------------------------------------------------------------------
(***************************************************************************)
(* kill(), sys_sleep() and exec()'s kill_threads().                        *)
(***************************************************************************)
\* The threads among which kill wakes the first.  (Mutant: none is woken.)
NoneAsleep(p) == {}
Asleep(p) == {i \in Tix : pstate[p] = "SLEEPING" /\ tstate[<<p, i>>] = "SLEEPING"}
kill(c) ==
    /\ Locked(c, "kill")
    /\ \E n \in KillPids :
         \/ \E p \in Procs :
              /\ IsLeast(p, {q \in Procs : pid[q] = n})
              /\ pkilled' = [pkilled EXCEPT ![p] = TRUE]
              /\ tstate' = [t \in Thread |-> IF t[1] = p /\ IsLeast(t[2], Asleep(p))
                                             THEN "RUNNABLE" ELSE tstate[t]]
              /\ pstate' = [pstate EXCEPT ![p] = IF @ = "SLEEPING" THEN "RUNNABLE" ELSE @]
         \/ /\ \A p \in Procs : pid[p] # n
            /\ UNCHANGED <<pkilled, tstate, pstate>>
    /\ Jump(c, At("ret"))
    /\ UNCHANGED <<pid, parent, cwd, nextpid, tid, tkilled, chan, kstack, ctx, panic>>

\* sys_sleep: its loop ends when enough ticks have passed (any number may
\* have), or the process is killed; otherwise the thread sleeps, whether or not
\* it is killed before it has ptable.lock.
sleepTest(c) ==
    /\ Unlocked(c, "sleep") /\ TicksFree
    /\ \/ Jump(c, At("ret"))
       \/ ~pkilled[curproc(c)] /\ Jump(c, At("ticks"))
    /\ UNCHANGED <<procVars, threadVars, ctx, panic>>

sleepTicks(c) ==
    /\ Locked(c, "ticks")
    /\ sleep(c, tstate, Ticks, At("sleep"))
    /\ UNCHANGED <<pid, parent, pkilled, cwd, nextpid, tid, tkilled, kstack, panic>>

sys_sleep(c) == sleepTest(c) \/ sleepTicks(c)

execMark(c) ==
    /\ Locked(c, "exec")
    /\ tkilled' = [t \in Thread |->
                     tkilled[t] \/ (t \in Siblings(c) /\ tstate[t] # "UNUSED")]
    /\ tstate' = [t \in Thread |-> IF t[1] = curproc(c) /\ tstate[t] = "SLEEPING"
                                   THEN "RUNNABLE" ELSE tstate[t]]
    /\ Jump(c, At("kill_threads"))
    /\ UNCHANGED <<procVars, tid, chan, kstack, ctx, panic>>

\* One round of the busy wait: zombies become free slots (killed and chan are
\* left as they are); when every sibling is gone exec goes on.
execSpin(c) ==
    /\ Locked(c, "kill_threads")
    /\ LET T == {t \in Siblings(c) : tstate[t] = "ZOMBIE"} IN
       /\ tstate' = [t \in Thread |-> IF t \in T THEN "UNUSED" ELSE tstate[t]]
       /\ tid' = [t \in Thread |-> IF t \in T THEN -1 ELSE tid[t]]
       /\ kstack' = [t \in Thread |-> kstack[t] /\ t \notin T]
    /\ Jump(c, At(IF \A t \in Siblings(c) : Gone(tstate[t]) THEN "ret" ELSE "kill_threads"))
    /\ UNCHANGED <<procVars, tkilled, chan, ctx, panic>>

exec(c) == execMark(c) \/ execSpin(c)

\* A CPU whose kernel stack has been freed under it (kfree fills the page
\* with junk) may fault at any moment.
junk(c) == InThread(c) /\ ~kstack[cur[c]] /\ Panic("trap")

Run(c) ==
    \/ yield(c) \/ trapret(c) \/ syscall(c) \/ fault(c)
    \/ fork(c) \/ kthread_create(c) \/ kthread_exit(c) \/ kthread_join(c)
    \/ exit(c) \/ wait(c) \/ kill(c) \/ sys_sleep(c) \/ exec(c) \/ junk(c)

Next ==
    /\ panic = ""
    /\ \/ \E c \in Cpus : scheduler(c) \/ schedulerEnd(c) \/ Run(c)
       \/ tick

Spec == Init /\ [][Next]_vars

-----------------------------------------------------------------------------
(***************************************************************************)
(* Properties.                                                             *)
(***************************************************************************)

\* No assertion of the kernel fails: sched() never meets a RUNNING thread, a
\* finished thread never runs again ("zombie exit"), switchuvm never meets a
\* thread without a stack, exit() never runs twice for one process.
NoPanic == panic = ""

\* Two CPUs never execute the same thread slot (scheduler, c->thread).
OneCpuPerThread ==
    \A c, d \in Cpus : InThread(c) /\ InThread(d) /\ cur[c] = cur[d] => c = d

\* The kernel stack under a CPU is never freed (clear_thread, kill_threads).
RunningHasStack == \A c \in Cpus : InThread(c) => kstack[cur[c]]

\* The same outside the window between the critical sections of kthread_exit.
FreedOnlyInExitWindow ==
    \A c \in Cpus : InThread(c) /\ pc[c].at # "kexit_sched" => kstack[cur[c]]

\* A SLEEPING process has no thread that can run (sleep, wakeup1, kill).
SleepingProcAllAsleep ==
    \A t \in Thread : pstate[t[1]] = "SLEEPING" =>
                         tstate[t] \notin {"RUNNABLE", "RUNNING", "EMBRYO"}

\* No wakeup of a waiting parent is lost: while a thread sleeps in wait(), no
\* child of its process is ready to be reaped.
NoLostWait ==
    \A t \in Thread :
        tstate[t] = "SLEEPING" /\ chan[t] = ProcChan(t[1]) =>
            ~\E q \in Procs : parent[q] = t[1] /\ pstate[q] = "ZOMBIE"

\* No wakeup of a joiner is lost: nobody sleeps for a thread that is a zombie
\* (kthread_join, exit).
NoLostJoin ==
    \A s, t \in Thread :
        tstate[s] = "SLEEPING" /\ chan[s] = ThreadChan(t) => tstate[t] # "ZOMBIE"

\* Different processes have different pids.
UniquePids ==
    \A p, q \in Procs : p # q /\ pid[p] = pid[q] => pid[p] = 0

\* A process that has exited stays a zombie until wait() frees it.
ZombieIsFinal ==
    [][\A p \in Procs : pstate[p] = "ZOMBIE" => pstate'[p] \in {"ZOMBIE", "UNUSED"}]_vars

\* ptable.lock outlives a step only in the hand-over by swtch: the scheduler
\* a thread switched to has it, and so does a thread resumed inside sleep();
\* no other CPU is then inside the lock (sched: "must hold only ptable.lock").
LockHandover ==
    \A c \in Cpus : pc[c].at \in {"sched"} \cup LockPoints <=> lk = c

\* exit() has waited for its siblings: a process is a zombie only when all its
\* threads are gone ("wait until all threads are zombies").
ZombieProcHasNoThreads ==
    \A t \in Thread : pstate[t[1]] = "ZOMBIE" => tstate[t] \in {"UNUSED", "ZOMBIE"}

\* A free thread slot carries nothing of its last user: clear_thread resets
\* killed, so that a thread created in it later is not dead on arrival.
FreeSlotIsClean == \A t \in Thread : tstate[t] = "UNUSED" => ~tkilled[t]

\* The same of a free process slot, which wait() resets.
FreeProcIsClean == \A p \in Procs : pstate[p] = "UNUSED" => ~pkilled[p]

\* A joiner sleeps for a thread that exists ("if there is no thread with that
\* id its an error").
JoinerHasTarget ==
    \A s, t \in Thread :
        tstate[s] = "SLEEPING" /\ chan[s] = ThreadChan(t) => tstate[t] # "UNUSED"

\* allocproc gives a slot to one caller only ("If found, change state to
\* EMBRYO").
ForkPoints == {"embryo", "pid", "fork_thread", "fork_kstack", "copyuvm",
               "fork_run", "fork_done"}
SlotAllocatedOnce ==
    \A c, d \in Cpus :
        /\ c # d /\ pc[c].at \in ForkPoints /\ pc[d].at \in ForkPoints
        => pc[c].x # pc[d].x

\* kill() leaves the process with a thread awake, which will reach exit() at
\* its next trap.
KillWakes ==
    [][\A p \in Procs :
          pkilled'[p] /\ ~pkilled[p] /\ pstate[p] \notin {"UNUSED", "ZOMBIE"} =>
              \E t \in ThreadsOf(p) : tstate'[t] \in {"RUNNABLE", "RUNNING", "EMBRYO"}]_vars

-----------------------------------------------------------------------------
(***************************************************************************)
(* Fairness.  A CPU in scheduler() goes on; the timer keeps interrupting   *)
(* every CPU; the ticks keep coming; and a thread that is dispatched again *)
(* and again gets its kernel code done, a clock period being many times as *)
(* long as a step of it.  Programs need make no system call.               *)
(***************************************************************************)
KernelStep(c) ==
    \/ trapret(c) \/ fault(c) \/ fork(c) \/ kthread_create(c) \/ kthread_exit(c)
    \/ kthread_join(c) \/ exit(c) \/ wait(c) \/ kill(c) \/ sys_sleep(c) \/ exec(c)
Fairness ==
    /\ \A c \in Cpus : /\ WF_vars(panic = "" /\ (scheduler(c) \/ schedulerEnd(c)))
                       /\ WF_vars(panic = "" /\ yield(c))
    /\ \A c \in Cpus, t \in Thread : SF_vars(panic = "" /\ cur[c] = t /\ KernelStep(c))
    /\ WF_vars(panic = "" /\ tick)
FairSpec == Spec /\ Fairness

\* Every RUNNABLE thread of a live process is chosen by scheduler() (or dies).
RunnableRuns ==
    \A t \in Thread :
        /\ tstate[t] = "RUNNABLE" /\ pstate[t[1]] \in {"RUNNABLE", "RUNNING"}
        ~> tstate[t] # "RUNNABLE"

\* exit() completes: once a thread is in it, its process becomes a zombie
\* ("wait until all threads are zombies").
Exiting(p) == \E c \in Cpus : curproc(c) = p /\ pc[c].at = "exit"
ExitCompletes ==
    \A p \in Procs \ {initproc} : Exiting(p) ~> pstate[p] = "ZOMBIE"

\* kill_threads' busy wait ends: a thread that is in it leaves it, or dies
\* ("wait until all other threads are killed").
InExec(t) == (\E c \in Cpus : cur[c] = t /\ pc[c].at = "kill_threads")
             \/ (tstate[t] = "RUNNABLE" /\ ctx[t].at = "kill_threads")
ExecCompletes == \A t \in Thread : InExec(t) ~> ~InExec(t)

=============================================================================
