-------------------------------- MODULE KMutex --------------------------------
(***************************************************************************)
(* The kthread mutexes (proc.c): alloc, dealloc, lock and unlock, and the  *)
(* life of the threads that use them, so far as it touches a mutex or a    *)
(* thread that waits for one: scheduling, creation, exit, kill, exec, wait.*)
(*                                                                         *)
(* Grain of atomicity.  mtable.lock is held from the first check of a call *)
(* to its end, or to the moment the caller is SLEEPING (sleep takes        *)
(* ptable.lock before it lets go of it), so a call is one step, or two     *)
(* with the sleep between them.  A call is entered (syscall) and executed  *)
(* in different steps: in between, others may take the lock first, and the *)
(* caller may be killed.  Any number of threads can be RUNNING; the        *)
(* scheduler itself is the subject of ProcTable.                           *)
(***************************************************************************)
EXTENDS Integers, FiniteSets

CONSTANTS
    NPROC, NTHREAD, MAX_MUTEXES,
    Calls       \* what programs (and other processes) do

Procs == 0 .. NPROC - 1
Tix == 0 .. NTHREAD - 1
Thread == Procs \X Tix
Mutex == 0 .. MAX_MUTEXES - 1

MutexCall == {"alloc", "dealloc", "lock", "unlock"}
Call == MutexCall \cup {"create", "join", "sleep", "kthread_exit", "exit", "exec", "kill"}

ASSUME SizeAssumption ==
    NPROC \in Nat \ {0} /\ NTHREAD \in Nat \ {0} /\ MAX_MUTEXES \in Nat \ {0}
ASSUME CallAssumption == Calls \subseteq Call

State == {"UNUSED", "SLEEPING", "RUNNABLE", "RUNNING", "ZOMBIE"}
NoChan == -1            \* chan = 0; a mutex is its own channel
Other == -2             \* any channel that is not a mutex
Op == MutexCall \cup {"user", "wait", "exit", "exec"}
Frame == [op : Op, m : Mutex \cup {NoChan}]
User == [op |-> "user", m |-> NoChan]

VARIABLES
    allocated, locked, mtid,               \* mtable.mutex
    pstate, pkilled, mid,                  \* struct proc
    tstate, tid, tkilled, blocked, chan,   \* struct thread
    at,                                    \* where the thread is
    holds,  \* history: the pairs of a thread and a mutex it has locked
    home,   \* history: the process that allocated the mutex
    panic

mutexVars == <<allocated, locked, mtid, home>>
procVars == <<pstate, pkilled, mid>>
threadVars == <<tstate, tid, tkilled, blocked, chan>>
vars == <<mutexVars, procVars, threadVars, at, holds, panic>>

TypeOK ==
    /\ allocated \in [Mutex -> BOOLEAN] /\ locked \in [Mutex -> BOOLEAN]
    /\ mtid \in [Mutex -> Tix \cup {-1}]
    /\ pstate \in [Procs -> State] /\ pkilled \in [Procs -> BOOLEAN]
    /\ mid \in [Procs -> SUBSET Mutex]
    /\ tstate \in [Thread -> State] /\ tid \in [Thread -> Tix \cup {-1}]
    /\ tkilled \in [Thread -> BOOLEAN] /\ blocked \in [Thread -> BOOLEAN]
    /\ chan \in [Thread -> Mutex \cup {NoChan, Other}]
    /\ at \in [Thread -> Frame]
    /\ holds \subseteq Thread \X Mutex
    /\ home \in [Mutex -> Procs]
    /\ panic \in BOOLEAN

\* The tables are zero: a mutex not yet allocated has tid 0, as has a thread.
Init ==
    /\ allocated = [m \in Mutex |-> FALSE] /\ locked = [m \in Mutex |-> FALSE]
    /\ mtid = [m \in Mutex |-> 0]
    /\ pstate = [p \in Procs |-> "UNUSED"] /\ pkilled = [p \in Procs |-> FALSE]
    /\ mid = [p \in Procs |-> {}]
    /\ tstate = [t \in Thread |-> "UNUSED"] /\ tid = [t \in Thread |-> 0]
    /\ tkilled = [t \in Thread |-> FALSE] /\ blocked = [t \in Thread |-> FALSE]
    /\ chan = [t \in Thread |-> NoChan]
    /\ at = [t \in Thread |-> User]
    /\ holds = {}
    /\ home = [m \in Mutex |-> 0]
    /\ panic = FALSE

-----------------------------------------------------------------------------
Threads(p) == {t \in Thread : t[1] = p}
Siblings(t) == Threads(t[1]) \ {t}
Gone(s) == s \in {"UNUSED", "ZOMBIE"}
IsLeast(i, S) == i \in S /\ \A j \in S : i <= j
Running(t, op) == tstate[t] = "RUNNING" /\ at[t].op = op
Killed(t) == tkilled[t] \/ pkilled[t[1]]

Return(t) == at' = [at EXCEPT ![t] = User]

\* What a thread held is held by nobody once the thread is dead.
HeldBy(S) == {h \in holds : h[1] \in S}

\* sleep(): the process sleeps when no other thread of it is awake.
sleep(t, ch, fr) ==
    /\ tstate' = [tstate EXCEPT ![t] = "SLEEPING"]
    /\ chan' = [chan EXCEPT ![t] = ch]
    /\ pstate' = [pstate EXCEPT ![t[1]] =
                    IF \E s \in Siblings(t) : tstate[s] \in {"RUNNABLE", "RUNNING"}
                    THEN "RUNNABLE" ELSE "SLEEPING"]
    /\ at' = [at EXCEPT ![t] = fr]

\* clear_thread on every slot of S.
clear_thread(S) ==
    /\ tstate' = [t \in Thread |-> IF t \in S THEN "UNUSED" ELSE tstate[t]]
    /\ tid' = [t \in Thread |-> IF t \in S THEN -1 ELSE tid[t]]
    /\ tkilled' = [t \in Thread |-> tkilled[t] /\ t \notin S]
    /\ blocked' = [t \in Thread |-> blocked[t] /\ t \notin S]
    /\ chan' = [t \in Thread |-> IF t \in S THEN NoChan ELSE chan[t]]
    /\ at' = [t \in Thread |-> IF t \in S THEN User ELSE at[t]]

-----------------------------------------------------------------------------
(***************************************************************************)
(* The mutex calls.                                                        *)
(***************************************************************************)
\* A program that is not killed enters a mutex call.
syscall(t) ==
    /\ Running(t, "user") /\ ~Killed(t)
    /\ \E op \in MutexCall \cap Calls, m \in Mutex :
         at' = [at EXCEPT ![t] = [op |-> op, m |-> IF op = "alloc" THEN NoChan ELSE m]]
    /\ UNCHANGED <<mutexVars, procVars, threadVars, holds, panic>>

kthread_mutex_alloc(t) ==
    /\ Running(t, "alloc")
    /\ \/ \E m \in Mutex :
            /\ IsLeast(m, {n \in Mutex : ~allocated[n]})
            /\ allocated' = [allocated EXCEPT ![m] = TRUE]
            /\ locked' = [locked EXCEPT ![m] = FALSE]
            /\ mtid' = [mtid EXCEPT ![m] = -1]
            /\ mid' = [mid EXCEPT ![t[1]] = @ \cup {m}]
            /\ home' = [home EXCEPT ![m] = t[1]]
       \/ /\ \A m \in Mutex : allocated[m]
          /\ UNCHANGED <<mutexVars, mid>>
    /\ Return(t)
    /\ UNCHANGED <<pstate, pkilled, threadVars, holds, panic>>

\* The checks that dealloc, lock and unlock have in common.
Valid(t, m) == allocated[m] /\ m \in mid[t[1]]

MayDealloc(t, m) == Valid(t, m) /\ ~locked[m]
kthread_mutex_dealloc(t) ==
    /\ Running(t, "dealloc")
    /\ LET m == at[t].m IN
       IF MayDealloc(t, m)
       THEN /\ allocated' = [allocated EXCEPT ![m] = FALSE]
            /\ locked' = [locked EXCEPT ![m] = FALSE]
            /\ mtid' = [mtid EXCEPT ![m] = -1]
            /\ mid' = [mid EXCEPT ![t[1]] = @ \ {m}]
            /\ UNCHANGED home
       ELSE UNCHANGED <<mutexVars, mid>>
    /\ Return(t)
    /\ UNCHANGED <<pstate, pkilled, threadVars, holds, panic>>

\* The end of lock(): a thread still marked blocked panics, any other has it.
Take(t, m) ==
    /\ locked' = [locked EXCEPT ![m] = TRUE]
    /\ mtid' = [mtid EXCEPT ![m] = tid[t]]
lockEnd(t, m) ==
    \/ /\ blocked[t]
       /\ panic' = TRUE
       /\ UNCHANGED <<mutexVars, holds, at>>
    \/ /\ ~blocked[t]
       /\ Take(t, m)
       /\ holds' = holds \cup {<<t, m>>}
       /\ Return(t)
       /\ UNCHANGED <<allocated, home, panic>>

\* (Mutant: the test of the owner is forgotten.)
LockableByOwner(t, m) == Valid(t, m)
Lockable(t, m) == Valid(t, m) /\ mtid[m] # tid[t]
kthread_mutex_lock(t) ==
    /\ Running(t, "lock")
    /\ LET m == at[t].m IN
       \/ /\ ~Lockable(t, m)
          /\ Return(t)
          /\ UNCHANGED <<mutexVars, procVars, threadVars, holds, panic>>
       \/ /\ Lockable(t, m) /\ ~locked[m]
          /\ lockEnd(t, m)
          /\ UNCHANGED <<procVars, threadVars>>
       \/ /\ Lockable(t, m) /\ locked[m]
          /\ blocked' = [blocked EXCEPT ![t] = TRUE]
          /\ sleep(t, m, [op |-> "wait", m |-> m])
          /\ UNCHANGED <<mutexVars, pkilled, mid, tid, tkilled, holds, panic>>

lockResume(t) ==
    /\ Running(t, "wait")
    /\ lockEnd(t, at[t].m)
    /\ UNCHANGED <<procVars, threadVars>>

\* unlock() gives the mutex to the first thread that waits for it in the slots
\* after the caller's, round to the slot before it.
\* (Mutant: the scan starts at slot 0.)
Waiting(t, m) == {i \in Tix : i # t[2] /\ blocked[<<t[1], i>>] /\ chan[<<t[1], i>>] = m}
LowestFirst(k, i) == i
After(k, i) == IF i > k THEN i - k ELSE i + NTHREAD - k
HandOver(t, m, w) ==
    /\ mtid' = [mtid EXCEPT ![m] = tid[w]]
    /\ UNCHANGED locked
Wake(w) ==
    /\ chan' = [chan EXCEPT ![w] = NoChan]
    /\ tstate' = [tstate EXCEPT ![w] = "RUNNABLE"]
    /\ blocked' = [blocked EXCEPT ![w] = FALSE]
\* (Mutant: any thread may unlock.)
UnlockableByAny(t, m) == Valid(t, m)
Unlockable(t, m) == Valid(t, m) /\ mtid[m] = tid[t]
kthread_mutex_unlock(t) ==
    /\ Running(t, "unlock")
    /\ LET m == at[t].m IN
       \/ /\ ~Unlockable(t, m)
          /\ UNCHANGED <<locked, mtid, tstate, blocked, chan, holds>>
       \/ /\ Unlockable(t, m)
          /\ holds' = holds \ {<<t, m>>}
          /\ \/ \E i \in Waiting(t, m) : LET w == <<t[1], i>> IN
                  /\ \A j \in Waiting(t, m) : After(t[2], i) <= After(t[2], j)
                  /\ Wake(w) /\ HandOver(t, m, w)
             \/ /\ Waiting(t, m) = {}
                /\ locked' = [locked EXCEPT ![m] = FALSE]
                /\ mtid' = [mtid EXCEPT ![m] = -1]
                /\ UNCHANGED <<tstate, blocked, chan>>
    /\ Return(t)
    /\ UNCHANGED <<allocated, home, procVars, tid, tkilled, panic>>

-----------------------------------------------------------------------------
(***************************************************************************)
(* Scheduling, and sleeping for something that is not a mutex.             *)
(***************************************************************************)
\* The scheduler runs a thread; sleep() tidies up chan as it resumes.
dispatch(t) ==
    /\ tstate[t] = "RUNNABLE" /\ pstate[t[1]] \in {"RUNNABLE", "RUNNING"}
    /\ tstate' = [tstate EXCEPT ![t] = "RUNNING"]
    /\ pstate' = [pstate EXCEPT ![t[1]] = "RUNNING"]
    /\ chan' = [chan EXCEPT ![t] = NoChan]
    /\ UNCHANGED <<mutexVars, pkilled, mid, tid, tkilled, blocked, at, holds, panic>>

yield(t) ==
    /\ tstate[t] = "RUNNING"
    /\ tstate' = [tstate EXCEPT ![t] = "RUNNABLE"]
    /\ pstate' = [pstate EXCEPT ![t[1]] = "RUNNABLE"]
    /\ UNCHANGED <<mutexVars, pkilled, mid, tid, tkilled, blocked, chan, at, holds, panic>>

sleepOther(t) ==
    /\ "sleep" \in Calls /\ Running(t, "user")
    /\ sleep(t, Other, User)
    /\ UNCHANGED <<mutexVars, pkilled, mid, tid, tkilled, blocked, holds, panic>>

\* wakeup1() on that channel.  (Mutant: the channel is not compared.)
wakeAny(t) ==
    /\ tstate[t] = "SLEEPING"
    /\ tstate' = [tstate EXCEPT ![t] = "RUNNABLE"]
    /\ pstate' = [pstate EXCEPT ![t[1]] = "RUNNABLE"]
    /\ UNCHANGED <<mutexVars, pkilled, mid, tid, tkilled, blocked, chan, at, holds, panic>>
wakeOther(t) ==
    /\ tstate[t] = "SLEEPING" /\ chan[t] = Other
    /\ tstate' = [tstate EXCEPT ![t] = "RUNNABLE"]
    /\ pstate' = [pstate EXCEPT ![t[1]] = "RUNNABLE"]
    /\ UNCHANGED <<mutexVars, pkilled, mid, tid, tkilled, blocked, chan, at, holds, panic>>

-----------------------------------------------------------------------------
(***************************************************************************)
(* Creation and end of threads and processes.  Each call is one step from  *)
(* user mode, or two for exit() and exec(), whose caller waits in between: *)
(* how they are made up of critical sections is the subject of ProcTable.  *)
(* A thread may have entered its call before it was killed, so only the    *)
(* calls whose entry is a step of its own (syscall) look at killed.        *)
(***************************************************************************)
\* allocthread takes the first free slot; its index is the thread's id.
allocthread(p, i) ==
    /\ IsLeast(i, {j \in Tix : tstate[<<p, j>>] = "UNUSED"})
    /\ tstate' = [tstate EXCEPT ![<<p, i>>] = "RUNNABLE"]
    /\ tid' = [tid EXCEPT ![<<p, i>>] = i]

\* fork(), seen from the child: allocproc resets mid, thread 0 is created.
fork(p) ==
    /\ pstate[p] = "UNUSED"
    /\ pstate' = [pstate EXCEPT ![p] = "RUNNABLE"]
    /\ mid' = [mid EXCEPT ![p] = {}]
    /\ \E i \in Tix : allocthread(p, i)
    /\ UNCHANGED <<mutexVars, pkilled, tkilled, blocked, chan, at, holds, panic>>

kthread_create(t) ==
    /\ "create" \in Calls /\ Running(t, "user")
    /\ \E i \in Tix : allocthread(t[1], i)
    /\ UNCHANGED <<mutexVars, procVars, tkilled, blocked, chan, at, holds, panic>>

\* A thread ends, by itself or because it is killed; no mutex is released.
kthread_exit(t) ==
    /\ Running(t, "user") /\ (tkilled[t] \/ "kthread_exit" \in Calls)
    /\ \E s \in Siblings(t) : ~Gone(tstate[s])
    /\ tstate' = [tstate EXCEPT ![t] = "ZOMBIE"]
    /\ pstate' = [pstate EXCEPT ![t[1]] = "RUNNABLE"]
    /\ holds' = holds \ HeldBy({t})
    /\ UNCHANGED <<mutexVars, pkilled, mid, tid, tkilled, blocked, chan, at, panic>>

kthread_join(t) ==
    /\ "join" \in Calls /\ Running(t, "user")
    /\ \E s \in Siblings(t) : /\ tstate[s] = "ZOMBIE" /\ tid[s] = s[2]
                              /\ clear_thread({s})
    /\ UNCHANGED <<mutexVars, procVars, holds, panic>>

exitMark(t) ==
    /\ Running(t, "user")
    /\ \/ "exit" \in Calls \/ pkilled[t[1]]
       \/ /\ tkilled[t] \/ "kthread_exit" \in Calls
          /\ \A s \in Siblings(t) : Gone(tstate[s])
    /\ LET Dead == {s \in Siblings(t) : tstate[s] \in {"RUNNABLE", "SLEEPING"}} IN
       /\ tstate' = [s \in Thread |-> IF s \in Dead THEN "ZOMBIE" ELSE tstate[s]]
       /\ holds' = holds \ HeldBy(Dead)
    /\ tkilled' = [s \in Thread |->
                     tkilled[s] \/ (s \in Siblings(t) /\ tstate[s] # "UNUSED")]
    /\ at' = [at EXCEPT ![t] = [op |-> "exit", m |-> NoChan]]
    /\ UNCHANGED <<mutexVars, procVars, tid, blocked, chan, panic>>

exitEnd(t) ==
    /\ Running(t, "exit") /\ \A s \in Siblings(t) : Gone(tstate[s])
    /\ tstate' = [tstate EXCEPT ![t] = "ZOMBIE"]
    /\ pstate' = [pstate EXCEPT ![t[1]] = "ZOMBIE"]
    /\ holds' = holds \ HeldBy({t})
    /\ UNCHANGED <<mutexVars, pkilled, mid, tid, tkilled, blocked, chan, at, panic>>

allzombies(p) == pstate[p] = "ZOMBIE" \/ \A t \in Threads(p) : Gone(tstate[t])

\* wait() in the parent: the slots are cleared and mid is reset.
wait(p) ==
    /\ pstate[p] # "UNUSED" /\ allzombies(p)
    /\ pstate' = [pstate EXCEPT ![p] = "UNUSED"]
    /\ pkilled' = [pkilled EXCEPT ![p] = FALSE]
    /\ mid' = [mid EXCEPT ![p] = {}]
    /\ clear_thread({t \in Threads(p) : tstate[t] # "UNUSED"})
    /\ holds' = holds \ HeldBy(Threads(p))
    /\ UNCHANGED <<mutexVars, panic>>

\* kill() from another process: of a process that sleeps the first thread wakes.
kill(p) ==
    /\ "kill" \in Calls /\ pstate[p] # "UNUSED"
    /\ pkilled' = [pkilled EXCEPT ![p] = TRUE]
    /\ LET Asleep == {i \in Tix : pstate[p] = "SLEEPING" /\ tstate[<<p, i>>] = "SLEEPING"} IN
       tstate' = [t \in Thread |-> IF t[1] = p /\ IsLeast(t[2], Asleep)
                                   THEN "RUNNABLE" ELSE tstate[t]]
    /\ pstate' = [pstate EXCEPT ![p] = IF @ = "SLEEPING" THEN "RUNNABLE" ELSE @]
    /\ UNCHANGED <<mutexVars, mid, tid, tkilled, blocked, chan, at, holds, panic>>

\* exec(): kill_threads marks and wakes the siblings ...
execMark(t) ==
    /\ "exec" \in Calls /\ Running(t, "user")
    /\ tkilled' = [s \in Thread |->
                     tkilled[s] \/ (s \in Siblings(t) /\ tstate[s] # "UNUSED")]
    /\ tstate' = [s \in Thread |-> IF s[1] = t[1] /\ tstate[s] = "SLEEPING"
                                   THEN "RUNNABLE" ELSE tstate[s]]
    /\ at' = [at EXCEPT ![t] = [op |-> "exec", m |-> NoChan]]
    /\ UNCHANGED <<mutexVars, procVars, tid, blocked, chan, holds, panic>>

\* ... and once they are gone frees their slots and forgets the mutexes.
execEnd(t) ==
    /\ Running(t, "exec") /\ \A s \in Siblings(t) : Gone(tstate[s])
    /\ LET S == {s \in Siblings(t) : tstate[s] = "ZOMBIE"} IN
       /\ tstate' = [s \in Thread |-> IF s \in S THEN "UNUSED" ELSE tstate[s]]
       /\ tid' = [s \in Thread |-> IF s \in S THEN -1 ELSE tid[s]]
       /\ blocked' = [s \in Thread |-> blocked[s] /\ s \notin S]
       /\ at' = [s \in Thread |-> IF s \in S \cup {t} THEN User ELSE at[s]]
    /\ mid' = [mid EXCEPT ![t[1]] = {}]
    /\ UNCHANGED <<mutexVars, pstate, pkilled, tkilled, chan, holds, panic>>

-----------------------------------------------------------------------------
CallStep(t) ==
    \/ kthread_mutex_alloc(t) \/ kthread_mutex_dealloc(t)
    \/ kthread_mutex_lock(t) \/ lockResume(t) \/ kthread_mutex_unlock(t)
LifeStep(t) ==
    \/ kthread_create(t) \/ kthread_exit(t) \/ kthread_join(t)
    \/ exitMark(t) \/ exitEnd(t) \/ execMark(t) \/ execEnd(t)
ThreadStep(t) ==
    \/ syscall(t) \/ CallStep(t) \/ LifeStep(t)
    \/ dispatch(t) \/ yield(t) \/ sleepOther(t) \/ wakeOther(t)

Next ==
    /\ ~panic
    /\ \/ \E t \in Thread : ThreadStep(t)
       \/ \E p \in Procs : fork(p) \/ wait(p) \/ kill(p)

Spec == Init /\ [][Next]_vars

-----------------------------------------------------------------------------
(***************************************************************************)
(* Properties.                                                             *)
(***************************************************************************)

\* Two threads never hold the same mutex: both having returned 0 from
\* kthread_mutex_lock and neither having unlocked it since.
MutualExclusion ==
    \A g, h \in holds : g[2] = h[2] => g = h

\* A thread that is given the mutex by unlock() finds it reserved for it when
\* it wakes, however much later: nobody has locked or freed it meanwhile.
HandOverReserved ==
    \A t \in Thread :
        at[t].op = "wait" /\ ~blocked[t] =>
            /\ allocated[at[t].m] /\ locked[at[t].m]
            /\ mtid[at[t].m] = tid[t] /\ home[at[t].m] = t[1]

\* dealloc relies on it: "if not locked there is no other thread waiting for
\* this mutex".
UnlockedHasNoWaiters ==
    \A t \in Thread : blocked[t] /\ chan[t] \in Mutex => locked[chan[t]]

\* lock() finds the caller blocked after its sleep ("Thread is Blocked") only
\* if kill() or exec() has woken it: whatever else wakes, ends or joins threads,
\* a thread that waits for a mutex wakes when it has been given it.
NoMutexPanic ==
    panic => \E t \in Thread : Running(t, "wait") /\ blocked[t] /\ Killed(t)

\* The stronger claim, that nothing makes lock() panic ("Thread is Blocked"),
\* which kill() and exec() refute.
LockNeverPanics == ~panic

\* Whenever a mutex changes hands, every thread that goes on waiting for it is
\* fewer hand-overs away from its turn than before, so nobody is passed over
\* for ever, whatever ends, joins or wakes the threads meanwhile.
Waiters == [m \in Mutex |-> {t \in Thread : blocked[t] /\ chan[t] = m}]
Turns(k, i) == IF i > k THEN i - k ELSE i + NTHREAD - k
NoOvertaking ==
    [][\A m \in Mutex : mtid'[m] # mtid[m] =>
          \A t \in Waiters[m] \cap Waiters'[m] :
              Turns(mtid'[m], t[2]) < Turns(mtid[m], t[2])]_vars

\* Only the thread that has locked a mutex unlocks it ("make sure calling
\* thread is holding thread").
HolderUnlocks ==
    [][\A t \in Thread, m \in Mutex :
          Running(t, "unlock") /\ at[t].m = m /\ at'[t] = User /\ mtid'[m] # mtid[m] =>
              <<t, m>> \in holds]_vars

\* A thread made a zombie by exit() never runs again.
DeadThreadStaysDead ==
    [][\A t \in Thread : tstate[t] = "ZOMBIE" => Gone(tstate'[t])]_vars

\* When the slot of a process is free again, so are the mutexes it had ("reset
\* all mutexes that are owned by the proc").
MutexesFreed ==
    \A m \in Mutex : allocated[m] => pstate[home[m]] # "UNUSED"

-----------------------------------------------------------------------------
(***************************************************************************)
(* Fairness.  A RUNNABLE thread gets a CPU (RunnableRuns of ProcTable), a  *)
(* thread that gets CPUs again and again gets its call done, and a program *)
(* unlocks what it has locked; whether it locks is up to it.               *)
(***************************************************************************)
Unlocks(t) == syscall(t) /\ at'[t].op = "unlock" /\ <<t, at'[t].m>> \in holds
Fairness ==
    \A t \in Thread : /\ WF_vars(~panic /\ dispatch(t))
                      /\ WF_vars(~panic /\ wakeOther(t))
                      /\ SF_vars(~panic /\ CallStep(t))
                      /\ SF_vars(~panic /\ Unlocks(t))
FairSpec == Spec /\ Fairness

\* No thread that waits for a mutex is passed over for ever: the scan of
\* unlock() starts behind the caller's slot, so everyone's turn comes.
NoStarvation == \A t \in Thread : blocked[t] ~> ~blocked[t]

-----------------------------------------------------------------------------
(***************************************************************************)
(* Refinement.  The owner of mutex m is the thread of its process that has *)
(* the id in m->tid, its waiters are the threads blocked on its channel.   *)
(***************************************************************************)
Nobody == <<-1, -1>>
Owner == [m \in Mutex |-> IF allocated[m] /\ locked[m] THEN <<home[m], mtid[m]>> ELSE Nobody]
Abstract == INSTANCE HandoffMutex WITH
                Clients <- Thread, Mutexes <- Mutex, owner <- Owner, waiters <- Waiters

\* The kthread mutexes implement mutexes that are handed over: a call to lock()
\* or unlock() is one step of them; whatever else happens to the threads, kill,
\* exit and exec included, at most takes waiters away.
ImplementsHandoff == Abstract!Spec
===============================================================================
