--------------------------- MODULE ProcTableProofs ---------------------------
(***************************************************************************)
(* What holds of ProcTable for every number of processes, threads and      *)
(* CPUs, and whatever the programs do: the table is well typed, and        *)
(* ptable.lock is handed over soundly by swtch.                            *)
(*                                                                         *)
(* Neither is inductive alone.  Where a thread resumes is read from the    *)
(* context saved in its slot, so the invariant also says what the saved    *)
(* contexts are: points of a thread (never of the scheduler), and a joiner *)
(* saved with the index of a slot.  Its parts are kept apart because an    *)
(* action changes the table in its own way, but moves its CPU by Jump or   *)
(* by SwitchOut, about which there is one lemma each.                      *)
(***************************************************************************)
EXTENDS ProcTable, TLAPS

ProcOK ==
    /\ pstate \in [Procs -> State]
    /\ pid \in [Procs -> Nat]
    /\ parent \in [Procs -> Procs \cup {NoProc}]
    /\ pkilled \in [Procs -> BOOLEAN]
    /\ cwd \in [Procs -> BOOLEAN]
    /\ nextpid \in Nat

ThreadOK ==
    /\ tstate \in [Thread -> State]
    /\ tid \in [Thread -> Tix \cup {-1}]
    /\ tkilled \in [Thread -> BOOLEAN]
    /\ chan \in [Thread -> Chan]
    /\ kstack \in [Thread -> BOOLEAN]

\* A frame at which a thread can be, with its local if it is in kthread_join.
ThreadFrame(fr) ==
    fr \in Frame /\ fr.at \in Point /\ (fr.at = "join_wait" => fr.x \in Tix)

CtxOK ==
    /\ ctx \in [Thread -> Frame]
    /\ \A t \in Thread : ThreadFrame(ctx[t])

CpuOK ==
    /\ cur \in [Cpus -> Thread \cup {NoThread}]
    /\ pc \in [Cpus -> Frame]
    /\ lk \in Cpus \cup {Free}
    /\ \A c \in Cpus : InThread(c) => cur[c] \in Thread /\ ThreadFrame(pc[c])
    /\ LockHandover

IInv == ProcOK /\ ThreadOK /\ CtxOK /\ CpuOK /\ panic \in Message

\* The inductive invariant has the two properties of interest.
LEMMA IInvImplies == IInv => TypeOK /\ LockHandover
BY DEF IInv, ProcOK, ThreadOK, CtxOK, CpuOK, TypeOK

\* Procs, thread indices and threads, as the provers want them.
LEMMA Slots ==
    /\ 0 \in Procs /\ 0 \in Tix /\ <<0, 0>> \in Thread
    /\ \A t \in Thread : t[1] \in Procs /\ t[2] \in Tix /\ t = <<t[1], t[2]>>
    /\ \A p \in Procs, i \in Tix : <<p, i>> \in Thread
    /\ Procs \subseteq Nat /\ Tix \subseteq Nat
BY SizeAssumption DEF Procs, Tix, Thread

\* The points of a thread are not those of the scheduler.
LEMMA Points ==
    /\ "idle" \notin Point /\ "sched" \notin Point
    /\ LockPoints \subseteq Point /\ SysCall \subseteq Point
    /\ LockPoints \cap SysCall = {}
BY DEF Point, LockPoints, SysCall

-----------------------------------------------------------------------------
\* Zenon proves the steps that name no other prover.
USE Zenon

\* Release and go on: a thread that jumps to a point outside LockPoints
\* leaves every CPU consistent (release(&ptable.lock)).
LEMMA JumpOK ==
    ASSUME CpuOK, NEW c \in Cpus, InThread(c),
           NEW fr \in Frame, fr.at \in Point \ LockPoints, Jump(c, fr)
    PROVE  CpuOK'
<1>1. cur' \in [Cpus -> Thread \cup {NoThread}] /\ pc' \in [Cpus -> Frame] /\ lk' \in Cpus \cup {Free}
  BY DEF CpuOK, Jump
<1>2. ThreadFrame(fr)
  BY DEF ThreadFrame, LockPoints
<1>3. \A d \in Cpus : InThread(d)' => cur'[d] \in Thread /\ ThreadFrame(pc'[d])
  <2> SUFFICES ASSUME NEW d \in Cpus, InThread(d)'
               PROVE  cur'[d] \in Thread /\ ThreadFrame(pc'[d])
    OBVIOUS
  <2>1. CASE d = c
    BY <2>1, <1>2 DEF CpuOK, Jump
  <2>2. CASE d # c
    BY <2>2 DEF CpuOK, Jump, InThread
  <2> QED BY <2>1, <2>2
<1>4. LockHandover'
  <2> SUFFICES ASSUME NEW d \in Cpus
               PROVE  pc'[d].at \in {"sched"} \cup LockPoints <=> lk' = d
    BY DEF LockHandover, LockPoints
  <2>1. CASE d = c
    <3>1. pc'[d] = fr /\ lk' # c
      BY <2>1, CpuAssumption DEF CpuOK, Jump
    <3> QED BY <3>1, <2>1, Points
  <2>2. CASE d # c
    BY <2>2, CpuAssumption, SMT DEF CpuOK, Jump, LockHandover
  <2> QED BY <2>1, <2>2
<1> QED BY <1>1, <1>3, <1>4 DEF CpuOK, ThreadFrame

\* sched(): the frame goes to the slot, the lock to the scheduler.
LEMMA SwitchOutOK ==
    ASSUME CpuOK, CtxOK, NEW c \in Cpus, InThread(c), lk \in {Free, c},
           NEW fr, ThreadFrame(fr), SwitchOut(c, fr)
    PROVE  CpuOK' /\ CtxOK'
<1>0. At("sched") \in Frame
  BY DEF At, Frame
<1>1. cur' \in [Cpus -> Thread \cup {NoThread}] /\ pc' \in [Cpus -> Frame] /\ lk' \in Cpus \cup {Free}
  BY <1>0 DEF CpuOK, SwitchOut
<1>2. CtxOK'
  BY DEF CtxOK, SwitchOut, CpuOK, ThreadFrame
<1>3. \A d \in Cpus : InThread(d)' => cur'[d] \in Thread /\ ThreadFrame(pc'[d])
  BY DEF CpuOK, SwitchOut, InThread, At
<1>4. LockHandover'
  BY CpuAssumption DEF CpuOK, SwitchOut, LockHandover, LockPoints, At
<1> QED BY <1>1, <1>2, <1>3, <1>4 DEF CpuOK, ThreadFrame

\* A step that changes the table within its type, then releases the lock, saving
\* no context; and one that only panics.
LEMMA JumpStep ==
    ASSUME IInv, NEW c \in Cpus, InThread(c), ProcOK', ThreadOK', panic' = panic,
           ctx' = ctx, NEW fr \in Frame, fr.at \in Point \ LockPoints, Jump(c, fr)
    PROVE  IInv'
<1>1. CpuOK'
  BY JumpOK DEF IInv
<1>2. CtxOK'
  BY DEF IInv, CtxOK, ThreadFrame
<1> QED BY <1>1, <1>2 DEF IInv

LEMMA PanicStep ==
    ASSUME IInv, panic' \in Message, UNCHANGED <<procVars, threadVars, cpuVars>>
    PROVE  IInv'
BY DEF IInv, ProcOK, ThreadOK, CtxOK, CpuOK, LockHandover, InThread, ThreadFrame,
       procVars, threadVars, cpuVars

\* Waking keeps the states states (wakeup1).
LEMMA WokenOK ==
    ASSUME NEW ts \in [Thread -> State], NEW ps \in [Procs -> State], NEW ch
    PROVE  /\ WokenThreads(ts, ps, ch) \in [Thread -> State]
           /\ WokenProcs(ts, ps, ch) \in [Procs -> State]
BY DEF WokenThreads, WokenProcs, State

\* Going to sleep on a channel (sleep).
LEMMA SleepStep ==
    ASSUME IInv, NEW c \in Cpus, InThread(c), lk \in {Free, c},
           NEW ts \in [Thread -> State], NEW ch \in Chan, NEW fr, ThreadFrame(fr),
           sleep(c, ts, ch, fr), tkilled' \in [Thread -> BOOLEAN],
           UNCHANGED <<pid, parent, pkilled, cwd, nextpid, tid, kstack, panic>>
    PROVE  IInv'
<1>1. CpuOK' /\ CtxOK'
  BY SwitchOutOK DEF IInv, sleep
<1>2. ThreadOK'
  BY DEF IInv, ThreadOK, sleep, State
<1>3. ProcOK'
  BY DEF IInv, ProcOK, sleep, State
<1> QED BY <1>1, <1>2, <1>3 DEF IInv

\* Freeing thread slots (clear_thread).
LEMMA ClearOK ==
    ASSUME ThreadOK, NEW T, clear_thread(T)
    PROVE  ThreadOK'
BY DEF ThreadOK, clear_thread, State, Chan

\* Taking a slot for a new thread (allocthread up to its release).
LEMMA AllocOK ==
    ASSUME ThreadOK, NEW p, NEW i \in Tix, allocthread(p, i)
    PROVE  ThreadOK'
BY DEF ThreadOK, allocthread, State

\* A frame built at a point with two numbers is a frame.
LEMMA FrameOK ==
    ASSUME NEW l \in Point, NEW a \in Nat, NEW b \in Nat
    PROVE  /\ At(l) \in Frame /\ At(l).at = l
           /\ [At(l) EXCEPT !.x = a] \in Frame /\ [At(l) EXCEPT !.x = a].at = l
           /\ [At(l) EXCEPT !.x = a].x = a
           /\ [At(l) EXCEPT !.y = b] \in Frame /\ [At(l) EXCEPT !.y = b].at = l
           /\ [at |-> l, x |-> a, y |-> b] \in Frame
           /\ l # "join_wait" => ThreadFrame(At(l)) /\ ThreadFrame([At(l) EXCEPT !.x = a])
           /\ a \in Tix => ThreadFrame([At(l) EXCEPT !.x = a])
BY DEF At, Frame, ThreadFrame

LEMMA FrameEq ==
    \A l, n : /\ At(l) = [at |-> l, x |-> 0, y |-> 0]
              /\ [At(l) EXCEPT !.x = n] = [at |-> l, x |-> n, y |-> 0]
              /\ [At(l) EXCEPT !.y = n] = [at |-> l, x |-> 0, y |-> n]
BY SMT DEF At

\* Where a CPU is in a thread, and what it then has.
LEMMA InThreadOK ==
    ASSUME IInv, NEW c \in Cpus, pc[c].at \in Point
    PROVE  /\ InThread(c) /\ cur[c] \in Thread /\ curproc(c) \in Procs
           /\ pc[c].x \in Nat /\ pc[c].y \in Nat /\ ThreadFrame(pc[c])
<1>1. InThread(c)
  BY Points DEF InThread
<1>2. cur[c] \in Thread /\ ThreadFrame(pc[c])
  BY <1>1 DEF IInv, CpuOK
<1> QED BY <1>1, <1>2, Slots DEF curproc, ThreadFrame, Frame

-----------------------------------------------------------------------------
(***************************************************************************)
(* One lemma for every part of the next-state relation.                    *)
(***************************************************************************)

\* The scheduler chooses a thread and switches to it.
LEMMA schedulerStep ==
    ASSUME IInv, NEW c \in Cpus, scheduler(c)
    PROVE  IInv'
<1>1. PICK t \in Thread : swtch(c, t)
  BY DEF scheduler, Candidates, InnerLoop, OuterLoop
<1>2. Scanning(c)
  BY DEF scheduler
<1>3. CASE Panic("switchuvm: no kstack") \/ Panic("zombie exit")
  <2>1. panic' \in Message
    BY <1>3 DEF Panic, Message
  <2>2. UNCHANGED <<procVars, threadVars, cpuVars>>
    BY <1>3 DEF Panic
  <2> QED BY <2>1, <2>2, PanicStep
<1>4. CASE ~(Panic("switchuvm: no kstack") \/ Panic("zombie exit"))
  <2>1. ProcOK'
    BY <1>1, <1>4 DEF swtch, IInv, ProcOK, State
  <2>2. ThreadOK'
    BY <1>1, <1>4 DEF swtch, IInv, ThreadOK, State, Chan
  <2>3. CtxOK' /\ panic' \in Message
    BY <1>1, <1>4 DEF swtch, IInv, CtxOK, ThreadFrame
  <2>4. ctx[t] \in Frame /\ ThreadFrame(ctx[t]) /\ ctx[t].at # "sched"
    BY Points DEF IInv, CtxOK, ThreadFrame
  <2>5. cur' = [cur EXCEPT ![c] = t] /\ pc' = [pc EXCEPT ![c] = ctx[t]]
        /\ lk' = IF ctx[t].at \in LockPoints THEN c ELSE Free
    BY <1>1, <1>4 DEF swtch
  <2>6. cur' \in [Cpus -> Thread \cup {NoThread}] /\ pc' \in [Cpus -> Frame]
        /\ lk' \in Cpus \cup {Free}
    BY <2>4, <2>5 DEF IInv, CpuOK
  <2>7. \A d \in Cpus : InThread(d)' => cur'[d] \in Thread /\ ThreadFrame(pc'[d])
    BY <2>4, <2>5 DEF IInv, CpuOK, InThread
  <2>8. LockHandover'
    <3> SUFFICES ASSUME NEW d \in Cpus
                 PROVE  pc'[d].at \in {"sched"} \cup LockPoints <=> lk' = d
      BY DEF LockHandover, LockPoints
    <3>1. CASE d = c
      BY <3>1, <2>4, <2>5, CpuAssumption DEF IInv, CpuOK
    <3>2. CASE d # c
      <4>1. pc[d].at \notin {"sched"} \cup LockPoints
        BY <3>2, <1>2, CpuAssumption DEF IInv, CpuOK, LockHandover, Scanning
      <4> QED BY <4>1, <3>2, <2>5, CpuAssumption DEF IInv, CpuOK
    <3> QED BY <3>1, <3>2
  <2> QED BY <2>1, <2>2, <2>3, <2>6, <2>7, <2>8 DEF IInv, CpuOK, ThreadFrame
<1> QED BY <1>3, <1>4

\* At the end of the table it releases the lock.
LEMMA schedulerEndStep ==
    ASSUME IInv, NEW c \in Cpus, schedulerEnd(c)
    PROVE  IInv'
<1>1. ProcOK' /\ ThreadOK' /\ CtxOK' /\ panic' \in Message
  BY DEF IInv, ProcOK, ThreadOK, CtxOK, ThreadFrame, schedulerEnd, procVars, threadVars
<1>2. At("idle") \in Frame /\ At("idle").at = "idle"
  BY DEF At, Frame
<1>3. pc' = [pc EXCEPT ![c] = At("idle")] /\ cur' = [cur EXCEPT ![c] = NoThread]
      /\ lk' = Free /\ Scanning(c)
  BY DEF schedulerEnd
<1>4. cur' \in [Cpus -> Thread \cup {NoThread}] /\ pc' \in [Cpus -> Frame]
      /\ lk' \in Cpus \cup {Free}
  BY <1>2, <1>3 DEF IInv, CpuOK
<1>5. \A d \in Cpus : InThread(d)' => cur'[d] \in Thread /\ ThreadFrame(pc'[d])
  BY <1>2, <1>3 DEF IInv, CpuOK, InThread
<1>6. LockHandover'
  BY <1>2, <1>3, CpuAssumption DEF IInv, CpuOK, LockHandover, LockPoints, Scanning
<1> QED BY <1>1, <1>4, <1>5, <1>6 DEF IInv, CpuOK, ThreadFrame

\* The timer: a thread is preempted, sleepers on ticks are woken.
LEMMA yieldStep ==
    ASSUME IInv, NEW c \in Cpus, yield(c)
    PROVE  IInv'
<1>1. InThread(c) /\ lk \in {Free, c}
  BY DEF yield, Preempted
<1>2. ThreadFrame(At("ret")) /\ ThreadFrame(pc[c])
  BY <1>1, FrameOK DEF Point, IInv, CpuOK
<1>3. CpuOK' /\ CtxOK'
  <2> DEFINE fr == IF pc[c].at = "user" THEN At("ret") ELSE pc[c]
  <2>1. ThreadFrame(fr) /\ SwitchOut(c, fr)
    BY <1>2 DEF yield
  <2> HIDE DEF fr
  <2> QED BY <2>1, <1>1, SwitchOutOK DEF IInv
<1>4. ProcOK'
  BY DEF IInv, yield, ProcOK, State
<1>5. ThreadOK'
  BY DEF IInv, yield, ThreadOK, State
<1> QED BY <1>3, <1>4, <1>5 DEF IInv, yield

LEMMA tickStep ==
    ASSUME IInv, tick
    PROVE  IInv'
<1>1. tstate' \in [Thread -> State] /\ pstate' \in [Procs -> State]
  BY WokenOK DEF IInv, tick, ProcOK, ThreadOK
<1>2. ProcOK'
  BY <1>1 DEF IInv, tick, ProcOK
<1>3. ThreadOK'
  BY <1>1 DEF IInv, tick, ThreadOK
<1>4. CtxOK' /\ CpuOK' /\ panic' \in Message
  BY DEF IInv, tick, CtxOK, CpuOK, LockHandover, InThread, ThreadFrame, cpuVars
<1> QED BY <1>2, <1>3, <1>4 DEF IInv
\* Entering and leaving the kernel.
LEMMA trapStep ==
    ASSUME IInv, NEW c \in Cpus, trapret(c) \/ syscall(c) \/ fault(c)
    PROVE  IInv'
<1>1. pc[c].at \in Point
  BY DEF trapret, syscall, fault, Unlocked, Point, SysCall
<1>2. InThread(c) /\ curproc(c) \in Procs
  BY <1>1, InThreadOK
<1>3. PICK l \in SysCall \cup {"ret", "user"} : Jump(c, At(l))
  <2>1. CASE trapret(c)
    BY <2>1 DEF trapret, SysCall
  <2>2. CASE syscall(c)
    BY <2>2, <1>2, ProgAssumption DEF syscall
  <2>3. CASE fault(c)
    BY <2>3 DEF fault
  <2> QED BY <2>1, <2>2, <2>3
<1>4. l \in Point \ LockPoints
  BY DEF Point, LockPoints, SysCall
<1>5. At(l) \in Frame /\ At(l).at = l
  BY <1>4, FrameOK, 0 \in Nat
<1>6. ProcOK' /\ ThreadOK' /\ panic' = panic /\ ctx' = ctx
  BY DEF IInv, ProcOK, ThreadOK, trapret, syscall, fault, procVars, threadVars
<1> QED BY <1>2, <1>3, <1>4, <1>5, <1>6, JumpStep

\* fork, step by step.
LEMMA allocprocStep ==
    ASSUME IInv, NEW c \in Cpus, allocproc(c) \/ allocprocEmbryo(c) \/ allocprocPid(c)
    PROVE  IInv'
<1>1. pc[c].at \in Point
  BY DEF allocproc, allocprocEmbryo, allocprocPid, Locked, Unlocked, Point, SysCall
<1>2. InThread(c) /\ pc[c].x \in Nat /\ pc[c].y \in Nat
  BY <1>1, InThreadOK
<1>3. ThreadOK' /\ panic' = panic /\ ctx' = ctx
  BY DEF IInv, ThreadOK, allocproc, allocprocEmbryo, allocprocPid, threadVars
<1>4. ProcOK'
  BY <1>2, SMT DEF IInv, ProcOK, allocproc, allocprocEmbryo, allocprocPid, procVars, State
<1>5. PICK l \in {"embryo", "pid", "fork_thread", "ret"}, a \in Nat, b \in Nat :
          Jump(c, [at |-> l, x |-> a, y |-> b])
  <2>1. CASE allocproc(c)
    <3>1. CASE Jump(c, At("ret"))
      BY <3>1, 0 \in Nat DEF At
    <3>2. CASE \E p \in Procs : Jump(c, [At("embryo") EXCEPT !.x = p])
      BY <3>2, Slots, 0 \in Nat, SMT DEF At
    <3> QED BY <2>1, <3>1, <3>2 DEF allocproc
  <2>2. CASE allocprocEmbryo(c)
    BY <2>2, <1>2 DEF allocprocEmbryo, IInv, ProcOK
  <2>3. CASE allocprocPid(c)
    <3>1. [At("fork_thread") EXCEPT !.x = pc[c].x]
            = [at |-> "fork_thread", x |-> pc[c].x, y |-> 0]
      BY SMT DEF At
    <3> QED BY <2>3, <3>1, <1>2, 0 \in Nat, ZenonT(40) DEF allocprocPid
  <2> QED BY <2>1, <2>2, <2>3
<1>6. [at |-> l, x |-> a, y |-> b] \in Frame /\ l \in Point \ LockPoints
  BY DEF Point, LockPoints, Frame
<1> QED BY <1>2, <1>3, <1>4, <1>5, <1>6, JumpStep

LEMMA forkThreadStep ==
    ASSUME IInv, NEW c \in Cpus, forkThread(c)
    PROVE  IInv'
<1>1. pc[c].at \in Point
  BY DEF forkThread, Locked, Point
<1>2. InThread(c) /\ pc[c].x \in Nat
  BY <1>1, InThreadOK
<1>3. panic' = panic /\ ctx' = ctx
  BY DEF forkThread
<1>4. ProcOK'
  BY DEF IInv, ProcOK, forkThread, State
<1>5. ThreadOK'
  BY AllocOK DEF IInv, forkThread, ThreadOK, threadVars
<1>6. PICK l \in {"fork_kstack", "ret"}, a \in Nat, b \in Nat :
          Jump(c, [at |-> l, x |-> a, y |-> b])
  BY <1>2, Slots, 0 \in Nat DEF forkThread, At
<1>7. [at |-> l, x |-> a, y |-> b] \in Frame /\ l \in Point \ LockPoints
  BY DEF Point, LockPoints, Frame
<1> QED BY <1>2, <1>3, <1>4, <1>5, <1>6, <1>7, JumpStep
\* allocthread's stack and context, or the slot given back.
LEMMA KallocOK ==
    ASSUME ThreadOK, CtxOK, NEW t, kallocOK(t) \/ kallocFailed(t),
           UNCHANGED <<tid, tkilled, chan>>
    PROVE  ThreadOK' /\ CtxOK'
<1>1. ThreadFrame(At("user"))
  BY DEF ThreadFrame, At, Frame, Point
<1>2. ThreadOK'
  BY DEF ThreadOK, kallocOK, kallocFailed, State
<1>3. CtxOK'
  BY <1>1 DEF CtxOK, kallocOK, kallocFailed, ThreadFrame
<1> QED BY <1>2, <1>3

LEMMA kstackStep ==
    ASSUME IInv, NEW c \in Cpus, forkKstack(c) \/ createKstack(c)
    PROVE  IInv'
<1>1. pc[c].at \in Point
  BY DEF forkKstack, createKstack, Unlocked, Point
<1>2. InThread(c) /\ pc[c].x \in Nat /\ pc[c].y \in Nat
  BY <1>1, InThreadOK
<1>3. ThreadOK' /\ CtxOK'
  <2>1. PICK t : kallocOK(t) \/ kallocFailed(t)
    BY DEF forkKstack, createKstack
  <2> QED BY <2>1, KallocOK DEF IInv, forkKstack, createKstack
<1>4. ProcOK'
  BY DEF IInv, ProcOK, forkKstack, createKstack, State, procVars
<1>5. PICK l \in {"copyuvm", "create_run", "ret"}, a \in Nat, b \in Nat :
          Jump(c, [at |-> l, x |-> a, y |-> b])
  <2>1. CASE forkKstack(c)
    <3>1. CASE Jump(c, [At("copyuvm") EXCEPT !.x = pc[c].x])
      <4>1. [At("copyuvm") EXCEPT !.x = pc[c].x]
              = [at |-> "copyuvm", x |-> pc[c].x, y |-> 0]
        BY SMT DEF At
      <4> QED BY <3>1, <4>1, <1>2, 0 \in Nat
    <3>2. CASE Jump(c, At("ret"))
      BY <3>2, 0 \in Nat, FrameEq, SMT
    <3> QED BY <2>1, <3>1, <3>2, SMTT(30) DEF forkKstack
  <2>2. CASE createKstack(c)
    BY <2>2, <1>2, 0 \in Nat, FrameEq, SMTT(30) DEF createKstack
  <2> QED BY <2>1, <2>2
<1>6. [at |-> l, x |-> a, y |-> b] \in Frame /\ l \in Point \ LockPoints
  BY DEF Point, LockPoints, Frame
<1>7. CpuOK'
  BY <1>2, <1>5, <1>6, JumpOK DEF IInv
<1> QED BY <1>3, <1>4, <1>7 DEF IInv, forkKstack, createKstack

LEMMA forkEndStep ==
    ASSUME IInv, NEW c \in Cpus, forkCopy(c) \/ forkRun(c) \/ forkDone(c)
    PROVE  IInv'
<1>1. pc[c].at \in Point
  BY DEF forkCopy, forkRun, forkDone, Locked, Unlocked, Point
<1>2. InThread(c) /\ pc[c].x \in Nat /\ curproc(c) \in Procs
  BY <1>1, InThreadOK
<1>3. panic' = panic /\ ctx' = ctx
  BY DEF forkCopy, forkRun, forkDone
<1>4. ProcOK'
  BY <1>2, ZenonT(40) DEF IInv, ProcOK, forkCopy, forkRun, forkDone, State, procVars
<1>5. ThreadOK'
  BY DEF IInv, ThreadOK, forkCopy, forkRun, forkDone, State, threadVars
<1>6. PICK l \in {"fork_run", "fork_done", "ret"}, a \in Nat, b \in Nat :
          Jump(c, [at |-> l, x |-> a, y |-> b])
  BY <1>2, 0 \in Nat, FrameEq, SMTT(30) DEF forkCopy, forkRun, forkDone
<1>7. [at |-> l, x |-> a, y |-> b] \in Frame /\ l \in Point \ LockPoints
  BY DEF Point, LockPoints, Frame
<1> QED BY <1>2, <1>3, <1>4, <1>5, <1>6, <1>7, JumpStep

\* kthread_create.
LEMMA createStep ==
    ASSUME IInv, NEW c \in Cpus, createThread(c) \/ createRun(c)
    PROVE  IInv'
<1>1. pc[c].at \in Point
  BY DEF createThread, createRun, Locked, Point, SysCall
<1>2. InThread(c)
  BY <1>1, InThreadOK
<1>3. ProcOK' /\ panic' = panic /\ ctx' = ctx
  BY DEF IInv, ProcOK, createThread, createRun, procVars
<1>4. ThreadOK'
  <2>1. CASE createThread(c)
    BY <2>1, AllocOK DEF IInv, createThread, ThreadOK, threadVars
  <2>2. CASE createRun(c)
    BY <2>2 DEF IInv, createRun, ThreadOK, State
  <2> QED BY <2>1, <2>2
<1>5. PICK l \in {"create_kstack", "ret"}, b \in Nat :
          Jump(c, [at |-> l, x |-> 0, y |-> b])
  BY Slots, 0 \in Nat, SMT DEF createThread, createRun, At
<1>6. [at |-> l, x |-> 0, y |-> b] \in Frame /\ l \in Point \ LockPoints
  BY DEF Point, LockPoints, Frame
<1> QED BY <1>2, <1>3, <1>4, <1>5, <1>6, JumpStep
\* kthread_exit: the first critical section, then sched().
LEMMA kexitZombieStep ==
    ASSUME IInv, NEW c \in Cpus, kexitZombie(c)
    PROVE  IInv'
<1>1. pc[c].at \in Point
  BY DEF kexitZombie, Locked, Point, SysCall
<1>2. InThread(c) /\ cur[c] \in Thread
  BY <1>1, InThreadOK
<1>3. /\ WokenThreads(tstate, pstate, ThreadChan(cur[c])) \in [Thread -> State]
      /\ WokenProcs(tstate, pstate, ThreadChan(cur[c])) \in [Procs -> State]
  BY WokenOK DEF IInv, ProcOK, ThreadOK
<1>4. ProcOK'
  BY <1>3 DEF IInv, ProcOK, kexitZombie
<1>5. ThreadOK'
  BY <1>3, ZenonT(40) DEF IInv, ThreadOK, kexitZombie, State
<1>6. PICK l \in {"exit", "kexit_sched"} : Jump(c, At(l))
  BY DEF kexitZombie
<1>7. At(l) \in Frame /\ At(l).at = l /\ l \in Point \ LockPoints
  BY DEF Point, LockPoints, SysCall, Frame, At
<1> QED BY <1>2, <1>4, <1>5, <1>6, <1>7, JumpStep DEF kexitZombie

LEMMA kexitSchedStep ==
    ASSUME IInv, NEW c \in Cpus, kexitSched(c)
    PROVE  IInv'
<1>1. pc[c].at \in Point /\ lk \in {Free, c}
  BY DEF kexitSched, Locked, Point
<1>2. CASE tstate[cur[c]] = "RUNNING"
  <2>1. panic' \in Message /\ UNCHANGED <<procVars, threadVars, cpuVars>>
    BY <1>2 DEF kexitSched, Panic, Message
  <2> QED BY <2>1, PanicStep
<1>3. CASE tstate[cur[c]] # "RUNNING"
  <2>1. ThreadFrame(At("zombie"))
    BY DEF ThreadFrame, At, Frame, Point
  <2>2. CpuOK' /\ CtxOK'
    BY <1>1, <1>3, <2>1, InThreadOK, SwitchOutOK DEF IInv, kexitSched
  <2>3. ProcOK'
    BY <1>3 DEF IInv, ProcOK, kexitSched, State
  <2>4. ThreadOK' /\ panic' \in Message
    BY <1>3 DEF IInv, ThreadOK, kexitSched, threadVars
  <2> QED BY <2>2, <2>3, <2>4 DEF IInv
<1> QED BY <1>2, <1>3

\* kthread_join: a round of its loop, on entry and after each sleep.
LEMMA joinRoundStep ==
    ASSUME IInv, NEW c \in Cpus, pc[c].at \in Point, lk \in {Free, c},
           NEW i \in Tix, joinRound(c, <<curproc(c), i>>)
    PROVE  IInv'
<1> DEFINE t == <<curproc(c), i>>
<1>1. InThread(c) /\ t \in Thread /\ t[2] = i
  BY InThreadOK, Slots
<1>2. At("ret") \in Frame /\ At("ret").at = "ret" /\ "ret" \in Point \ LockPoints
  BY DEF At, Frame, Point, LockPoints
<1>3. CASE clear_thread({t}) /\ Jump(c, At("ret")) /\ UNCHANGED <<procVars, ctx, panic>>
  <2>1. ThreadOK' /\ ProcOK'
    BY <1>3, ClearOK DEF IInv, ProcOK, procVars
  <2> QED BY <2>1, <1>1, <1>2, <1>3, JumpStep
<1>4. CASE Jump(c, At("ret")) /\ UNCHANGED <<procVars, threadVars, ctx, panic>>
  <2>1. ThreadOK' /\ ProcOK'
    BY <1>4 DEF IInv, ProcOK, ThreadOK, procVars, threadVars
  <2> QED BY <2>1, <1>1, <1>2, <1>4, JumpStep
<1>5. CASE /\ sleep(c, tstate, ThreadChan(t), [At("join_wait") EXCEPT !.x = t[2]])
           /\ UNCHANGED <<pid, parent, pkilled, cwd, nextpid, tid, tkilled, kstack, panic>>
  <2>1. ThreadChan(t) \in Chan
    BY <1>1 DEF Chan
  <2>2. ThreadFrame([At("join_wait") EXCEPT !.x = t[2]])
    BY <1>1, Slots, FrameEq, SMT DEF ThreadFrame, Frame, Point
  <2>3. tstate \in [Thread -> State] /\ tkilled' \in [Thread -> BOOLEAN]
    BY <1>5 DEF IInv, ThreadOK
  <2> HIDE DEF t
  <2> QED BY <1>1, <1>5, <2>1, <2>2, <2>3, SleepStep
<1> QED BY <1>3, <1>4, <1>5 DEF joinRound

LEMMA joinStep ==
    ASSUME IInv, NEW c \in Cpus, kthread_join(c)
    PROVE  IInv'
<1>1. CASE joinFirst(c)
  <2>1. pc[c].at \in Point /\ lk \in {Free, c}
    BY <1>1 DEF joinFirst, Locked, Point, SysCall
  <2>2. CASE \E i \in Tix : joinRound(c, <<curproc(c), i>>)
    BY <2>1, <2>2, joinRoundStep
  <2>3. CASE Jump(c, At("ret")) /\ UNCHANGED <<procVars, threadVars, ctx, panic>>
    <3>1. At("ret") \in Frame /\ At("ret").at \in Point \ LockPoints
      BY DEF At, Frame, Point, LockPoints
    <3>2. ThreadOK' /\ ProcOK'
      BY <2>3 DEF IInv, ProcOK, ThreadOK, procVars, threadVars
    <3>3. InThread(c)
      BY <2>1, InThreadOK
    <3> QED BY <2>3, <3>1, <3>2, <3>3, JumpStep
  <2> QED BY <1>1, <2>2, <2>3 DEF joinFirst
<1>2. CASE joinAgain(c)
  <2>1. pc[c].at \in Point /\ lk \in {Free, c} /\ pc[c].at = "join_wait"
    BY <1>2 DEF joinAgain, Locked, Point
  <2>2. pc[c].x \in Tix
    BY <2>1, InThreadOK DEF ThreadFrame
  <2> QED BY <1>2, <2>1, <2>2, joinRoundStep DEF joinAgain
<1> QED BY <1>1, <1>2 DEF kthread_join
\* exit: marking the siblings and waiting for them.
LEMMA exitLoopStep ==
    ASSUME IInv, NEW c \in Cpus, pc[c].at \in Point, lk \in {Free, c},
           NEW i \in Nat, NEW ts \in [Thread -> State], exitLoop(c, i, ts),
           tkilled' \in [Thread -> BOOLEAN],
           UNCHANGED <<pid, parent, pkilled, cwd, nextpid, tid, kstack, panic>>
    PROVE  IInv'
<1>1. InThread(c) /\ curproc(c) \in Procs
  BY InThreadOK
<1>2. CASE \E j \in Tix : sleep(c, ts, ThreadChan(<<curproc(c), j>>),
                                [At("exit_wait") EXCEPT !.x = j])
  <2>1. PICK j \in Tix : sleep(c, ts, ThreadChan(<<curproc(c), j>>),
                               [At("exit_wait") EXCEPT !.x = j])
    BY <1>2
  <2>2. ThreadChan(<<curproc(c), j>>) \in Chan
    BY <1>1, Slots DEF Chan
  <2>3. ThreadFrame([At("exit_wait") EXCEPT !.x = j])
    BY Slots, FrameEq, SMT DEF ThreadFrame, Frame, Point
  <2> QED BY <1>1, <2>1, <2>2, <2>3, SleepStep
<1>3. CASE tstate' = ts /\ Jump(c, At("exit_close")) /\ UNCHANGED <<pstate, chan, ctx>>
  <2>1. At("exit_close") \in Frame /\ At("exit_close").at \in Point \ LockPoints
    BY DEF At, Frame, Point, LockPoints
  <2>2. ThreadOK' /\ ProcOK'
    BY <1>3 DEF IInv, ProcOK, ThreadOK
  <2> QED BY <1>1, <1>3, <2>1, <2>2, JumpStep, SMTT(30)
<1> QED BY <1>2, <1>3, ZenonT(40) DEF exitLoop

LEMMA exitWaitStep ==
    ASSUME IInv, NEW c \in Cpus, exitMark(c) \/ exitWait(c)
    PROVE  IInv'
<1>1. pc[c].at \in Point /\ lk \in {Free, c}
  BY DEF exitMark, exitWait, Locked, Point, SysCall
<1>2. CASE exitMark(c)
  <2> DEFINE ts == [t \in Thread |->
                      IF t \in Siblings(c) /\ tstate[t] \in {"RUNNABLE", "SLEEPING"}
                      THEN "ZOMBIE" ELSE tstate[t]]
  <2>1. ts \in [Thread -> State]
    BY DEF IInv, ThreadOK, State
  <2>2. tkilled' \in [Thread -> BOOLEAN]
    BY <1>2, SMTT(30) DEF exitMark, IInv, ThreadOK
  <2>3. exitLoop(c, 0, ts)
    BY <1>2 DEF exitMark
  <2>4. UNCHANGED <<pid, parent, pkilled, cwd, nextpid, tid, kstack, panic>>
    BY <1>2, SMTT(30) DEF exitMark
  <2> HIDE DEF ts
  <2> QED BY <1>1, <2>1, <2>2, <2>3, <2>4, exitLoopStep, 0 \in Nat
<1>3. CASE exitWait(c)
  <2>1. pc[c].x + 1 \in Nat
    BY <1>1, InThreadOK, SMT
  <2>2. tstate \in [Thread -> State] /\ tkilled' \in [Thread -> BOOLEAN]
    BY <1>3 DEF exitWait, IInv, ThreadOK
  <2> QED BY <1>1, <1>3, <2>1, <2>2, exitLoopStep, SMTT(30) DEF exitWait
<1> QED BY <1>2, <1>3

LEMMA exitCloseStep ==
    ASSUME IInv, NEW c \in Cpus, exitClose(c)
    PROVE  IInv'
<1>1. CASE curproc(c) = initproc \/ ~cwd[curproc(c)]
  <2>1. panic' \in Message /\ UNCHANGED <<procVars, threadVars, cpuVars>>
    BY <1>1 DEF exitClose, Panic, Message
  <2> QED BY <2>1, PanicStep
<1>2. CASE ~(curproc(c) = initproc \/ ~cwd[curproc(c)])
  <2>1. At("exit_sched") \in Frame /\ At("exit_sched").at \in Point \ LockPoints
    BY DEF At, Frame, Point, LockPoints
  <2>2. InThread(c)
    BY InThreadOK DEF exitClose, Unlocked, Point
  <2>3. ThreadOK' /\ ProcOK'
    BY <1>2 DEF IInv, ProcOK, ThreadOK, exitClose, threadVars
  <2> QED BY <1>2, <2>1, <2>2, <2>3, JumpStep DEF exitClose
<1> QED BY <1>1, <1>2
\* exit's end: orphans go to init, the parent is woken, sched() for good.
LEMMA exitSchedStep ==
    ASSUME IInv, NEW c \in Cpus, exitSched(c)
    PROVE  IInv'
<1> DEFINE p == curproc(c)
           orphan == \E q \in Children(p) : pstate[q] = "ZOMBIE"
           ch == IF orphan THEN ProcChan(initproc) ELSE NoChan
           ts1 == IF orphan THEN WokenThreads(tstate, pstate, ch) ELSE tstate
           ps1 == IF orphan THEN WokenProcs(tstate, pstate, ch) ELSE pstate
           up == ProcChan(parent[p])
<1>1. pc[c].at \in Point /\ lk \in {Free, c}
  BY SMTT(30) DEF exitSched, Locked, Point
<1>2. InThread(c) /\ ThreadFrame(At("zombie"))
  BY <1>1, InThreadOK, SMTT(30) DEF ThreadFrame, At, Frame, Point
<1>3. CpuOK' /\ CtxOK'
  BY <1>1, <1>2, SwitchOutOK DEF IInv, exitSched
<1>4. tstate \in [Thread -> State] /\ pstate \in [Procs -> State]
  BY DEF IInv, ProcOK, ThreadOK
<1>5. ts1 \in [Thread -> State] /\ ps1 \in [Procs -> State]
  BY <1>4, WokenOK, SMTT(30)
<1>6. /\ tstate' = [WokenThreads(ts1, ps1, up) EXCEPT ![cur[c]] = "ZOMBIE"]
      /\ pstate' = [WokenProcs(ts1, ps1, up) EXCEPT ![p] = "ZOMBIE"]
  BY ZenonT(40) DEF exitSched
<1>7. parent' \in [Procs -> Procs \cup {NoProc}]
  BY Slots DEF exitSched, IInv, ProcOK, initproc
<1> HIDE DEF ts1, ps1, up
<1>8. /\ WokenThreads(ts1, ps1, up) \in [Thread -> State]
      /\ WokenProcs(ts1, ps1, up) \in [Procs -> State]
  BY <1>5, WokenOK, SMTT(30)
<1>9. ThreadOK' /\ ProcOK' /\ panic' = panic
  BY <1>6, <1>7, <1>8, ZenonT(80) DEF IInv, ThreadOK, ProcOK, exitSched, State
<1> QED BY <1>3, <1>9, SMTT(30) DEF IInv

\* wait: reap a child, give up, or sleep.
LEMMA waitStep ==
    ASSUME IInv, NEW c \in Cpus, wait(c)
    PROVE  IInv'
<1>1. pc[c].at \in Point /\ lk \in {Free, c}
  BY ZenonT(40) DEF wait, Locked, Point, SysCall
<1>2. InThread(c) /\ curproc(c) \in Procs
  BY <1>1, InThreadOK
<1>3. At("ret") \in Frame /\ At("ret").at \in Point \ LockPoints
  BY DEF At, Frame, Point, LockPoints
<1>4. CASE \E p \in Procs :
              /\ clear_thread({t \in ThreadsOf(p) : tstate[t] # "UNUSED"})
              /\ pid' = [pid EXCEPT ![p] = 0]
              /\ parent' = [parent EXCEPT ![p] = NoProc]
              /\ pkilled' = [pkilled EXCEPT ![p] = FALSE]
              /\ pstate' = [pstate EXCEPT ![p] = "UNUSED"]
              /\ Jump(c, At("ret"))
              /\ UNCHANGED <<cwd, nextpid, ctx, panic>>
  <2>1. ThreadOK'
    BY <1>4, ClearOK DEF IInv
  <2>2. ProcOK'
    BY <1>4, SMT DEF IInv, ProcOK, State
  <2> QED BY <1>2, <1>3, <1>4, <2>1, <2>2, JumpStep
<1>5. CASE Jump(c, At("ret")) /\ UNCHANGED <<procVars, threadVars, ctx, panic>>
  <2>1. ThreadOK' /\ ProcOK'
    BY <1>5 DEF IInv, ProcOK, ThreadOK, procVars, threadVars
  <2> QED BY <1>2, <1>3, <1>5, <2>1, JumpStep
<1>6. CASE /\ sleep(c, tstate, ProcChan(curproc(c)), At("wait_wait"))
           /\ UNCHANGED <<pid, parent, pkilled, cwd, nextpid, tid, tkilled, kstack, panic>>
  <2>1. ProcChan(curproc(c)) \in Chan /\ ThreadFrame(At("wait_wait"))
    BY <1>2 DEF Chan, ThreadFrame, At, Frame, Point
  <2>2. tstate \in [Thread -> State] /\ tkilled' \in [Thread -> BOOLEAN]
    BY <1>6 DEF IInv, ThreadOK
  <2> QED BY <1>1, <1>2, <1>6, <2>1, <2>2, SleepStep
<1> QED BY <1>4, <1>5, <1>6 DEF wait

\* kill.
LEMMA killStep ==
    ASSUME IInv, NEW c \in Cpus, kill(c)
    PROVE  IInv'
<1>1. InThread(c)
  BY InThreadOK, SMTT(30) DEF kill, Locked, Point, SysCall
<1>2. At("ret") \in Frame /\ At("ret").at \in Point \ LockPoints
  BY DEF At, Frame, Point, LockPoints
<1>3. ThreadOK'
  BY DEF IInv, ThreadOK, kill, State
<1>4. ProcOK'
  BY DEF IInv, ProcOK, kill, State
<1> QED BY <1>1, <1>2, <1>3, <1>4, JumpStep DEF kill
\* sys_sleep.
LEMMA sleepCallStep ==
    ASSUME IInv, NEW c \in Cpus, sys_sleep(c)
    PROVE  IInv'
<1>1. CASE sleepTest(c)
  <2>1. InThread(c)
    BY <1>1 DEF sleepTest, Unlocked, InThread
  <2>2. PICK l \in {"ret", "ticks"} : Jump(c, At(l))
    BY <1>1 DEF sleepTest
  <2>3. At(l) \in Frame /\ At(l).at \in Point \ LockPoints
    BY DEF At, Frame, Point, LockPoints
  <2>4. ThreadOK' /\ ProcOK' /\ ctx' = ctx /\ panic' = panic
    BY <1>1 DEF sleepTest, IInv, ProcOK, ThreadOK, procVars, threadVars
  <2> QED BY <2>1, <2>2, <2>3, <2>4, JumpStep
<1>2. CASE sleepTicks(c)
  <2>1. pc[c].at \in Point /\ lk \in {Free, c}
    BY <1>2 DEF sleepTicks, Locked, Point
  <2>2. InThread(c)
    BY <2>1, InThreadOK
  <2>3. Ticks \in Chan /\ ThreadFrame(At("sleep"))
    BY DEF Chan, ThreadFrame, At, Frame, Point, SysCall
  <2>4. tstate \in [Thread -> State] /\ tkilled' \in [Thread -> BOOLEAN]
    BY <1>2 DEF sleepTicks, IInv, ThreadOK
  <2> QED BY <1>2, <2>1, <2>2, <2>3, <2>4, SleepStep DEF sleepTicks
<1> QED BY <1>1, <1>2 DEF sys_sleep

\* exec's kill_threads.
LEMMA execStep ==
    ASSUME IInv, NEW c \in Cpus, exec(c)
    PROVE  IInv'
<1>1. InThread(c)
  BY InThreadOK DEF exec, execMark, execSpin, Locked, Point, SysCall
<1>2. PICK l \in {"ret", "kill_threads"} : Jump(c, At(l))
  BY DEF exec, execMark, execSpin
<1>3. At(l) \in Frame /\ At(l).at \in Point \ LockPoints
  BY DEF At, Frame, Point, LockPoints
<1>4. ProcOK' /\ panic' = panic /\ ctx' = ctx
  BY DEF IInv, ProcOK, exec, execMark, execSpin, procVars
<1>5. ThreadOK'
  <2>1. CASE execMark(c)
    BY <2>1 DEF execMark, IInv, ThreadOK, State
  <2>2. CASE execSpin(c)
    BY <2>2 DEF execSpin, IInv, ThreadOK, State
  <2> QED BY <2>1, <2>2 DEF exec
<1> QED BY <1>1, <1>2, <1>3, <1>4, <1>5, JumpStep

\* The kernel panics when a CPU stands on freed memory.
LEMMA junkStep ==
    ASSUME IInv, NEW c \in Cpus, junk(c)
    PROVE  IInv'
<1>1. panic' \in Message /\ UNCHANGED <<procVars, threadVars, cpuVars>>
  BY DEF junk, Panic, Message
<1> QED BY <1>1, PanicStep

-----------------------------------------------------------------------------
\* The initial state, as userinit leaves it.
LEMMA InitIInv == Init => IInv
<1> SUFFICES ASSUME Init
             PROVE  IInv
  OBVIOUS
<1>1. ProcOK
  BY DEF Init, userinit, ProcOK, State
<1>2. ThreadOK
  BY Slots, ZenonT(40) DEF Init, userinit, ThreadOK, State, Chan
<1>3. CtxOK
  BY DEF Init, userinit, CtxOK, ThreadFrame, At, Frame, Point
<1>4. CpuOK /\ panic \in Message
  BY CpuAssumption DEF Init, CpuOK, InThread, LockHandover, LockPoints, At, Frame, Message
<1> QED BY <1>1, <1>2, <1>3, <1>4 DEF IInv

\* Every step of every CPU preserves the invariant.
LEMMA NextIInv == IInv /\ [Next]_vars => IInv'
<1> SUFFICES ASSUME IInv, [Next]_vars
             PROVE  IInv'
  OBVIOUS
<1>1. CASE UNCHANGED vars
  <2>1. panic' \in Message /\ UNCHANGED <<procVars, threadVars, cpuVars>>
    BY <1>1 DEF vars, IInv
  <2> QED BY <2>1, PanicStep
<1>2. CASE tick
  BY <1>2, tickStep
<1>3. ASSUME NEW c \in Cpus, scheduler(c) \/ schedulerEnd(c)
      PROVE  IInv'
  BY <1>3, schedulerStep, schedulerEndStep
<1>4. ASSUME NEW c \in Cpus, Run(c)
      PROVE  IInv'
  <2>1. CASE yield(c)
    BY <2>1, yieldStep
  <2>2. CASE trapret(c) \/ syscall(c) \/ fault(c)
    BY <2>2, trapStep
  <2>3. CASE fork(c)
    BY <2>3, allocprocStep, forkThreadStep, kstackStep, forkEndStep DEF fork
  <2>4. CASE kthread_create(c)
    BY <2>4, createStep, kstackStep DEF kthread_create
  <2>5. CASE kthread_exit(c)
    BY <2>5, kexitZombieStep, kexitSchedStep DEF kthread_exit
  <2>6. CASE kthread_join(c)
    BY <2>6, joinStep
  <2>7. CASE exit(c)
    BY <2>7, exitWaitStep, exitCloseStep, exitSchedStep DEF exit
  <2>8. CASE wait(c)
    BY <2>8, waitStep
  <2>9. CASE kill(c) \/ sys_sleep(c)
    BY <2>9, killStep, sleepCallStep
  <2>10. CASE exec(c) \/ junk(c)
    BY <2>10, execStep, junkStep
  <2> QED BY <1>4, <2>1, <2>2, <2>3, <2>4, <2>5, <2>6, <2>7, <2>8, <2>9, <2>10 DEF Run
<1> QED BY <1>1, <1>2, <1>3, <1>4 DEF Next

\* The invariant holds in every reachable state.
LEMMA Invariance == Spec => []IInv
BY InitIInv, NextIInv, PTL DEF Spec

\* The process and thread tables, the saved contexts and the CPUs are well
\* typed for every size of the tables and every program.
THEOREM TypeCorrect == Spec => []TypeOK
BY Invariance, IInvImplies, PTL

\* ptable.lock is handed over soundly by sched() and scheduler(): whoever holds
\* it across a switch is the CPU that switched, and no other CPU is inside.
THEOREM HandoverCorrect == Spec => []LockHandover
BY Invariance, IInvImplies, PTL
==============================================================================
