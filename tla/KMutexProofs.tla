----------------------------- MODULE KMutexProofs -----------------------------
(***************************************************************************)
(* The kthread mutexes exclude each other for every number of processes,   *)
(* threads and mutexes, and whatever happens to the threads: creation,     *)
(* exit, kill and exec included.                                           *)
(*                                                                         *)
(* MutualExclusion is not inductive.  The kernel identifies the owner of a *)
(* mutex by a thread id, which names a thread only together with the       *)
(* process that allocated the mutex (home) and while the slot is in use,   *)
(* and it hands a mutex to a thread long before that thread returns from   *)
(* lock().  IInv says what m->tid means in between.                        *)
(***************************************************************************)
EXTENDS KMutex, TLAPS

\* A free slot is clean, a slot in use has its index as thread id, and the
\* calls that take a mutex have one.
SlotsOK ==
    /\ \A t \in Thread : tstate[t] = "UNUSED" => at[t] = User /\ ~blocked[t]
    /\ \A t \in Thread : tstate[t] # "UNUSED" => tid[t] = t[2]
    /\ \A p \in Procs : pstate[p] = "UNUSED" =>
                           \A i \in Tix : tstate[<<p, i>>] = "UNUSED"
    /\ \A t \in Thread : at[t].op \in {"dealloc", "lock", "unlock", "wait"} =>
                            at[t].m \in Mutex

\* Only the process that allocated a mutex has it in mid, and a mutex that is
\* allocated and not locked has no owner.
MutexesOK ==
    /\ \A p \in Procs : \A m \in mid[p] : allocated[m] /\ home[m] = p
    /\ \A m \in Mutex : allocated[m] /\ ~locked[m] => mtid[m] = -1

\* A holder is alive and is the owner.
HoldersOK ==
    \A t \in Thread, m \in Mutex : <<t, m>> \in holds =>
        /\ ~Gone(tstate[t]) /\ allocated[m] /\ locked[m]
        /\ mtid[m] = tid[t] /\ home[m] = t[1]

\* A blocked thread is in lock(); while it is queued its mutex is locked.
QueueOK ==
    \A t \in Thread : blocked[t] =>
        /\ at[t].op = "wait"
        /\ chan[t] \in Mutex => /\ at[t].m = chan[t] /\ allocated[chan[t]]
                                /\ locked[chan[t]] /\ home[chan[t]] = t[1]

IInv == TypeOK /\ SlotsOK /\ MutexesOK /\ HoldersOK /\ HandOverReserved /\ QueueOK

-----------------------------------------------------------------------------
\* Zenon proves the steps that name no other prover.
USE Zenon

\* Threads are pairs of slots, and two threads of a process differ in the index.
LEMMA Slots ==
    /\ \A t \in Thread : t[1] \in Procs /\ t[2] \in Tix /\ t = <<t[1], t[2]>>
    /\ \A p \in Procs, i \in Tix : <<p, i>> \in Thread /\ <<p, i>>[1] = p /\ <<p, i>>[2] = i
    /\ \A s, t \in Thread : s[1] = t[1] /\ s[2] = t[2] => s = t
    /\ -1 \notin Tix /\ 0 \in Tix /\ 0 \in Procs /\ 0 \in Mutex
    /\ NoChan \notin Mutex /\ Other \notin Mutex
BY SizeAssumption, SMT DEF Thread, Procs, Tix, Mutex, NoChan, Other

\* The inductive invariant implies the properties.
LEMMA IInvImplies == IInv => TypeOK /\ MutualExclusion /\ UnlockedHasNoWaiters
<1> SUFFICES ASSUME IInv
             PROVE  TypeOK /\ MutualExclusion /\ UnlockedHasNoWaiters
  OBVIOUS
<1>1. ASSUME NEW g \in holds, NEW h \in holds, g[2] = h[2]
      PROVE  g = h
  <2>1. /\ g[1] \in Thread /\ g[2] \in Mutex /\ g = <<g[1], g[2]>>
        /\ h[1] \in Thread /\ h[2] \in Mutex /\ h = <<h[1], h[2]>>
    BY <1>1, SMT DEF IInv, TypeOK
  <2>2. tid[g[1]] = tid[h[1]] /\ g[1][1] = h[1][1] /\ ~Gone(tstate[g[1]]) /\ ~Gone(tstate[h[1]])
    BY <1>1, <2>1, SMT DEF IInv, HoldersOK
  <2>3. g[1][2] = h[1][2]
    BY <2>1, <2>2 DEF IInv, SlotsOK, Gone
  <2> QED BY <1>1, <2>1, <2>2, <2>3, Slots
<1>2. MutualExclusion
  BY <1>1 DEF MutualExclusion
<1> QED BY <1>2 DEF IInv, UnlockedHasNoWaiters, QueueOK

-----------------------------------------------------------------------------
(***************************************************************************)
(* Steps that move one thread to another point and leave the table of      *)
(* threads as it is.                                                       *)
(***************************************************************************)
TakesMutex == {"dealloc", "lock", "unlock", "wait"}

\* The slots stay in order when a thread in use moves.
LEMMA MoveOK ==
    ASSUME IInv, NEW t \in Thread, tstate[t] = "RUNNING", UNCHANGED <<threadVars, pstate>>,
           NEW fr \in Frame, fr.op \in TakesMutex => fr.m \in Mutex,
           at' = [at EXCEPT ![t] = fr]
    PROVE  /\ SlotsOK' /\ at' \in [Thread -> Frame] /\ at'[t] = fr
           /\ \A s \in Thread : s # t => at'[s] = at[s]
<1>1. at' \in [Thread -> Frame] /\ at'[t] = fr /\ \A s \in Thread : s # t => at'[s] = at[s]
  BY DEF IInv, TypeOK
<1>2. UNCHANGED <<tstate, tid, blocked, pstate>>
  BY DEF threadVars
<1> QED BY <1>1, <1>2 DEF IInv, SlotsOK, TakesMutex

\* The slots stay in order when no slot is taken or freed.
LEMMA SlotsKept ==
    ASSUME IInv, UNCHANGED tid,
           \A t \in Thread : tstate'[t] = "UNUSED" <=> tstate[t] = "UNUSED",
           \A t \in Thread : tstate[t] = "UNUSED" => at'[t] = at[t] /\ (blocked'[t] => blocked[t]),
           \A t \in Thread : at'[t].op \in TakesMutex => at'[t].m \in Mutex,
           \A p \in Procs : pstate'[p] = "UNUSED" => pstate[p] = "UNUSED"
    PROVE  SlotsOK'
BY Slots, SMT DEF IInv, SlotsOK, TakesMutex

\* Going to a point outside lock() with nothing else changed, or to a panic.
LEMMA MoveStep ==
    ASSUME IInv, NEW t \in Thread, tstate[t] = "RUNNING", ~blocked[t],
           UNCHANGED <<mutexVars, procVars, threadVars, holds, panic>>,
           NEW fr \in Frame, fr.op \in TakesMutex => fr.m \in Mutex, fr.op # "wait",
           at' = [at EXCEPT ![t] = fr]
    PROVE  IInv'
<1>1. UNCHANGED <<allocated, locked, mtid, home, pstate, pkilled, mid, tstate, tid,
                  tkilled, blocked, chan, holds, panic>>
  BY DEF mutexVars, procVars, threadVars
<1>2. SlotsOK' /\ at' \in [Thread -> Frame] /\ at'[t] = fr /\ \A s \in Thread : s # t => at'[s] = at[s]
  BY <1>1, MoveOK
<1>3. TypeOK' /\ MutexesOK' /\ HoldersOK'
  BY <1>1, <1>2, SMT DEF IInv, TypeOK, MutexesOK, HoldersOK
<1>4. HandOverReserved'
  BY <1>1, <1>2 DEF IInv, HandOverReserved
<1>5. QueueOK'
  BY <1>1, <1>2 DEF IInv, QueueOK
<1> QED BY <1>2, <1>3, <1>4, <1>5 DEF IInv

\* The frame of a thread in user mode.
LEMMA UserFrame == User \in Frame /\ User.op = "user" /\ "user" \notin TakesMutex
BY DEF User, Frame, Op, TakesMutex

\* A thread in a call has a mutex, and is not blocked unless it waits.
LEMMA RunningOK ==
    ASSUME IInv, NEW t \in Thread, NEW op, Running(t, op)
    PROVE  /\ tstate[t] = "RUNNING" /\ at[t].op = op /\ tid[t] = t[2]
           /\ op # "wait" => ~blocked[t]
           /\ op \in TakesMutex => at[t].m \in Mutex
BY DEF Running, IInv, SlotsOK, QueueOK, TakesMutex

\* Entering a call.
LEMMA syscallStep ==
    ASSUME IInv, NEW t \in Thread, syscall(t)
    PROVE  IInv'
<1>1. PICK op \in MutexCall, m \in Mutex :
          at' = [at EXCEPT ![t] = [op |-> op, m |-> IF op = "alloc" THEN NoChan ELSE m]]
  BY DEF syscall
<1> DEFINE fr == [op |-> op, m |-> IF op = "alloc" THEN NoChan ELSE m]
<1>2. fr \in Frame /\ (fr.op \in TakesMutex => fr.m \in Mutex) /\ fr.op # "wait"
  BY DEF Frame, Op, MutexCall, TakesMutex
<1>3. tstate[t] = "RUNNING" /\ ~blocked[t]
  BY RunningOK, SMT DEF syscall
<1> QED BY <1>1, <1>2, <1>3, MoveStep DEF syscall

-----------------------------------------------------------------------------
(***************************************************************************)
(* The mutex calls.                                                        *)
(***************************************************************************)
\* What changes of a mutex and of the history, when a call returns and the
\* table of threads is left as it is.
LEMMA ReturnOK ==
    ASSUME IInv, NEW t \in Thread, tstate[t] = "RUNNING", ~blocked[t], Return(t),
           UNCHANGED <<pstate, pkilled, threadVars, panic>>
    PROVE  /\ SlotsOK' /\ at' \in [Thread -> Frame] /\ at'[t] = User
           /\ \A s \in Thread : s # t => at'[s] = at[s]
           /\ UNCHANGED <<pstate, pkilled, tstate, tid, tkilled, blocked, chan, panic>>
<1>1. UNCHANGED <<pstate, pkilled, tstate, tid, tkilled, blocked, chan, panic>>
  BY DEF threadVars
<1> QED BY <1>1, MoveOK, UserFrame DEF Return

\* kthread_mutex_alloc: nobody holds, or waits for, a mutex that was free.
LEMMA allocStep ==
    ASSUME IInv, NEW t \in Thread, kthread_mutex_alloc(t)
    PROVE  IInv'
<1>1. tstate[t] = "RUNNING" /\ ~blocked[t] /\ t[1] \in Procs
  BY RunningOK, Slots DEF kthread_mutex_alloc
<1>2. CASE UNCHANGED <<mutexVars, mid>>
  <2>1. UNCHANGED <<mutexVars, procVars, threadVars, holds, panic>>
    BY <1>2 DEF kthread_mutex_alloc, procVars
  <2> QED BY <1>1, <2>1, MoveStep, UserFrame DEF kthread_mutex_alloc, Return
<1>3. ASSUME NEW m \in Mutex, ~allocated[m],
             allocated' = [allocated EXCEPT ![m] = TRUE],
             locked' = [locked EXCEPT ![m] = FALSE],
             mtid' = [mtid EXCEPT ![m] = -1],
             mid' = [mid EXCEPT ![t[1]] = @ \cup {m}],
             home' = [home EXCEPT ![m] = t[1]]
      PROVE  IInv'
  <2>1. /\ SlotsOK' /\ at' \in [Thread -> Frame] /\ at'[t] = User
        /\ \A s \in Thread : s # t => at'[s] = at[s]
        /\ UNCHANGED <<pstate, pkilled, tstate, tid, tkilled, blocked, chan, panic>>
    BY <1>1, ReturnOK DEF kthread_mutex_alloc
  <2>2. holds' = holds
    BY DEF kthread_mutex_alloc
  <2>3. TypeOK'
    BY <1>1, <1>3, <2>1, <2>2, ZenonT(60) DEF IInv, TypeOK
  <2>4. MutexesOK'
    BY <1>1, <1>3, SMT DEF IInv, TypeOK, MutexesOK
  <2>5. HoldersOK'
    BY <1>3, <2>1, <2>2, SMT DEF IInv, TypeOK, HoldersOK
  <2>6. HandOverReserved'
    BY <1>3, <2>1, UserFrame, SMT DEF IInv, TypeOK, HandOverReserved, TakesMutex, SlotsOK
  <2>7. QueueOK'
    BY <1>1, <1>3, <2>1, SMT DEF IInv, TypeOK, QueueOK
  <2> QED BY <2>1, <2>3, <2>4, <2>5, <2>6, <2>7 DEF IInv
<1> QED BY <1>2, <1>3 DEF kthread_mutex_alloc, IsLeast

\* kthread_mutex_dealloc: nobody holds, or waits for, a mutex not locked.
LEMMA deallocStep ==
    ASSUME IInv, NEW t \in Thread, kthread_mutex_dealloc(t)
    PROVE  IInv'
<1> DEFINE m == at[t].m
<1>1. tstate[t] = "RUNNING" /\ ~blocked[t] /\ t[1] \in Procs /\ m \in Mutex
  BY RunningOK, Slots DEF kthread_mutex_dealloc, TakesMutex
<1>2. CASE ~MayDealloc(t, m)
  <2>1. UNCHANGED <<mutexVars, procVars, threadVars, holds, panic>>
    BY <1>2 DEF kthread_mutex_dealloc, procVars
  <2> QED BY <1>1, <2>1, MoveStep, UserFrame DEF kthread_mutex_dealloc, Return
<1>3. CASE MayDealloc(t, m)
  <2>1. /\ SlotsOK' /\ at' \in [Thread -> Frame] /\ at'[t] = User
        /\ \A s \in Thread : s # t => at'[s] = at[s]
        /\ UNCHANGED <<pstate, pkilled, tstate, tid, tkilled, blocked, chan, panic>>
    BY <1>1, ReturnOK DEF kthread_mutex_dealloc
  <2>2. /\ allocated' = [allocated EXCEPT ![m] = FALSE]
        /\ locked' = [locked EXCEPT ![m] = FALSE]
        /\ mtid' = [mtid EXCEPT ![m] = -1]
        /\ mid' = [mid EXCEPT ![t[1]] = @ \ {m}]
        /\ UNCHANGED <<home, holds>>
    BY <1>3 DEF kthread_mutex_dealloc
  <2>3. ~locked[m] /\ allocated[m] /\ m \in mid[t[1]] /\ home[m] = t[1]
    BY <1>1, <1>3 DEF MayDealloc, Valid, IInv, MutexesOK
  <2> HIDE DEF m
  <2>4. TypeOK'
    BY <1>1, <2>1, <2>2 DEF IInv, TypeOK
  <2>5. MutexesOK'
    BY <1>1, <2>2, <2>3, SMT DEF IInv, TypeOK, MutexesOK
  <2>6. HoldersOK'
    BY <1>1, <2>1, <2>2, <2>3, ZenonT(60) DEF IInv, TypeOK, HoldersOK
  <2>7. HandOverReserved'
    BY <1>1, <2>1, <2>2, <2>3, UserFrame, SMT DEF IInv, TypeOK, HandOverReserved, TakesMutex, SlotsOK
  <2>8. QueueOK'
    BY <1>1, <2>1, <2>2, <2>3, SMTT(30) DEF IInv, TypeOK, QueueOK
  <2> QED BY <2>1, <2>4, <2>5, <2>6, <2>7, <2>8 DEF IInv
<1> QED BY <1>2, <1>3

\* A thread gets a mutex that is free, or that is already reserved for it.
LEMMA TakeStep ==
    ASSUME IInv, NEW t \in Thread, tstate[t] = "RUNNING", ~blocked[t],
           NEW m \in Mutex, allocated[m], home[m] = t[1],
           locked[m] => mtid[m] = tid[t],
           lockEnd(t, m), UNCHANGED <<procVars, threadVars>>
    PROVE  IInv'
<1>1. /\ locked' = [locked EXCEPT ![m] = TRUE] /\ mtid' = [mtid EXCEPT ![m] = tid[t]]
      /\ holds' = holds \cup {<<t, m>>} /\ Return(t)
      /\ UNCHANGED <<allocated, home, panic, pstate, pkilled, mid>>
  BY DEF lockEnd, Take, procVars
<1>2. /\ SlotsOK' /\ at' \in [Thread -> Frame] /\ at'[t] = User
      /\ \A s \in Thread : s # t => at'[s] = at[s]
      /\ UNCHANGED <<pstate, pkilled, tstate, tid, tkilled, blocked, chan, panic>>
  BY <1>1, ReturnOK
<1>3. TypeOK'
  BY <1>1, <1>2, SMT DEF IInv, TypeOK
<1>4. MutexesOK'
  BY <1>1 DEF IInv, TypeOK, MutexesOK
<1>5. HoldersOK'
  <2> SUFFICES ASSUME NEW s \in Thread, NEW n \in Mutex, <<s, n>> \in holds'
               PROVE  /\ ~Gone(tstate'[s]) /\ allocated'[n] /\ locked'[n]
                      /\ mtid'[n] = tid'[s] /\ home'[n] = s[1]
    BY DEF HoldersOK, Gone
  <2>1. CASE <<s, n>> \in holds
    BY <2>1, <1>1, <1>2, ZenonT(60) DEF IInv, TypeOK, HoldersOK
  <2>2. CASE s = t /\ n = m
    BY <2>2, <1>1, <1>2 DEF IInv, TypeOK, Gone
  <2> QED BY <2>1, <2>2, <1>1
<1>6. HandOverReserved'
  BY <1>1, <1>2, UserFrame, SMTT(30) DEF IInv, TypeOK, HandOverReserved, TakesMutex, SlotsOK
<1>7. QueueOK'
  BY <1>1, <1>2, SMT DEF IInv, TypeOK, QueueOK
<1> QED BY <1>2, <1>3, <1>4, <1>5, <1>6, <1>7 DEF IInv

\* A panic leaves everything as it is.
LEMMA PanicStep ==
    ASSUME IInv, panic' \in BOOLEAN,
           UNCHANGED <<mutexVars, procVars, threadVars, at, holds>>
    PROVE  IInv'
BY SMTT(30) DEF IInv, TypeOK, SlotsOK, MutexesOK, HoldersOK, HandOverReserved, QueueOK, Gone,
       mutexVars, procVars, threadVars

\* kthread_mutex_lock up to its sleep.
LEMMA lockStep ==
    ASSUME IInv, NEW t \in Thread, kthread_mutex_lock(t)
    PROVE  IInv'
<1> DEFINE m == at[t].m
           fr == [op |-> "wait", m |-> m]
<1>1. tstate[t] = "RUNNING" /\ ~blocked[t] /\ t[1] \in Procs /\ m \in Mutex
      /\ at[t].op = "lock"
  BY RunningOK, Slots, ZenonT(60) DEF kthread_mutex_lock, TakesMutex
<1>2. CASE Return(t) /\ UNCHANGED <<mutexVars, procVars, threadVars, holds, panic>>
  BY <1>1, <1>2, MoveStep, UserFrame, ZenonT(40) DEF Return
<1>3. Lockable(t, m) => allocated[m] /\ home[m] = t[1]
  BY <1>1 DEF Lockable, Valid, IInv, MutexesOK
<1>4. CASE /\ Lockable(t, m) /\ ~locked[m] /\ lockEnd(t, m)
           /\ UNCHANGED <<procVars, threadVars>>
  <2> HIDE DEF m
  <2> QED BY <1>1, <1>3, <1>4, TakeStep
<1>5. CASE /\ Lockable(t, m) /\ locked[m]
           /\ blocked' = [blocked EXCEPT ![t] = TRUE]
           /\ sleep(t, m, fr)
           /\ UNCHANGED <<mutexVars, pkilled, mid, tid, tkilled, holds, panic>>
  <2>1. fr \in Frame /\ fr.op = "wait" /\ fr.m = m
    BY <1>1 DEF Frame, Op
  <2> HIDE DEF fr
  <2>2. /\ tstate' = [tstate EXCEPT ![t] = "SLEEPING"] /\ chan' = [chan EXCEPT ![t] = m]
        /\ at' = [at EXCEPT ![t] = fr]
    BY <1>5 DEF sleep
  <2>3. pstate' \in [Procs -> State] /\ \A p \in Procs : pstate'[p] = "UNUSED" => pstate[p] = "UNUSED"
    BY <1>1, <1>5 DEF sleep, IInv, TypeOK, State
  <2>4. UNCHANGED <<allocated, locked, mtid, home>>
    BY <1>5 DEF mutexVars
  <2> HIDE DEF m
  <2>5. TypeOK'
    BY <1>1, <1>5, <2>1, <2>2, <2>3, <2>4 DEF IInv, TypeOK, State
  <2>6. SlotsOK'
    BY <1>1, <1>5, <2>1, <2>2, <2>3, Slots, SMTT(30) DEF IInv, TypeOK, SlotsOK
  <2>7. MutexesOK'
    BY <1>5, <2>4 DEF IInv, MutexesOK
  <2>8. HoldersOK'
    BY <1>5, <2>2, <2>4 DEF IInv, TypeOK, HoldersOK, Gone
  <2>9. HandOverReserved'
    BY <1>5, <2>1, <2>2, <2>4 DEF IInv, TypeOK, HandOverReserved
  <2>10. QueueOK'
    BY <1>1, <1>3, <1>5, <2>1, <2>2, <2>4, ZenonT(60) DEF IInv, TypeOK, QueueOK
  <2> QED BY <2>5, <2>6, <2>7, <2>8, <2>9, <2>10 DEF IInv
<1> QED BY <1>2, <1>4, <1>5 DEF kthread_mutex_lock

\* kthread_mutex_lock after its sleep.
LEMMA lockResumeStep ==
    ASSUME IInv, NEW t \in Thread, lockResume(t)
    PROVE  IInv'
<1> DEFINE m == at[t].m
<1>1. tstate[t] = "RUNNING" /\ at[t].op = "wait" /\ m \in Mutex
      /\ lockEnd(t, m) /\ UNCHANGED <<procVars, threadVars>>
  BY RunningOK DEF lockResume, TakesMutex
<1>2. CASE blocked[t]
  <2>1. panic' \in BOOLEAN /\ UNCHANGED <<mutexVars, procVars, threadVars, at, holds>>
    BY <1>1, <1>2 DEF lockEnd
  <2> QED BY <2>1, PanicStep
<1>3. CASE ~blocked[t]
  <2>1. allocated[m] /\ home[m] = t[1] /\ mtid[m] = tid[t]
    BY <1>1, <1>3, SMTT(30) DEF IInv, HandOverReserved
  <2> HIDE DEF m
  <2> QED BY <1>1, <1>3, <2>1, TakeStep
<1> QED BY <1>2, <1>3

\* kthread_mutex_unlock, with a thread to hand the mutex to and without.
LEMMA unlockStep ==
    ASSUME IInv, NEW t \in Thread, kthread_mutex_unlock(t)
    PROVE  IInv'
<1> DEFINE m == at[t].m
<1>1. tstate[t] = "RUNNING" /\ ~blocked[t] /\ t[1] \in Procs /\ m \in Mutex
      /\ at[t].op = "unlock" /\ tid[t] = t[2] /\ t[2] \in Tix
  BY RunningOK, Slots DEF kthread_mutex_unlock, TakesMutex
<1>2. /\ Return(t) /\ UNCHANGED <<allocated, home, pstate, pkilled, mid, tid, tkilled, panic>>
  BY DEF kthread_mutex_unlock, procVars
<1>3. CASE UNCHANGED <<locked, mtid, tstate, blocked, chan, holds>>
  <2>1. UNCHANGED <<mutexVars, procVars, threadVars, holds, panic>>
    BY <1>2, <1>3 DEF mutexVars, procVars, threadVars
  <2> QED BY <1>1, <1>2, <2>1, MoveStep, UserFrame DEF Return
<1>4. ASSUME Valid(t, m), mtid[m] = tid[t]
      PROVE  /\ allocated[m] /\ locked[m] /\ home[m] = t[1]
             /\ \A s \in Thread : <<s, m>> \in holds => s = t
             /\ \A s \in Thread : at[s].op = "wait" /\ ~blocked[s] => at[s].m # m
  <2>1. allocated[m] /\ locked[m] /\ home[m] = t[1]
    BY <1>1, <1>4, Slots, SMT DEF Valid, IInv, MutexesOK
  <2>2. ASSUME NEW s \in Thread, <<s, m>> \in holds
        PROVE  s = t
    BY <1>1, <1>4, <2>1, <2>2, Slots, SMT DEF IInv, HoldersOK, SlotsOK, Gone
  <2>3. ASSUME NEW s \in Thread, at[s].op = "wait", ~blocked[s], at[s].m = m
        PROVE  FALSE
    <3>1. tid[s] = tid[t] /\ s[1] = t[1] /\ tstate[s] # "UNUSED"
      BY <1>4, <2>1, <2>3, UserFrame, ZenonT(60) DEF IInv, HandOverReserved, SlotsOK
    <3> QED BY <3>1, <1>1, <2>3, Slots, SMT DEF IInv, SlotsOK
  <2> QED BY <2>1, <2>2, <2>3
<1>5. ASSUME Valid(t, m), mtid[m] = tid[t], Waiting(t, m) = {},
             holds' = holds \ {<<t, m>>},
             locked' = [locked EXCEPT ![m] = FALSE], mtid' = [mtid EXCEPT ![m] = -1],
             UNCHANGED <<tstate, blocked, chan>>
      PROVE  IInv'
  <2>1. /\ SlotsOK' /\ at' \in [Thread -> Frame] /\ at'[t] = User
        /\ \A s \in Thread : s # t => at'[s] = at[s]
    BY <1>1, <1>2, <1>5, ReturnOK DEF threadVars
  <2>2. \A s \in Thread : blocked[s] => chan[s] # m
    BY <1>1, <1>4, <1>5, Slots, SMTT(30) DEF Waiting, IInv, QueueOK
  <2>3. TypeOK'
    BY <1>1, <1>2, <1>5, <2>1, SMTT(30) DEF IInv, TypeOK
  <2>4. MutexesOK'
    BY <1>1, <1>2, <1>5, SMTT(30) DEF IInv, TypeOK, MutexesOK
  <2>5. HoldersOK'
    BY <1>1, <1>2, <1>4, <1>5, SMTT(30) DEF IInv, TypeOK, HoldersOK
  <2>6. HandOverReserved'
    BY <1>1, <1>2, <1>4, <1>5, <2>1, UserFrame, SMTT(30) DEF IInv, TypeOK, HandOverReserved
  <2>7. QueueOK'
    BY <1>1, <1>2, <1>5, <2>1, <2>2, SMT DEF IInv, TypeOK, QueueOK
  <2> QED BY <2>1, <2>3, <2>4, <2>5, <2>6, <2>7, SMTT(30) DEF IInv
<1>6. ASSUME Valid(t, m), mtid[m] = tid[t], NEW i \in Waiting(t, m),
             holds' = holds \ {<<t, m>>},
             chan' = [chan EXCEPT ![<<t[1], i>>] = NoChan],
             tstate' = [tstate EXCEPT ![<<t[1], i>>] = "RUNNABLE"],
             blocked' = [blocked EXCEPT ![<<t[1], i>>] = FALSE],
             HandOver(t, m, <<t[1], i>>)
      PROVE  IInv'
  <2> DEFINE w == <<t[1], i>>
  <2>1. w \in Thread /\ w # t /\ w[1] = t[1] /\ blocked[w] /\ chan[w] = m /\ m \in Mutex
    BY <1>1, Slots DEF Waiting
  <2>2. at[w].op = "wait" /\ at[w].m = m /\ tstate[w] # "UNUSED" /\ pstate[t[1]] # "UNUSED"
    <3>1. at[w].op = "wait" /\ at[w].m = m
      BY <2>1 DEF IInv, QueueOK
    <3>2. tstate[w] # "UNUSED"
      BY <2>1 DEF IInv, SlotsOK
    <3> QED BY <3>1, <3>2, <1>1, <2>1 DEF IInv, SlotsOK, Waiting
  <2>3. mtid' = [mtid EXCEPT ![m] = tid[w]] /\ locked' = locked
    BY <1>6 DEF HandOver
  <2>4. at' = [at EXCEPT ![t] = User]
    BY <1>2 DEF Return
  <2>5. at' \in [Thread -> Frame] /\ at'[t] = User /\ \A s \in Thread : s # t => at'[s] = at[s]
    BY <2>4, UserFrame DEF IInv, TypeOK
  <2>6. /\ chan' = [chan EXCEPT ![w] = NoChan] /\ tstate' = [tstate EXCEPT ![w] = "RUNNABLE"]
        /\ blocked' = [blocked EXCEPT ![w] = FALSE] /\ holds' = holds \ {<<t, m>>}
    BY <1>6
  <2>7. /\ allocated[m] /\ locked[m] /\ home[m] = t[1]
        /\ \A s \in Thread : <<s, m>> \in holds => s = t
        /\ \A s \in Thread : at[s].op = "wait" /\ ~blocked[s] => at[s].m # m
    BY <1>4, <1>6
  <2> HIDE DEF m, w
  <2>8. TypeOK'
    BY <1>2, <2>1, <2>3, <2>5, <2>6, SMTT(30) DEF IInv, TypeOK, State
  <2>9. SlotsOK'
    <3>1. \A s \in Thread : tstate'[s] = "UNUSED" <=> tstate[s] = "UNUSED"
      BY <2>1, <2>2, <2>6 DEF IInv, TypeOK
    <3>2. \A s \in Thread : tstate[s] = "UNUSED" => at'[s] = at[s] /\ (blocked'[s] => blocked[s])
      BY <1>1, <2>1, <2>5, <2>6, SMTT(30) DEF IInv, TypeOK
    <3>3. \A s \in Thread : at'[s].op \in TakesMutex => at'[s].m \in Mutex
      BY <2>5, UserFrame, SMTT(30) DEF IInv, SlotsOK, TakesMutex
    <3> QED BY <3>1, <3>2, <3>3, <1>2, SlotsKept, ZenonT(40)
  <2>10. MutexesOK'
    BY <1>2, <2>3, <2>7, SMTT(30) DEF IInv, TypeOK, MutexesOK
  <2>11. HoldersOK'
    BY <1>2, <2>3, <2>6, <2>7, SMTT(30) DEF IInv, TypeOK, HoldersOK, Gone
  <2>12. HandOverReserved'
    BY <1>2, <2>1, <2>2, <2>3, <2>5, <2>6, <2>7, UserFrame, SMTT(30) DEF IInv, TypeOK, HandOverReserved
  <2>13. QueueOK'
    BY <1>1, <1>2, <2>1, <2>3, <2>5, <2>6, SMT DEF IInv, TypeOK, QueueOK
  <2> QED BY <2>8, <2>9, <2>10, <2>11, <2>12, <2>13 DEF IInv
<1> QED BY <1>3, <1>5, <1>6 DEF kthread_mutex_unlock, Unlockable, Wake

-----------------------------------------------------------------------------
(***************************************************************************)
(* The life of the threads.                                                *)
(***************************************************************************)

\* The scheduler runs a thread.
LEMMA dispatchStep ==
    ASSUME IInv, NEW t \in Thread, dispatch(t)
    PROVE  IInv'
<1>1. TypeOK'
  BY Slots DEF IInv, TypeOK, State, dispatch, mutexVars, procVars, threadVars
<1>2. SlotsOK'
  <2>1. \A s \in Thread : tstate'[s] = "UNUSED" <=> tstate[s] = "UNUSED"
    BY DEF dispatch, IInv, TypeOK
  <2>2. \A s \in Thread : tstate[s] = "UNUSED" => at'[s] = at[s] /\ (blocked'[s] => blocked[s])
    BY DEF dispatch, IInv, TypeOK
  <2>3. \A s \in Thread : at'[s].op \in TakesMutex => at'[s].m \in Mutex
    BY UserFrame DEF dispatch, IInv, TypeOK, SlotsOK, TakesMutex
  <2>4. \A p \in Procs : pstate'[p] = "UNUSED" => pstate[p] = "UNUSED"
    BY Slots, SMT DEF dispatch, IInv, TypeOK
  <2>5. UNCHANGED tid
    BY DEF dispatch
  <2> QED BY <2>1, <2>2, <2>3, <2>4, <2>5, SlotsKept
<1>3. MutexesOK'
  BY Slots DEF IInv, TypeOK, MutexesOK, dispatch, mutexVars, procVars, threadVars
<1>4. HoldersOK'
  BY Slots, SMT DEF IInv, TypeOK, HoldersOK, Gone, dispatch, mutexVars, procVars, threadVars
<1>5. HandOverReserved'
  BY Slots DEF IInv, TypeOK, HandOverReserved, dispatch, mutexVars, procVars, threadVars
<1>6. QueueOK'
  BY Slots, SMT DEF IInv, TypeOK, QueueOK, dispatch, mutexVars, procVars, threadVars
<1> QED BY <1>1, <1>2, <1>3, <1>4, <1>5, <1>6 DEF IInv

\* A thread is preempted.
LEMMA yieldStep ==
    ASSUME IInv, NEW t \in Thread, yield(t)
    PROVE  IInv'
<1>1. TypeOK'
  BY Slots DEF IInv, TypeOK, State, yield, mutexVars, procVars, threadVars
<1>2. SlotsOK'
  <2>1. \A s \in Thread : tstate'[s] = "UNUSED" <=> tstate[s] = "UNUSED"
    BY DEF yield, IInv, TypeOK
  <2>2. \A s \in Thread : tstate[s] = "UNUSED" => at'[s] = at[s] /\ (blocked'[s] => blocked[s])
    BY DEF yield, IInv, TypeOK
  <2>3. \A s \in Thread : at'[s].op \in TakesMutex => at'[s].m \in Mutex
    BY UserFrame DEF yield, IInv, TypeOK, SlotsOK, TakesMutex
  <2>4. \A p \in Procs : pstate'[p] = "UNUSED" => pstate[p] = "UNUSED"
    BY Slots, ZenonT(60) DEF yield, IInv, TypeOK
  <2>5. UNCHANGED tid
    BY DEF yield
  <2> QED BY <2>1, <2>2, <2>3, <2>4, <2>5, SlotsKept
<1>3. MutexesOK'
  BY Slots DEF IInv, TypeOK, MutexesOK, yield, mutexVars, procVars, threadVars
<1>4. HoldersOK'
  BY Slots, SMT DEF IInv, TypeOK, HoldersOK, Gone, yield, mutexVars, procVars, threadVars
<1>5. HandOverReserved'
  BY Slots DEF IInv, TypeOK, HandOverReserved, yield, mutexVars, procVars, threadVars
<1>6. QueueOK'
  BY Slots DEF IInv, TypeOK, QueueOK, yield, mutexVars, procVars, threadVars
<1> QED BY <1>1, <1>2, <1>3, <1>4, <1>5, <1>6 DEF IInv

\* Sleeping and waking for something else.
LEMMA sleepStep ==
    ASSUME IInv, NEW t \in Thread, sleepOther(t)
    PROVE  IInv'
<1>1. TypeOK'
  BY Slots DEF IInv, TypeOK, State, sleepOther, sleep, Running, User, Frame, Op,
     mutexVars, procVars, threadVars
<1>2. SlotsOK'
  <2>1. \A s \in Thread : tstate'[s] = "UNUSED" <=> tstate[s] = "UNUSED"
    BY DEF sleepOther, sleep, Running, IInv, TypeOK
  <2>2. \A s \in Thread : tstate[s] = "UNUSED" => at'[s] = at[s] /\ (blocked'[s] => blocked[s])
    BY DEF sleepOther, sleep, Running, IInv, TypeOK
  <2>3. \A s \in Thread : at'[s].op \in TakesMutex => at'[s].m \in Mutex
    BY UserFrame DEF sleepOther, sleep, Running, IInv, TypeOK, SlotsOK, TakesMutex
  <2>4. \A p \in Procs : pstate'[p] = "UNUSED" => pstate[p] = "UNUSED"
    BY Slots, SMT DEF sleepOther, sleep, Running, IInv, TypeOK
  <2>5. UNCHANGED tid
    BY DEF sleepOther, sleep, Running
  <2> QED BY <2>1, <2>2, <2>3, <2>4, <2>5, SlotsKept
<1>3. MutexesOK'
  BY Slots DEF IInv, TypeOK, MutexesOK, sleepOther, sleep, Running, User, Frame, Op,
     mutexVars, procVars, threadVars
<1>4. HoldersOK'
  BY Slots, SMT DEF IInv, TypeOK, HoldersOK, Gone, sleepOther, sleep, Running, User, Frame, Op,
     mutexVars, procVars, threadVars
<1>5. HandOverReserved'
  BY Slots, ZenonT(60) DEF IInv, TypeOK, HandOverReserved, sleepOther, sleep, Running, User, Frame,
     Op, mutexVars, procVars, threadVars
<1>6. QueueOK'
  BY Slots, SMT DEF IInv, TypeOK, QueueOK, sleepOther, sleep, Running, User, Frame, Op,
     mutexVars, procVars, threadVars
<1> QED BY <1>1, <1>2, <1>3, <1>4, <1>5, <1>6 DEF IInv

\* wakeup() on the other channel.
LEMMA wakeStep ==
    ASSUME IInv, NEW t \in Thread, wakeOther(t)
    PROVE  IInv'
<1>1. TypeOK'
  BY Slots DEF IInv, TypeOK, State, wakeOther, mutexVars, procVars, threadVars
<1>2. SlotsOK'
  <2>1. \A s \in Thread : tstate'[s] = "UNUSED" <=> tstate[s] = "UNUSED"
    BY DEF wakeOther, IInv, TypeOK
  <2>2. \A s \in Thread : tstate[s] = "UNUSED" => at'[s] = at[s] /\ (blocked'[s] => blocked[s])
    BY DEF wakeOther, IInv, TypeOK
  <2>3. \A s \in Thread : at'[s].op \in TakesMutex => at'[s].m \in Mutex
    BY UserFrame DEF wakeOther, IInv, TypeOK, SlotsOK, TakesMutex
  <2>4. \A p \in Procs : pstate'[p] = "UNUSED" => pstate[p] = "UNUSED"
    BY Slots, SMT DEF wakeOther, IInv, TypeOK
  <2>5. UNCHANGED tid
    BY DEF wakeOther
  <2> QED BY <2>1, <2>2, <2>3, <2>4, <2>5, SlotsKept
<1>3. MutexesOK'
  BY Slots DEF IInv, TypeOK, MutexesOK, wakeOther, mutexVars, procVars, threadVars
<1>4. HoldersOK'
  BY Slots, SMT DEF IInv, TypeOK, HoldersOK, Gone, wakeOther, mutexVars, procVars, threadVars
<1>5. HandOverReserved'
  BY Slots DEF IInv, TypeOK, HandOverReserved, wakeOther, mutexVars, procVars, threadVars
<1>6. QueueOK'
  BY Slots DEF IInv, TypeOK, QueueOK, wakeOther, mutexVars, procVars, threadVars
<1> QED BY <1>1, <1>2, <1>3, <1>4, <1>5, <1>6 DEF IInv

\* fork gives a process slot its first thread.
LEMMA forkStep ==
    ASSUME IInv, NEW p \in Procs, fork(p)
    PROVE  IInv'
<1>1. TypeOK'
  BY Slots, SMT DEF IInv, TypeOK, State, fork, allocthread, IsLeast, SlotsOK, User, mutexVars,
     procVars, threadVars
<1>2. SlotsOK'
  BY Slots, SMT DEF IInv, TypeOK, SlotsOK, fork, allocthread, IsLeast, User, mutexVars,
     procVars, threadVars
<1>3. MutexesOK'
  BY Slots, SMT DEF IInv, TypeOK, MutexesOK, fork, allocthread, IsLeast, SlotsOK, User,
     mutexVars, procVars, threadVars
<1>4. HoldersOK'
  BY Slots, SMT DEF IInv, TypeOK, HoldersOK, Gone, fork, allocthread, IsLeast, SlotsOK, User,
     mutexVars, procVars, threadVars
<1>5. HandOverReserved'
  BY Slots, SMT DEF IInv, TypeOK, HandOverReserved, fork, allocthread, IsLeast, SlotsOK, User,
     mutexVars, procVars, threadVars
<1>6. QueueOK'
  BY Slots DEF IInv, TypeOK, QueueOK, fork, allocthread, IsLeast, SlotsOK, User,
     mutexVars, procVars, threadVars
<1> QED BY <1>1, <1>2, <1>3, <1>4, <1>5, <1>6 DEF IInv

\* kthread_create takes a slot.
LEMMA createStep ==
    ASSUME IInv, NEW t \in Thread, kthread_create(t)
    PROVE  IInv'
<1>1. TypeOK'
  BY Slots, SMT DEF IInv, TypeOK, State, kthread_create, allocthread, SlotsOK, User, Running,
     IsLeast, mutexVars, procVars, threadVars
<1>2. SlotsOK'
  BY Slots, SMT DEF IInv, TypeOK, SlotsOK, kthread_create, allocthread, User, Running, IsLeast,
     mutexVars, procVars, threadVars
<1>3. MutexesOK'
  BY Slots DEF IInv, TypeOK, MutexesOK, kthread_create, allocthread, SlotsOK, User,
     Running, IsLeast, mutexVars, procVars, threadVars
<1>4. HoldersOK'
  BY Slots, SMTT(30) DEF IInv, TypeOK, HoldersOK, Gone, kthread_create, allocthread, SlotsOK, User,
     Running, IsLeast, mutexVars, procVars, threadVars
<1>5. HandOverReserved'
  BY Slots, SMT DEF IInv, TypeOK, HandOverReserved, kthread_create, allocthread, SlotsOK, User,
     Running, IsLeast, mutexVars, procVars, threadVars
<1>6. QueueOK'
  BY Slots DEF IInv, TypeOK, QueueOK, kthread_create, allocthread, SlotsOK, User, Running,
     IsLeast, mutexVars, procVars, threadVars
<1> QED BY <1>1, <1>2, <1>3, <1>4, <1>5, <1>6 DEF IInv

\* kthread_exit: a zombie holds nothing.
LEMMA kexitStep ==
    ASSUME IInv, NEW t \in Thread, kthread_exit(t)
    PROVE  IInv'
<1>1. TypeOK'
  BY Slots DEF IInv, TypeOK, State, kthread_exit, HeldBy, Running, mutexVars, procVars,
     threadVars
<1>2. SlotsOK'
  BY Slots, SMT DEF IInv, TypeOK, SlotsOK, kthread_exit, HeldBy, Running, mutexVars, procVars,
     threadVars
<1>3. MutexesOK'
  BY Slots DEF IInv, TypeOK, MutexesOK, kthread_exit, HeldBy, Running, mutexVars,
     procVars, threadVars
<1>4. HoldersOK'
  BY Slots, SMT DEF IInv, TypeOK, HoldersOK, Gone, kthread_exit, HeldBy, Running, mutexVars,
     procVars, threadVars
<1>5. HandOverReserved'
  BY Slots DEF IInv, TypeOK, HandOverReserved, kthread_exit, HeldBy, Running, mutexVars,
     procVars, threadVars
<1>6. QueueOK'
  BY Slots, SMTT(30) DEF IInv, TypeOK, QueueOK, kthread_exit, HeldBy, Running, mutexVars, procVars,
     threadVars
<1> QED BY <1>1, <1>2, <1>3, <1>4, <1>5, <1>6 DEF IInv

\* The slots stay in order when those of S are cleared, and perhaps a process
\* whose slots are all free.
LEMMA SlotsCleared ==
    ASSUME IInv, NEW S \in SUBSET Thread,
           \A t \in S : tstate'[t] = "UNUSED" /\ at'[t] = User /\ ~blocked'[t],
           \A t \in Thread \ S : /\ tstate'[t] = tstate[t] /\ tid'[t] = tid[t]
                                 /\ at'[t] = at[t] \/ (at'[t] = User /\ tstate[t] # "UNUSED")
                                 /\ blocked'[t] = blocked[t],
           \A p \in Procs : pstate'[p] = "UNUSED" =>
               pstate[p] = "UNUSED" \/ \A i \in Tix : tstate'[<<p, i>>] = "UNUSED"
    PROVE  SlotsOK'
<1>1. \A t \in Thread : tstate'[t] = "UNUSED" => at'[t] = User /\ ~blocked'[t]
  BY DEF IInv, SlotsOK
<1>2. \A t \in Thread : tstate'[t] # "UNUSED" => tid'[t] = t[2]
  BY DEF IInv, SlotsOK
<1>3. \A p \in Procs : pstate'[p] = "UNUSED" => \A i \in Tix : tstate'[<<p, i>>] = "UNUSED"
  BY Slots, SMT DEF IInv, SlotsOK
<1>4. \A t \in Thread : at'[t].op \in TakesMutex => at'[t].m \in Mutex
  BY UserFrame, SMTT(30) DEF IInv, SlotsOK, TakesMutex
<1> QED BY <1>1, <1>2, <1>3, <1>4 DEF SlotsOK, TakesMutex

\* kthread_join frees the slot of a zombie.
LEMMA joinStep ==
    ASSUME IInv, NEW t \in Thread, kthread_join(t)
    PROVE  IInv'
<1>1. TypeOK'
  BY Slots, SMT DEF IInv, TypeOK, State, kthread_join, clear_thread, Siblings, Threads,
     Running, User, Frame, Op, mutexVars, procVars, threadVars
<1>2. SlotsOK'
  <2>1. PICK s \in Thread : clear_thread({s}) /\ UNCHANGED procVars
    BY DEF kthread_join, Siblings, Threads
  <2>2. \A r \in {s} : tstate'[r] = "UNUSED" /\ at'[r] = User /\ ~blocked'[r]
    BY <2>1, ZenonT(40) DEF clear_thread
  <2>3. \A r \in Thread \ {s} : /\ tstate'[r] = tstate[r] /\ tid'[r] = tid[r]
                                /\ at'[r] = at[r] /\ blocked'[r] = blocked[r]
    BY <2>1 DEF clear_thread, IInv, TypeOK
  <2>4. \A r \in Thread \ {s} :
            /\ tstate'[r] = tstate[r] /\ tid'[r] = tid[r]
            /\ at'[r] = at[r] \/ (at'[r] = User /\ tstate[r] # "UNUSED")
            /\ blocked'[r] = blocked[r]
    BY <2>3
  <2>5. \A p \in Procs : pstate'[p] = "UNUSED" =>
            pstate[p] = "UNUSED" \/ \A i \in Tix : tstate'[<<p, i>>] = "UNUSED"
    BY <2>1 DEF procVars
  <2>6. {s} \in SUBSET Thread
    OBVIOUS
  <2> QED BY <2>2, <2>4, <2>5, <2>6, SlotsCleared, ZenonT(80)
<1>3. MutexesOK'
  BY Slots DEF IInv, TypeOK, MutexesOK, kthread_join, clear_thread, Siblings, Threads,
     Running, User, Frame, Op, mutexVars, procVars, threadVars
<1>4. HoldersOK'
  BY Slots, SMTT(30) DEF IInv, TypeOK, HoldersOK, Gone, kthread_join, clear_thread, Siblings,
     Threads, Running, User, Frame, Op, mutexVars, procVars, threadVars
<1>5. HandOverReserved'
  BY Slots, SMT DEF IInv, TypeOK, HandOverReserved, kthread_join, clear_thread, Siblings,
     Threads, Running, User, Frame, Op, mutexVars, procVars, threadVars
<1>6. QueueOK'
  <2>1. PICK s \in Thread : clear_thread({s})
    BY SMTT(30) DEF kthread_join, Siblings, Threads
  <2>2. UNCHANGED <<allocated, locked, home>>
    BY DEF kthread_join, mutexVars
  <2> QED BY <2>1, <2>2, Slots, ZenonT(40) DEF clear_thread, IInv, TypeOK, QueueOK
<1> QED BY <1>1, <1>2, <1>3, <1>4, <1>5, <1>6 DEF IInv

\* exit: the siblings become zombies or are marked.
LEMMA exitMarkStep ==
    ASSUME IInv, NEW t \in Thread, exitMark(t)
    PROVE  IInv'
<1>1. TypeOK'
  BY Slots, ZenonT(60) DEF IInv, TypeOK, State, exitMark, HeldBy, Siblings, Threads, Running, Frame,
     Op, User, mutexVars, procVars, threadVars
<1>2. SlotsOK'
  BY Slots, SMT DEF IInv, TypeOK, SlotsOK, exitMark, HeldBy, Siblings, Threads, Running, Frame,
     Op, User, mutexVars, procVars, threadVars
<1>3. MutexesOK'
  BY Slots, SMTT(30) DEF IInv, TypeOK, MutexesOK, exitMark, HeldBy, Siblings, Threads, Running,
     Frame, Op, User, mutexVars, procVars, threadVars
<1>4. HoldersOK'
  BY Slots, SMTT(30) DEF IInv, TypeOK, HoldersOK, Gone, exitMark, HeldBy, Siblings, Threads,
     Running, Frame, Op, User, mutexVars, procVars, threadVars
<1>5. HandOverReserved'
  BY Slots, SMTT(30) DEF IInv, TypeOK, HandOverReserved, exitMark, HeldBy, Siblings, Threads,
     Running, Frame, Op, User, mutexVars, procVars, threadVars
<1>6. QueueOK'
  BY Slots, SMT DEF IInv, TypeOK, QueueOK, exitMark, HeldBy, Siblings, Threads, Running, Frame,
     Op, User, mutexVars, procVars, threadVars
<1> QED BY <1>1, <1>2, <1>3, <1>4, <1>5, <1>6 DEF IInv

\* exit: the last thread.
LEMMA exitEndStep ==
    ASSUME IInv, NEW t \in Thread, exitEnd(t)
    PROVE  IInv'
<1>1. TypeOK'
  BY Slots DEF IInv, TypeOK, State, exitEnd, HeldBy, Running, mutexVars, procVars,
     threadVars
<1>2. SlotsOK'
  BY Slots, SMT DEF IInv, TypeOK, SlotsOK, exitEnd, HeldBy, Running, mutexVars, procVars,
     threadVars
<1>3. MutexesOK'
  BY Slots DEF IInv, TypeOK, MutexesOK, exitEnd, HeldBy, Running, mutexVars, procVars,
     threadVars
<1>4. HoldersOK'
  BY Slots, SMT DEF IInv, TypeOK, HoldersOK, Gone, exitEnd, HeldBy, Running, mutexVars,
     procVars, threadVars
<1>5. HandOverReserved'
  BY Slots DEF IInv, TypeOK, HandOverReserved, exitEnd, HeldBy, Running, mutexVars,
     procVars, threadVars
<1>6. QueueOK'
  BY Slots, SMTT(30) DEF IInv, TypeOK, QueueOK, exitEnd, HeldBy, Running, mutexVars, procVars,
     threadVars
<1> QED BY <1>1, <1>2, <1>3, <1>4, <1>5, <1>6 DEF IInv

\* wait frees the process and all its slots.
LEMMA waitStep ==
    ASSUME IInv, NEW p \in Procs, wait(p)
    PROVE  IInv'
<1>1. TypeOK'
  BY Slots, SMTT(30) DEF IInv, TypeOK, State, wait, clear_thread, HeldBy, Threads, User, Frame, Op,
     mutexVars, procVars, threadVars
<1>2. SlotsOK'
  <2> DEFINE S == {t \in Threads(p) : tstate[t] # "UNUSED"}
  <2>1. clear_thread(S) /\ S \in SUBSET Thread
    BY DEF wait, Threads
  <2>2. \A r \in S : tstate'[r] = "UNUSED" /\ at'[r] = User /\ ~blocked'[r]
    BY <2>1, ZenonT(40) DEF clear_thread
  <2>3. \A r \in Thread \ S : /\ tstate'[r] = tstate[r] /\ tid'[r] = tid[r]
                              /\ at'[r] = at[r] /\ blocked'[r] = blocked[r]
    BY <2>1 DEF clear_thread, IInv, TypeOK
  <2>4. \A i \in Tix : tstate'[<<p, i>>] = "UNUSED"
    BY <2>2, <2>3, Slots DEF Threads
  <2>5. \A q \in Procs : pstate'[q] = "UNUSED" => pstate[q] = "UNUSED" \/ q = p
    BY DEF wait, IInv, TypeOK
  <2> QED BY <2>1, <2>2, <2>3, <2>4, <2>5, SlotsCleared, ZenonT(80)
<1>3. MutexesOK'
  BY Slots, SMT DEF IInv, TypeOK, MutexesOK, wait, clear_thread, HeldBy, Threads, User, Frame,
     Op, mutexVars, procVars, threadVars
<1>4. HoldersOK'
  BY Slots, SMTT(30) DEF IInv, TypeOK, HoldersOK, Gone, wait, clear_thread, HeldBy, Threads, User,
     Frame, Op, mutexVars, procVars, threadVars
<1>5. HandOverReserved'
  BY Slots, SMTT(30) DEF IInv, TypeOK, HandOverReserved, wait, clear_thread, HeldBy, Threads, User,
     Frame, Op, mutexVars, procVars, threadVars
<1>6. QueueOK'
  BY Slots DEF IInv, TypeOK, QueueOK, wait, clear_thread, HeldBy, Threads, User, Frame,
     Op, mutexVars, procVars, threadVars
<1> QED BY <1>1, <1>2, <1>3, <1>4, <1>5, <1>6 DEF IInv

\* kill wakes a thread, which may be blocked.
LEMMA killStep ==
    ASSUME IInv, NEW p \in Procs, kill(p)
    PROVE  IInv'
<1>1. TypeOK'
  BY Slots, ZenonT(60) DEF IInv, TypeOK, State, kill, IsLeast, mutexVars, procVars, threadVars
<1>2. SlotsOK'
  BY Slots, SMTT(30) DEF IInv, TypeOK, SlotsOK, kill, IsLeast, mutexVars, procVars, threadVars
<1>3. MutexesOK'
  BY Slots, SMTT(30) DEF IInv, TypeOK, MutexesOK, kill, IsLeast, mutexVars, procVars, threadVars
<1>4. HoldersOK'
  BY Slots, SMTT(30) DEF IInv, TypeOK, HoldersOK, Gone, kill, IsLeast, mutexVars, procVars, threadVars
<1>5. HandOverReserved'
  BY Slots DEF IInv, TypeOK, HandOverReserved, kill, IsLeast, mutexVars, procVars,
     threadVars
<1>6. QueueOK'
  BY Slots, SMTT(30) DEF IInv, TypeOK, QueueOK, kill, IsLeast, mutexVars, procVars, threadVars
<1> QED BY <1>1, <1>2, <1>3, <1>4, <1>5, <1>6 DEF IInv

\* exec wakes the siblings, which may be blocked.
LEMMA execMarkStep ==
    ASSUME IInv, NEW t \in Thread, execMark(t)
    PROVE  IInv'
<1>1. TypeOK'
  BY Slots, SMTT(30) DEF IInv, TypeOK, State, execMark, Siblings, Threads, Running, Frame, Op, User,
     mutexVars, procVars, threadVars
<1>2. SlotsOK'
  BY Slots, SMTT(30) DEF IInv, TypeOK, SlotsOK, execMark, Siblings, Threads, Running, Frame, Op,
     User, mutexVars, procVars, threadVars
<1>3. MutexesOK'
  BY Slots DEF IInv, TypeOK, MutexesOK, execMark, Siblings, Threads, Running, Frame, Op,
     User, mutexVars, procVars, threadVars
<1>4. HoldersOK'
  BY Slots, SMTT(30) DEF IInv, TypeOK, HoldersOK, Gone, execMark, Siblings, Threads, Running, Frame,
     Op, User, mutexVars, procVars, threadVars
<1>5. HandOverReserved'
  BY Slots, ZenonT(60) DEF IInv, TypeOK, HandOverReserved, execMark, Siblings, Threads, Running,
     Frame, Op, User, mutexVars, procVars, threadVars
<1>6. QueueOK'
  BY Slots, SMTT(30) DEF IInv, TypeOK, QueueOK, execMark, Siblings, Threads, Running, Frame, Op,
     User, mutexVars, procVars, threadVars
<1> QED BY <1>1, <1>2, <1>3, <1>4, <1>5, <1>6 DEF IInv

\* exec frees the slots of the siblings.
LEMMA execEndStep ==
    ASSUME IInv, NEW t \in Thread, execEnd(t)
    PROVE  IInv'
<1>1. TypeOK'
  BY Slots, SMTT(30) DEF IInv, TypeOK, State, execEnd, Siblings, Threads, Running, Frame, Op, User,
     mutexVars, procVars, threadVars
<1>2. SlotsOK'
  <2> DEFINE S == {s \in Siblings(t) : tstate[s] = "ZOMBIE"}
  <2>1. S \in SUBSET Thread /\ t \notin S /\ tstate[t] = "RUNNING"
    BY DEF execEnd, Running, Siblings, Threads
  <2>2. \A r \in S : tstate'[r] = "UNUSED" /\ at'[r] = User /\ ~blocked'[r]
    BY <2>1 DEF execEnd
  <2>3. \A r \in Thread \ S : /\ tstate'[r] = tstate[r] /\ tid'[r] = tid[r]
                              /\ at'[r] = at[r] \/ (at'[r] = User /\ tstate[r] # "UNUSED")
                              /\ blocked'[r] = blocked[r]
    BY <2>1 DEF execEnd, IInv, TypeOK
  <2>4. UNCHANGED pstate
    BY DEF execEnd
  <2> QED BY <2>1, <2>2, <2>3, <2>4, SlotsCleared, ZenonT(40)
<1>3. MutexesOK'
  BY Slots, SMT DEF IInv, TypeOK, MutexesOK, execEnd, Siblings, Threads, Running, Frame, Op,
     User, mutexVars, procVars, threadVars
<1>4. HoldersOK'
  BY Slots, SMTT(30) DEF IInv, TypeOK, HoldersOK, Gone, execEnd, Siblings, Threads, Running, Frame,
     Op, User, mutexVars, procVars, threadVars
<1>5. HandOverReserved'
  BY Slots DEF IInv, TypeOK, HandOverReserved, execEnd, Siblings, Threads, Running, Frame,
     Op, User, mutexVars, procVars, threadVars
<1>6. QueueOK'
  BY Slots DEF IInv, TypeOK, QueueOK, execEnd, Siblings, Threads, Running, Frame, Op,
     User, mutexVars, procVars, threadVars
<1> QED BY <1>1, <1>2, <1>3, <1>4, <1>5, <1>6 DEF IInv

-----------------------------------------------------------------------------
(***************************************************************************)
(* The theorems.                                                           *)
(***************************************************************************)
\* The tables are empty at boot.
LEMMA InitIInv == Init => IInv
<1> SUFFICES ASSUME Init
             PROVE  IInv
  OBVIOUS
<1>1. TypeOK
  BY Slots, UserFrame DEF Init, TypeOK, State
<1>2. SlotsOK
  BY Slots, UserFrame DEF Init, SlotsOK, TakesMutex
<1>3. MutexesOK /\ HoldersOK
  BY DEF Init, MutexesOK, HoldersOK
<1>4. HandOverReserved /\ QueueOK
  BY UserFrame DEF Init, HandOverReserved, QueueOK
<1> QED BY <1>1, <1>2, <1>3, <1>4 DEF IInv

\* Every step preserves the invariant.
LEMMA NextIInv == IInv /\ [Next]_vars => IInv'
<1> SUFFICES ASSUME IInv, [Next]_vars
             PROVE  IInv'
  OBVIOUS
<1>1. ASSUME NEW t \in Thread, CallStep(t)
      PROVE  IInv'
  BY <1>1, allocStep, deallocStep, lockStep, lockResumeStep, unlockStep DEF CallStep
<1>2. ASSUME NEW t \in Thread, LifeStep(t)
      PROVE  IInv'
  BY <1>2, createStep, kexitStep, joinStep, exitMarkStep, exitEndStep, execMarkStep,
     execEndStep DEF LifeStep
<1>3. ASSUME NEW t \in Thread, ThreadStep(t)
      PROVE  IInv'
  BY <1>1, <1>2, <1>3, syscallStep, dispatchStep, yieldStep, sleepStep, wakeStep DEF ThreadStep
<1>4. ASSUME NEW p \in Procs, fork(p) \/ wait(p) \/ kill(p)
      PROVE  IInv'
  BY <1>4, forkStep, waitStep, killStep
<1>5. CASE UNCHANGED vars
  <2>1. UNCHANGED <<mutexVars, procVars, threadVars, at, holds, panic>>
    BY <1>5 DEF vars
  <2>2. panic' \in BOOLEAN
    BY <2>1 DEF IInv, TypeOK
  <2> QED BY <2>1, <2>2, PanicStep
<1> QED BY <1>3, <1>4, <1>5 DEF Next

\* The invariant holds in every reachable state.
LEMMA Invariance == Spec => []IInv
BY InitIInv, NextIInv, PTL DEF Spec

\* The tables of mutexes, processes and threads keep their types.
THEOREM TypeCorrect == Spec => []TypeOK
BY Invariance, IInvImplies, PTL

\* Two threads never hold the same kthread mutex, for any number of processes,
\* threads and mutexes and whatever is killed, exits or execs meanwhile.
THEOREM MutualExclusionHolds == Spec => []MutualExclusion
BY Invariance, IInvImplies, PTL

\* What dealloc's comment relies on: a mutex that is not locked has no thread
\* queued for it.
THEOREM NoForgottenWaiters == Spec => []UnlockedHasNoWaiters
BY Invariance, IInvImplies, PTL

\* A mutex that unlock() has handed over stays reserved for the thread that was
\* woken until it runs, though the thread's own slot may be killed meanwhile.
THEOREM HandOverCorrect == Spec => []HandOverReserved
BY Invariance, PTL DEF IInv

-----------------------------------------------------------------------------
(***************************************************************************)
(* "Thread is Blocked": who sleeps for a mutex sleeps on its channel, and  *)
(* who is awake and still blocked has been killed.                         *)
(***************************************************************************)
BlockedOK ==
    \A t \in Thread : blocked[t] =>
        /\ tstate[t] = "SLEEPING" => chan[t] \in Mutex
        /\ tstate[t] \in {"RUNNABLE", "RUNNING"} => Killed(t)

\* The calls: lock() blocks the caller as it falls asleep, unlock() and the end of
\* a thread take the mark away.
LEMMA CallBlockedOK ==
    ASSUME IInv, BlockedOK, NEW t \in Thread, syscall(t) \/ CallStep(t) PROVE BlockedOK'
<1>1. CASE UNCHANGED <<threadVars, pkilled>>
  BY <1>1, SMTT(30) DEF threadVars, BlockedOK, Killed
<1>2. CASE kthread_mutex_lock(t)
  <2>1. ASSUME UNCHANGED <<tid, tkilled, pkilled>>, blocked' = [blocked EXCEPT ![t] = TRUE],
               sleep(t, at[t].m, [op |-> "wait", m |-> at[t].m])
        PROVE  BlockedOK'
    <3>1. at[t].m \in Mutex
      BY <1>2, RunningOK DEF kthread_mutex_lock, TakesMutex
    <3> QED BY <2>1, <3>1, SMTT(30) DEF sleep, BlockedOK, Killed, IInv, TypeOK
  <2> QED BY <1>1, <1>2, <2>1, ZenonT(40) DEF kthread_mutex_lock, procVars
<1>3. CASE kthread_mutex_unlock(t)
  <2>1. ASSUME NEW w \in Thread, Wake(w), UNCHANGED <<tid, tkilled, pkilled>> PROVE BlockedOK'
    BY <2>1 DEF Wake, BlockedOK, Killed, IInv, TypeOK
  <2>2. ASSUME NEW j \in Waiting(t, at[t].m) PROVE <<t[1], j>> \in Thread
    BY Slots DEF Waiting
  <2> QED BY <1>1, <1>3, <2>1, <2>2 DEF kthread_mutex_unlock, procVars, threadVars
<1> QED BY <1>1, <1>2, <1>3, SMTT(30) DEF syscall, CallStep, kthread_mutex_alloc, kthread_mutex_dealloc,
           lockResume, procVars

\* Scheduling: wakeup() on another channel does not reach who waits for a mutex.
LEMMA ScheduleBlockedOK ==
    ASSUME IInv, BlockedOK, NEW t \in Thread,
           dispatch(t) \/ yield(t) \/ sleepOther(t) \/ wakeOther(t)
    PROVE  BlockedOK'
<1>1. CASE dispatch(t) \/ yield(t)
  BY <1>1, SMT DEF dispatch, yield, BlockedOK, Killed, IInv, TypeOK
<1>2. CASE sleepOther(t)
  <2>1. ~blocked[t]
    BY <1>2, ZenonT(40) DEF sleepOther, Running, IInv, QueueOK
  <2> QED BY <1>2, <2>1, SMTT(30) DEF sleepOther, sleep, BlockedOK, Killed, IInv, TypeOK
<1>3. CASE wakeOther(t)
  <2>1. ~blocked[t]
    BY <1>3, Slots DEF wakeOther, BlockedOK
  <2> QED BY <1>3, <2>1 DEF wakeOther, BlockedOK, Killed, IInv, TypeOK
<1> QED BY <1>1, <1>2, <1>3

\* Creation and end of threads.
LEMMA LifeBlockedOK ==
    ASSUME IInv, BlockedOK, NEW t \in Thread, LifeStep(t) PROVE BlockedOK'
<1>1. CASE kthread_create(t)
  <2>1. PICK i \in Tix : allocthread(t[1], i)
    BY <1>1 DEF kthread_create
  <2>2. <<t[1], i>> \in Thread /\ tstate[<<t[1], i>>] = "UNUSED"
    BY <2>1, Slots DEF allocthread, IsLeast
  <2>3. ~blocked[<<t[1], i>>] /\ UNCHANGED <<blocked, chan, tkilled, pkilled>>
    BY <1>1, <2>2 DEF kthread_create, procVars, IInv, SlotsOK
  <2>4. \A s \in Thread : s # <<t[1], i>> => tstate'[s] = tstate[s]
    BY <2>1, <2>2, SMTT(30) DEF allocthread, IInv, TypeOK
  <2> QED BY <2>3, <2>4 DEF BlockedOK, Killed
<1>2. CASE kthread_exit(t) \/ exitEnd(t)
  BY <1>2, SMTT(30) DEF kthread_exit, exitEnd, BlockedOK, Killed, IInv, TypeOK
<1>3. CASE kthread_join(t)
  BY <1>3, ZenonT(80) DEF kthread_join, clear_thread, procVars, BlockedOK, Killed
<1>4. CASE exitMark(t)
  BY <1>4 DEF exitMark, procVars, BlockedOK, Killed
<1>5. CASE execMark(t)
  <2>1. tstate[t] = "RUNNING"
    BY <1>5, SMTT(30) DEF execMark, Running
  <2>2. \A s \in Thread : s[1] = t[1] /\ tstate[s] = "SLEEPING" => tkilled'[s]
    BY <1>5, <2>1 DEF execMark, Siblings, Threads
  <2> QED BY <1>5, <2>2 DEF execMark, procVars, BlockedOK, Killed
<1>6. CASE execEnd(t)
  BY <1>6 DEF execEnd, BlockedOK, Killed
<1> QED BY <1>1, <1>2, <1>3, <1>4, <1>5, <1>6 DEF LifeStep

\* The processes: kill() wakes a thread that is blocked, and marks its process.
LEMMA ProcBlockedOK ==
    ASSUME IInv, BlockedOK, NEW p \in Procs, fork(p) \/ wait(p) \/ kill(p) PROVE BlockedOK'
<1>1. CASE fork(p)
  BY <1>1, Slots, SMTT(30) DEF fork, allocthread, IsLeast, BlockedOK, Killed, IInv, TypeOK, SlotsOK
<1>2. CASE wait(p)
  <2>1. \A t \in Thread : blocked'[t] => t[1] # p
    BY <1>2, ZenonT(40) DEF wait, clear_thread, Threads, IInv, SlotsOK
  <2> QED BY <1>2, <2>1, SMTT(30) DEF wait, clear_thread, Threads, BlockedOK, Killed, IInv, TypeOK
<1>3. CASE kill(p)
  BY <1>3, SMTT(30) DEF kill, BlockedOK, Killed, IInv, TypeOK
<1> QED BY <1>1, <1>2, <1>3, SMTT(30)

\* The step that panics is that of a thread which was killed while it waited; there
\* is none after it.
LEMMA PanicIsKilled ==
    ASSUME IInv, BlockedOK, NEW t \in Thread, ThreadStep(t), ~panic, panic'
    PROVE  Running(t, "wait")' /\ blocked'[t] /\ Killed(t)'
<1>1. \/ kthread_mutex_lock(t) /\ blocked[t]
      \/ lockResume(t) /\ blocked[t] /\ UNCHANGED <<at, procVars, threadVars>>
  BY ZenonT(80) DEF ThreadStep, CallStep, LifeStep, syscall, kthread_mutex_alloc, kthread_mutex_dealloc,
     kthread_mutex_lock, lockResume, lockEnd, kthread_mutex_unlock, kthread_create, kthread_exit,
     kthread_join, exitMark, exitEnd, execMark, execEnd, dispatch, yield, sleepOther, wakeOther
<1>2. ~kthread_mutex_lock(t) \/ ~blocked[t]
  BY ZenonT(80) DEF kthread_mutex_lock, Running, IInv, QueueOK
<1>3. Running(t, "wait") /\ blocked[t] /\ UNCHANGED <<at, procVars, threadVars>>
  BY <1>1, <1>2 DEF lockResume
<1>4. Killed(t)
  BY <1>3 DEF BlockedOK, Running
<1> QED BY <1>3, <1>4, SMTT(30) DEF Running, Killed, procVars, threadVars

\* lock() panics only in a thread that kill() or exec() has woken, for any number
\* of processes, threads and mutexes.
THEOREM PanicsOnlyWhenKilled == Spec => []NoMutexPanic
<1>1. Init => BlockedOK /\ NoMutexPanic
  BY DEF Init, BlockedOK, NoMutexPanic
<1>2. IInv /\ BlockedOK /\ [Next]_vars => BlockedOK'
  <2>1. UNCHANGED vars /\ BlockedOK => BlockedOK'
    BY DEF vars, procVars, threadVars, BlockedOK, Killed
  <2> QED BY <2>1, CallBlockedOK, ScheduleBlockedOK, LifeBlockedOK, ProcBlockedOK
          DEF Next, ThreadStep
<1>3. IInv /\ BlockedOK /\ NoMutexPanic /\ [Next]_vars => NoMutexPanic'
  <2> SUFFICES ASSUME IInv, BlockedOK, NoMutexPanic, [Next]_vars, panic' PROVE NoMutexPanic'
    BY DEF NoMutexPanic
  <2>1. CASE UNCHANGED vars
    BY <2>1 DEF vars, procVars, threadVars, NoMutexPanic, Running, Killed
  <2>2. ASSUME NEW t \in Thread, ThreadStep(t), ~panic PROVE NoMutexPanic'
    BY <2>2, PanicIsKilled, SMTT(30) DEF NoMutexPanic
  <2>3. ASSUME NEW p \in Procs, fork(p) \/ wait(p) \/ kill(p) PROVE panic' = panic
    BY <2>3 DEF fork, wait, kill
  <2> QED BY <2>1, <2>2, <2>3, ZenonT(40) DEF Next
<1> QED BY <1>1, <1>2, <1>3, Invariance, PTL DEF Spec

-----------------------------------------------------------------------------
(***************************************************************************)
(* The mutexes implement HandoffMutex, and no waiter is overtaken.         *)
(*                                                                         *)
(* Both follow from the same invariant.  The steps of lock and unlock are  *)
(* Acquire, Wait and Release; alloc, dealloc and the end of a lock that    *)
(* was handed over change nothing that can be seen; and all the others     *)
(* leave the mutexes alone and at most take threads away from those that   *)
(* wait.                                                                   *)
(***************************************************************************)
\* A step of the abstract mutexes, or none; the turns it takes.
Simulated == [Abstract!Next]_<<Owner, Waiters>>
InTurn ==
    \A m \in Mutex : mtid'[m] # mtid[m] =>
        \A t \in Waiters[m] \cap Waiters'[m] :
            Turns(mtid'[m], t[2]) < Turns(mtid[m], t[2])

-----------------------------------------------------------------------------
\* Who waits for a mutex, and a mutex that is locked has an owner.
LEMMA WaitersAre ==
    /\ \A m \in Mutex : Waiters[m] = {t \in Thread : blocked[t] /\ chan[t] = m}
    /\ DOMAIN Waiters = Mutex /\ DOMAIN Owner = Mutex
BY DEF Waiters, Owner

LEMMA OwnerIs ==
    ASSUME TypeOK, NEW m \in Mutex
    PROVE  /\ Owner[m] = Nobody <=> ~(allocated[m] /\ locked[m])
           /\ allocated[m] /\ locked[m] => Owner[m] = <<home[m], mtid[m]>>
<1>1. home[m] \in Procs /\ -1 \notin Procs
  BY SizeAssumption, SMT DEF TypeOK, Procs
<1>2. <<home[m], mtid[m]>> # Nobody
  BY <1>1 DEF Nobody
<1> QED BY <1>2 DEF Owner

\* Steps that leave the mutexes alone, and add no thread to those that wait.
Thinned ==
    /\ UNCHANGED mutexVars
    /\ \A s \in Thread : blocked'[s] /\ chan'[s] \in Mutex => blocked[s] /\ chan'[s] = chan[s]

LEMMA ThinnedOK ==
    ASSUME IInv, Thinned PROVE Simulated /\ InTurn
<1> DEFINE C == {s \in Thread : ~(blocked'[s] /\ chan'[s] = chan[s])}
<1>1. Owner' = Owner
  BY DEF Thinned, mutexVars, Owner
<1>2. Waiters' = [m \in Mutex |-> Waiters[m] \ C]
  BY DEF Thinned, Waiters
<1>3. Abstract!Leave(C)
  BY <1>1, <1>2 DEF Abstract!Leave
<1>4. C \in SUBSET Thread
  OBVIOUS
<1>5. Simulated
  BY <1>3, <1>4 DEF Simulated, Abstract!Next
<1>6. InTurn
  BY DEF InTurn, Thinned, mutexVars
<1> QED BY <1>5, <1>6

-----------------------------------------------------------------------------
\* alloc takes a mutex that nobody waits for.
LEMMA allocOK ==
    ASSUME IInv, NEW t \in Thread, kthread_mutex_alloc(t) PROVE Simulated /\ InTurn
<1>1. Waiters' = Waiters
  BY DEF kthread_mutex_alloc, threadVars, Waiters
<1>2. CASE UNCHANGED mutexVars
  BY <1>1, <1>2 DEF mutexVars, Owner, Simulated, InTurn
<1>3. ASSUME NEW m \in Mutex, ~allocated[m],
             allocated' = [allocated EXCEPT ![m] = TRUE],
             locked' = [locked EXCEPT ![m] = FALSE],
             mtid' = [mtid EXCEPT ![m] = -1],
             home' = [home EXCEPT ![m] = t[1]]
      PROVE  Simulated /\ InTurn
  <2>1. Owner' = Owner
    BY <1>3 DEF IInv, TypeOK, Owner
  <2>2. Waiters[m] = {}
    BY <1>3, ZenonT(60) DEF IInv, QueueOK, Waiters
  <2>3. \A n \in Mutex \ {m} : mtid'[n] = mtid[n]
    BY <1>3 DEF IInv, TypeOK
  <2> QED BY <1>1, <2>1, <2>2, <2>3 DEF Simulated, InTurn
<1> QED BY <1>2, <1>3 DEF kthread_mutex_alloc, IsLeast

\* dealloc gives up a mutex that is not locked, so nobody waits for it.
LEMMA deallocOK ==
    ASSUME IInv, NEW t \in Thread, kthread_mutex_dealloc(t) PROVE Simulated /\ InTurn
<1> DEFINE m == at[t].m
<1>1. Waiters' = Waiters
  BY DEF kthread_mutex_dealloc, threadVars, Waiters
<1>2. CASE UNCHANGED mutexVars
  BY <1>1, <1>2 DEF mutexVars, Owner, Simulated, InTurn
<1>3. ASSUME ~locked[m], UNCHANGED home,
             allocated' = [allocated EXCEPT ![m] = FALSE],
             locked' = [locked EXCEPT ![m] = FALSE],
             mtid' = [mtid EXCEPT ![m] = -1]
      PROVE  Simulated /\ InTurn
  <2>0. m \in Mutex
    BY RunningOK DEF kthread_mutex_dealloc, TakesMutex
  <2> HIDE DEF m
  <2>1. Owner' = Owner
    BY <1>3, <2>0 DEF IInv, TypeOK, Owner
  <2>2. Waiters[m] = {}
    BY <1>3, <2>0, ZenonT(60) DEF IInv, QueueOK, Waiters
  <2>3. \A n \in Mutex \ {m} : mtid'[n] = mtid[n]
    BY <1>3 DEF IInv, TypeOK
  <2> QED BY <1>1, <2>1, <2>2, <2>3 DEF Simulated, InTurn
<1> QED BY <1>2, <1>3 DEF kthread_mutex_dealloc, MayDealloc

\* lock of a free mutex acquires it; of another, the caller joins those that wait.
LEMMA lockOK ==
    ASSUME IInv, NEW t \in Thread, kthread_mutex_lock(t) PROVE Simulated /\ InTurn
<1> DEFINE m == at[t].m
<1>1. m \in Mutex /\ ~blocked[t] /\ tid[t] = t[2] /\ t = <<t[1], t[2]>>
  BY RunningOK, Slots, ZenonT(60) DEF kthread_mutex_lock, TakesMutex
<1>2. ASSUME Lockable(t, m)
      PROVE  allocated[m] /\ home[m] = t[1] /\ mtid[m] # t[2]
  BY <1>1, <1>2, Slots DEF Lockable, Valid, IInv, MutexesOK
<1>3. CASE UNCHANGED <<mutexVars, threadVars>>
  BY <1>3, ThinnedOK DEF Thinned, threadVars
<1>4. ASSUME Lockable(t, m), ~locked[m], lockEnd(t, m), UNCHANGED threadVars
      PROVE  Simulated /\ InTurn
  <2>1. /\ locked' = [locked EXCEPT ![m] = TRUE] /\ mtid' = [mtid EXCEPT ![m] = t[2]]
        /\ UNCHANGED <<allocated, home, blocked, chan>>
    BY <1>1, <1>4 DEF lockEnd, Take, threadVars
  <2> HIDE DEF m
  <2>2. Owner[m] = Nobody
    BY <1>1, <1>4, OwnerIs DEF IInv
  <2>3. Owner' = [Owner EXCEPT ![m] = t]
    BY <1>1, <1>2, <1>4, <2>1 DEF IInv, TypeOK, Owner
  <2>4. Waiters' = Waiters
    BY <2>1 DEF Waiters
  <2>5. Abstract!Acquire(t, m)
    BY <2>2, <2>3, <2>4 DEF Abstract!Acquire
  <2>6. Waiters[m] = {}
    BY <1>1, <1>4, ZenonT(60) DEF IInv, QueueOK, Waiters
  <2>7. \A n \in Mutex \ {m} : mtid'[n] = mtid[n]
    BY <2>1 DEF IInv, TypeOK
  <2> QED BY <1>1, <2>4, <2>5, <2>6, <2>7 DEF Simulated, Abstract!Next, InTurn
<1>5. ASSUME Lockable(t, m), locked[m], UNCHANGED mutexVars,
             blocked' = [blocked EXCEPT ![t] = TRUE], chan' = [chan EXCEPT ![t] = m]
      PROVE  Simulated /\ InTurn
  <2> HIDE DEF m
  <2>1. Owner[m] = <<home[m], mtid[m]>> /\ Owner[m] # Nobody
    BY <1>1, <1>2, <1>5, OwnerIs DEF IInv
  <2>2. Owner[m] # t
    BY <1>1, <1>2, <1>5, <2>1, SMT
  <2>3. Owner' = Owner
    BY <1>5 DEF mutexVars, Owner
  <2>4. Waiters' = [Waiters EXCEPT ![m] = @ \cup {t}] /\ t \notin Waiters[m]
    <3>1. ASSUME NEW n \in Mutex, NEW s \in Thread
          PROVE  blocked'[s] /\ chan'[s] = n <=>
                     (blocked[s] /\ chan[s] = n) \/ (n = m /\ s = t)
      BY <1>1, <1>5 DEF IInv, TypeOK
    <3>2. \A n \in Mutex : Waiters'[n] = IF n = m THEN Waiters[n] \cup {t} ELSE Waiters[n]
      BY <3>1, SMT DEF Waiters
    <3> QED BY <1>1, <3>2 DEF Waiters
  <2>5. Abstract!Wait(t, m)
    BY <2>1, <2>2, <2>3, <2>4 DEF Abstract!Wait
  <2> QED BY <1>1, <1>5, <2>5 DEF Simulated, Abstract!Next, InTurn, mutexVars
<1> QED BY <1>3, <1>4, <1>5 DEF kthread_mutex_lock, sleep

\* A lock that ends after a sleep finds the mutex already its own.
LEMMA lockResumeOK ==
    ASSUME IInv, NEW t \in Thread, lockResume(t) PROVE Simulated /\ InTurn
<1> DEFINE m == at[t].m
<1>1. m \in Mutex /\ at[t].op = "wait"
  BY RunningOK DEF lockResume, Running, TakesMutex
<1>2. CASE UNCHANGED mutexVars
  BY <1>2, ThinnedOK DEF Thinned, threadVars, lockResume
<1>3. CASE ~blocked[t] /\ Take(t, m) /\ UNCHANGED <<allocated, home>>
  <2>1. locked[m] /\ mtid[m] = tid[t]
    BY <1>1, <1>3 DEF IInv, HandOverReserved
  <2> HIDE DEF m
  <2>2. UNCHANGED mutexVars
    BY <1>1, <1>3, <2>1 DEF Take, IInv, TypeOK, mutexVars
  <2> QED BY <2>2, ThinnedOK DEF Thinned, threadVars, lockResume
<1> QED BY <1>2, <1>3 DEF lockResume, lockEnd

\* The scan of unlock starts behind the caller's slot: whoever is next has been
\* passed by nobody, and all who go on waiting come nearer.
LEMMA Nearer ==
    ASSUME NEW k \in Tix, NEW i \in Tix \ {k}, NEW j \in Tix \ {k, i},
           After(k, i) <= After(k, j)
    PROVE  Turns(i, j) < Turns(k, j)
BY SizeAssumption, SMT DEF Tix, After, Turns

\* unlock releases the mutex, to the next of those that wait if there are any.
LEMMA unlockOK ==
    ASSUME IInv, NEW t \in Thread, kthread_mutex_unlock(t) PROVE Simulated /\ InTurn
<1> DEFINE m == at[t].m
<1>1. m \in Mutex /\ ~blocked[t] /\ tid[t] = t[2] /\ t = <<t[1], t[2]>>
      /\ t[1] \in Procs /\ t[2] \in Tix
  BY RunningOK, Slots DEF kthread_mutex_unlock, TakesMutex
<1>2. UNCHANGED <<allocated, home, tid>>
  BY DEF kthread_mutex_unlock
<1>3. CASE UNCHANGED <<locked, mtid, blocked, chan>>
  BY <1>2, <1>3, ThinnedOK DEF Thinned, mutexVars
<1> HIDE DEF m
<1>4. ASSUME Unlockable(t, m)
      PROVE  /\ allocated[m] /\ locked[m] /\ home[m] = t[1] /\ mtid[m] = t[2]
             /\ Owner[m] = t
             /\ \A s \in Waiters[m] : s \in Thread /\ s[1] = t[1] /\ s[2] \in Waiting(t, m)
  <2>1. allocated[m] /\ locked[m] /\ home[m] = t[1] /\ mtid[m] = t[2]
    BY <1>1, <1>4, Slots, SMT DEF Unlockable, Valid, IInv, MutexesOK
  <2>2. Owner[m] = t
    BY <1>1, <2>1, OwnerIs DEF IInv
  <2>3. ASSUME NEW s \in Waiters[m]
        PROVE  s \in Thread /\ s[1] = t[1] /\ s[2] \in Waiting(t, m)
    <3>1. s \in Thread /\ blocked[s] /\ chan[s] = m
      BY <1>1, WaitersAre, SMT
    <3>2. s[1] = t[1]
      BY <1>1, <2>1, <3>1 DEF IInv, QueueOK
    <3> QED BY <1>1, <3>1, <3>2, Slots, SMT DEF Waiting
  <2> QED BY <2>1, <2>2, <2>3
<1>5. ASSUME Unlockable(t, m), Waiting(t, m) = {},
             locked' = [locked EXCEPT ![m] = FALSE], mtid' = [mtid EXCEPT ![m] = -1],
             UNCHANGED <<blocked, chan>>
      PROVE  Simulated /\ InTurn
  <2>1. Waiters[m] = {}
    BY <1>4, <1>5
  <2>2. Waiters' = Waiters
    BY <1>5 DEF Waiters
  <2>3. Owner' = [Owner EXCEPT ![m] = Nobody]
    BY <1>1, <1>2, <1>5 DEF IInv, TypeOK, Owner
  <2>4. Abstract!Release(t, m)
    BY <1>4, <1>5, <2>1, <2>2, <2>3 DEF Abstract!Release
  <2>5. \A n \in Mutex \ {m} : mtid'[n] = mtid[n]
    BY <1>5 DEF IInv, TypeOK
  <2> QED BY <1>1, <2>1, <2>4, <2>5 DEF Simulated, Abstract!Next, InTurn
<1>6. ASSUME Unlockable(t, m), NEW i \in Waiting(t, m),
             \A j \in Waiting(t, m) : After(t[2], i) <= After(t[2], j),
             Wake(<<t[1], i>>), HandOver(t, m, <<t[1], i>>)
      PROVE  Simulated /\ InTurn
  <2> DEFINE w == <<t[1], i>>
  <2>1. w \in Thread /\ w # t /\ w[1] = t[1] /\ w[2] = i /\ i \in Tix \ {t[2]}
        /\ blocked[w] /\ chan[w] = m
    BY <1>1, Slots DEF Waiting
  <2>2. w \in Waiters[m] /\ tid[w] = i
    <3>1. w \in Waiters[m]
      BY <1>1, <2>1, WaitersAre
    <3>2. tid[w] = i
      BY <2>1 DEF IInv, SlotsOK
    <3> QED BY <3>1, <3>2
  <2>3. /\ mtid' = [mtid EXCEPT ![m] = i] /\ locked' = locked
        /\ chan' = [chan EXCEPT ![w] = NoChan] /\ blocked' = [blocked EXCEPT ![w] = FALSE]
    BY <1>6, <2>2 DEF HandOver, Wake
  <2>4. w = <<home[m], i>>
    BY <1>4, <1>6
  <2> HIDE DEF w
  <2>5. Owner' = [Owner EXCEPT ![m] = w]
    BY <1>1, <1>2, <1>4, <1>6, <2>3, <2>4 DEF IInv, TypeOK, Owner
  <2>6. Waiters' = [Waiters EXCEPT ![m] = @ \ {w}]
    <3>1. ASSUME NEW n \in Mutex, NEW s \in Thread
          PROVE  blocked'[s] /\ chan'[s] = n <=>
                     blocked[s] /\ chan[s] = n /\ ~(n = m /\ s = w)
      BY <1>1, <2>1, <2>3 DEF IInv, TypeOK
    <3>2. \A n \in Mutex : Waiters'[n] = IF n = m THEN Waiters[n] \ {w} ELSE Waiters[n]
      BY <3>1, SMT DEF Waiters
    <3> QED BY <1>1, <3>2 DEF Waiters
  <2>7. Abstract!Release(t, m)
    BY <1>4, <1>6, <2>2, <2>5, <2>6, ZenonT(40) DEF Abstract!Release
  <2>8. \A n \in Mutex \ {m} : mtid'[n] = mtid[n]
    BY <2>3 DEF IInv, TypeOK
  <2>9. ASSUME NEW s \in Waiters[m] \cap Waiters'[m]
        PROVE  Turns(mtid'[m], s[2]) < Turns(mtid[m], s[2])
    <3>1. s \in Thread /\ s[1] = t[1] /\ s[2] \in Waiting(t, m) /\ s # w
      BY <1>1, <1>4, <1>6, <2>6, WaitersAre
    <3>2. s[2] \in Tix \ {t[2], i}
      BY <2>1, <3>1, Slots, SMT DEF Waiting
    <3>3. mtid'[m] = i /\ mtid[m] = t[2]
      BY <1>1, <1>4, <1>6, <2>3 DEF IInv, TypeOK
    <3> QED BY <1>1, <1>6, <2>1, <3>1, <3>2, <3>3, Nearer
  <2> QED BY <1>1, <2>7, <2>8, <2>9 DEF Simulated, Abstract!Next, InTurn
<1> QED BY <1>3, <1>5, <1>6 DEF kthread_mutex_unlock, m

-----------------------------------------------------------------------------
\* Nothing else that happens to threads touches a mutex, or makes a thread wait.
LEMMA threadOK ==
    ASSUME IInv, NEW t \in Thread,
           syscall(t) \/ LifeStep(t) \/ dispatch(t) \/ yield(t) \/ sleepOther(t) \/ wakeOther(t)
    PROVE  Simulated /\ InTurn
<1> SUFFICES Thinned
  BY ThinnedOK
<1> USE DEF Thinned, threadVars, mutexVars
<1>1. CASE syscall(t) \/ yield(t) \/ wakeOther(t)
  BY <1>1 DEF syscall, yield, wakeOther
<1>2. CASE dispatch(t)
  BY <1>2, Slots, ZenonT(60) DEF dispatch, IInv, TypeOK
<1>3. CASE sleepOther(t)
  BY <1>3, Slots, SMTT(30) DEF sleepOther, sleep, IInv, TypeOK
<1>4. CASE kthread_create(t) \/ kthread_exit(t)
  BY <1>4 DEF kthread_create, kthread_exit
<1>5. CASE kthread_join(t)
  BY <1>5, Slots, ZenonT(40) DEF kthread_join, clear_thread
<1>6. CASE exitMark(t) \/ exitEnd(t)
  BY <1>6 DEF exitMark, exitEnd
<1>7. CASE execMark(t) \/ execEnd(t)
  BY <1>7 DEF execMark, execEnd
<1> QED BY <1>1, <1>2, <1>3, <1>4, <1>5, <1>6, <1>7 DEF LifeStep

\* The same of whole processes.
LEMMA procOK ==
    ASSUME IInv, NEW p \in Procs, fork(p) \/ wait(p) \/ kill(p)
    PROVE  Simulated /\ InTurn
<1> SUFFICES Thinned
  BY ThinnedOK, SMTT(30)
<1> USE DEF Thinned, threadVars, mutexVars
<1>1. CASE fork(p) \/ kill(p)
  BY <1>1 DEF fork, kill
<1>2. CASE wait(p)
  BY <1>2, Slots DEF wait, clear_thread
<1> QED BY <1>1, <1>2

\* Every step of the mutexes and their threads.
LEMMA stepOK == IInv /\ [Next]_vars => Simulated /\ InTurn
<1> SUFFICES ASSUME IInv, [Next]_vars PROVE Simulated /\ InTurn
  OBVIOUS
<1>1. ASSUME NEW t \in Thread, ThreadStep(t) PROVE Simulated /\ InTurn
  <2>1. CASE CallStep(t)
    BY <2>1, allocOK, deallocOK, lockOK, lockResumeOK, unlockOK DEF CallStep
  <2> QED BY <1>1, <2>1, threadOK DEF ThreadStep
<1>2. CASE UNCHANGED vars
  <2>1. Thinned
    BY <1>2 DEF vars, Thinned, threadVars
  <2> QED BY <2>1, ThinnedOK
<1> QED BY <1>1, <1>2, procOK DEF Next

\* kthread_mutex_lock and kthread_mutex_unlock implement mutexes that are handed
\* over, whatever happens to the threads that use them.
THEOREM HandoffImplemented == Spec => ImplementsHandoff
<1>1. Init => Abstract!Init
  BY DEF Init, Abstract!Init, Owner, Waiters
<1>2. IInv /\ [Next]_vars => [Abstract!Next]_<<Owner, Waiters>>
  BY stepOK DEF Simulated
<1> QED BY <1>1, <1>2, Invariance, PTL DEF Spec, ImplementsHandoff, Abstract!Spec

\* When unlock gives a mutex to another thread, everyone who goes on waiting for it
\* comes nearer to its turn.
THEOREM NobodyOvertaken == Spec => NoOvertaking
<1>1. IInv /\ [Next]_vars => [InTurn]_vars
  BY stepOK
<1> QED BY <1>1, Invariance, PTL DEF Spec, NoOvertaking, InTurn
===============================================================================
