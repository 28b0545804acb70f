---------------------------- MODULE SpinLockProofs -----------------------------
(***************************************************************************)
(* A spin lock has one holder, interrupts are off while a CPU has a lock   *)
(* and are restored after the last one, and no assertion of spinlock.c and *)
(* sched fails: for every number of CPUs, threads and locks.  The console  *)
(* keeps the rules of the locks (ConsoleRules), so all of this holds of    *)
(* it, and no input of a reader is lost.                                   *)
(***************************************************************************)
EXTENDS ConsoleRules, FiniteSetTheorems

-----------------------------------------------------------------------------
\* Zenon proves the steps that name no other prover.
USE Zenon

\* A CPU pushes finitely many locks.
LEMMA PushedFinite ==
    ASSUME NEW c PROVE IsFiniteSet(Pushed(c)) /\ Cardinality(Pushed(c)) \in Nat
  <1>1. Pushed(c) \subseteq Lock  BY DEF Pushed
  <1>2. IsFiniteSet(Pushed(c))  BY <1>1, LockAssumption, FS_Subset
  <1> QED  BY <1>2, FS_CardinalityType

\* acquire pushes one more lock, with interrupts off.
LEMMA AcquireKeeps ==
    ASSUME IInv, NEW c \in Cpu, NEW l \in Lock \ Pushed(c), acquire(c, l)
    PROVE  IInv'
  <1> USE DEF IInv
  <1>1. LockTypeOK'
    BY SMT DEF LockTypeOK, acquire, pushcli, Steps, Context
  <1>2. LocksOK'
    BY LockAssumption, SMT DEF LockTypeOK, LocksOK, OneHolder, Has, acquire, Run, Pushed, Steps
  <1>3. Pushed(c)' = Pushed(c) \cup {l} /\ \A d \in Cpu \ {c} : Pushed(d)' = Pushed(d)
    BY SMT DEF LockTypeOK, Pushed, acquire, Run
  <1>4. CountOK'
    <2>1. Cardinality(Pushed(c) \cup {l}) = Cardinality(Pushed(c)) + 1
      BY PushedFinite, FS_AddElement
    <2> QED  BY <1>3, <2>1 DEF LockTypeOK, CountOK, acquire, pushcli
  <1>5. ncli[c] = 0 <=> Pushed(c) = {}
    BY PushedFinite, FS_EmptySet DEF CountOK
  <1>6. FlagsOK'
    BY <1>3, <1>5 DEF LockTypeOK, FlagsOK, Fits, Flag, acquire, pushcli
  <1>7. ContextsOK'
    BY SMT DEF ContextsOK, acquire
  <1>8. NoLockPanic'
    BY DEF NoLockPanic, acquire, holding, Pushed
  <1> QED  BY <1>1, <1>2, <1>4, <1>6, <1>7, <1>8

\* xchg takes a lock nobody has; like record and release it keeps it pushed.
LEMMA XchgKeeps ==
    ASSUME IInv, NEW c \in Cpu, xchg(c) PROVE IInv'
  <1> USE DEF IInv
  <1> DEFINE l == step[c][2]
  <1>0. l \in Lock /\ step[c] = <<"spin", l>> /\ ~locked[l]
    BY StepLock, SMT DEF xchg, Run
  <1> HIDE DEF l
  <1>a. locked' = [locked EXCEPT ![l] = TRUE]
        /\ step' = [step EXCEPT ![c] = <<"record", l>>]
        /\ UNCHANGED <<cpu, FL_IF, ncli, intena, on, handler, saved, panicked>>
    BY <1>0 DEF xchg, l
  <1>1. LockTypeOK'
    BY <1>0, <1>a DEF LockTypeOK, Steps, Context
  <1>2. LocksOK'
    <2>1. \A d \in Cpu, m \in Lock : Has(d, m)' <=> Has(d, m) \/ (d = c /\ m = l)
      BY <1>0, <1>a, SMT DEF LockTypeOK, Has
    <2>2. \A d \in Cpu : ~Has(d, l)
      BY <1>0 DEF LocksOK, OneHolder
    <2>3. OneHolder'
      BY <1>0, <1>a, <2>1, <2>2, SMTT(30) DEF LockTypeOK, LocksOK, OneHolder
    <2>4. cpu[l] = None
      BY <1>0, <2>2 DEF LockTypeOK, Has
    <2> QED  BY <1>0, <1>a, <2>3, <2>4 DEF LockTypeOK, LocksOK
  <1>3. \A d \in Cpu : Pushed(d)' = Pushed(d)
    BY <1>0, <1>a, SMT DEF LockTypeOK, Pushed
  <1>4. CountOK'
    BY <1>3, <1>a DEF CountOK
  <1>6. FlagsOK'
    BY <1>3, <1>a DEF FlagsOK, Fits, Flag
  <1>7. ContextsOK' /\ NoLockPanic'
    BY <1>a, SMTT(30) DEF ContextsOK, NoLockPanic
  <1> QED  BY <1>1, <1>2, <1>4, <1>6, <1>7

\* record: lk->cpu was empty, and the lock the CPU was about to record stays its own.
LEMMA RecordKeeps ==
    ASSUME IInv, NEW c \in Cpu, record(c) PROVE IInv'
  <1> USE DEF IInv
  <1> DEFINE l == step[c][2]
  <1>0. l \in Lock /\ step[c] = <<"record", l>>
    BY StepLock, SMT DEF record, Run
  <1> HIDE DEF l
  <1>a. cpu' = [cpu EXCEPT ![l] = c] /\ step' = [step EXCEPT ![c] = Run]
        /\ UNCHANGED <<locked, FL_IF, ncli, intena, on, handler, saved, panicked>>
    BY <1>0 DEF record, l
  <1>1. LockTypeOK'
    BY <1>0, <1>a DEF LockTypeOK, Steps, Context
  <1>2. LocksOK'
    BY <1>0, <1>a, LockAssumption, SMTT(30) DEF LockTypeOK, LocksOK, OneHolder, Has, Steps, Run
  <1>3. \A d \in Cpu : Pushed(d)' = Pushed(d)
    BY <1>0, <1>a, LockAssumption, SMTT(30) DEF LockTypeOK, LocksOK, Pushed, Run
  <1>4. CountOK'
    BY <1>3, <1>a DEF CountOK
  <1>6. FlagsOK'
    BY <1>3, <1>a DEF FlagsOK, Fits, Flag
  <1>7. ContextsOK' /\ NoLockPanic'
    BY <1>a, SMT DEF ContextsOK, NoLockPanic
  <1> QED  BY <1>1, <1>2, <1>4, <1>6, <1>7

\* release finds the CPU holding the lock, and keeps it until the clear.
LEMMA ReleaseKeeps ==
    ASSUME IInv, NEW c \in Cpu, NEW l \in Lock, cpu[l] = c, release(c, l) PROVE IInv'
  <1> USE DEF IInv
  <1>0. locked[l]
    BY DEF LocksOK, OneHolder, Has
  <1>1. LockTypeOK'
    BY DEF LockTypeOK, Steps, Context, release
  <1>2. LocksOK'
    <2>1. \A d \in Cpu, m \in Lock : Has(d, m)' <=> Has(d, m)
      BY LockAssumption, SMT DEF LockTypeOK, Has, Run, release
    <2>2. OneHolder'
      BY <2>1 DEF LocksOK, OneHolder, release
    <2> QED  BY <2>2, LockAssumption DEF LockTypeOK, LocksOK, release
  <1>3. \A d \in Cpu : Pushed(d)' = Pushed(d)
    BY LockAssumption, SMT DEF LockTypeOK, Pushed, Run, release
  <1>4. CountOK'
    BY <1>3 DEF CountOK, release
  <1>6. FlagsOK'
    BY <1>3 DEF FlagsOK, Fits, Flag, release
  <1>7. ContextsOK'
    BY SMT DEF ContextsOK, release
  <1>8. NoLockPanic'
    BY <1>0 DEF NoLockPanic, holding, release
  <1> QED  BY <1>1, <1>2, <1>4, <1>6, <1>7, <1>8

\* clear drops the lock: the count goes down, and at 0 the flag comes back.
LEMMA ClearKeeps ==
    ASSUME IInv, NEW c \in Cpu, clear(c) PROVE IInv'
  <1> USE DEF IInv
  <1> DEFINE l == step[c][2]
  <1>0. l \in Lock /\ step[c] = <<"clear", l>>
    BY StepLock, SMT DEF clear, Run
  <1> HIDE DEF l
  <1>a. locked' = [locked EXCEPT ![l] = FALSE] /\ step' = [step EXCEPT ![c] = Run]
        /\ popcli(c) /\ UNCHANGED <<cpu, on, handler, saved>>
    BY <1>0 DEF clear, l
  <1>1. LockTypeOK'
    BY <1>0, <1>a, SMTT(30) DEF LockTypeOK, Steps, Context, popcli
  <1>2. LocksOK'
    <2>1. cpu[l] = None
      BY <1>0 DEF LocksOK
    <2>2. \A d \in Cpu, m \in Lock : Has(d, m)' <=> Has(d, m) /\ m # l
      <3>1. Has(c, l)  BY <1>0 DEF Has
      <3>2. \A d \in Cpu : Has(d, l) => d = c  BY <1>0, <3>1 DEF LocksOK, OneHolder
      <3> QED  BY <1>0, <1>a, <2>1, <3>2, LockAssumption, SMTT(30) DEF LockTypeOK, Has, Run
    <2>3. OneHolder'
      BY <1>0, <1>a, <2>2, ZenonT(60) DEF LockTypeOK, LocksOK, OneHolder
    <2> QED  BY <1>0, <1>a, <2>3 DEF LockTypeOK, LocksOK, Run
  <1>3. Pushed(c)' = Pushed(c) \ {l} /\ \A d \in Cpu \ {c} : Pushed(d)' = Pushed(d)
    BY <1>0, <1>a, LockAssumption, SMTT(30) DEF LockTypeOK, LocksOK, Pushed, Run
  <1>b. l \in Pushed(c)
    BY <1>0, SMT DEF Pushed
  <1>c. Cardinality(Pushed(c) \ {l}) = Cardinality(Pushed(c)) - 1
    BY <1>b, PushedFinite, FS_RemoveElement
  <1>4. CountOK'
    BY <1>3, <1>a, <1>c, ZenonT(60) DEF LockTypeOK, CountOK, popcli
  <1>d. ncli[c] = 1 <=> Pushed(c) \ {l} = {}
    <2>1. IsFiniteSet(Pushed(c) \ {l})  BY PushedFinite, FS_RemoveElement
    <2>2. Cardinality(Pushed(c) \ {l}) = 0 <=> Pushed(c) \ {l} = {}  BY <2>1, FS_EmptySet
    <2> QED  BY <2>2, <1>c, PushedFinite, SMT DEF CountOK
  <1>6. FlagsOK'
    BY <1>3, <1>a, <1>b, <1>d, SMTT(30) DEF LockTypeOK, FlagsOK, Fits, Flag, popcli
  <1>7. ContextsOK'
    BY <1>a, SMT DEF ContextsOK
  <1>8. NoLockPanic'
    <2>1. ncli[c] # 0  BY <1>b, PushedFinite, FS_EmptySet DEF CountOK
    <2> QED  BY <1>a, <1>b, <2>1 DEF NoLockPanic, FlagsOK, popcli
  <1> QED  BY <1>1, <1>2, <1>4, <1>6, <1>7, <1>8, ZenonT(60)

-----------------------------------------------------------------------------
\* Interrupts, and swtch: locks and counts stay as they are.
LEMMA LocksUnchanged ==
    ASSUME IInv, UNCHANGED <<locked, cpu, ncli, step>>
    PROVE  LocksOK' /\ CountOK' /\ \A c \in Cpu : Pushed(c)' = Pushed(c)
  <1>1. \A c \in Cpu : Pushed(c)' = Pushed(c)  BY DEF Pushed
  <1>2. LocksOK'  BY SMT DEF IInv, LocksOK, OneHolder, Has
  <1>3. CountOK'  BY <1>1 DEF IInv, CountOK
  <1> QED  BY <1>1, <1>2, <1>3

\* An interrupt finds no lock pushed, because the flag was set.
LEMMA InterruptKeeps ==
    ASSUME IInv, NEW c \in Cpu, interrupt(c) PROVE IInv'
  <1> USE DEF IInv
  <1>1. LockTypeOK'
    BY DEF LockTypeOK, Context, interrupt
  <1>2. LocksOK' /\ CountOK' /\ \A d \in Cpu : Pushed(d)' = Pushed(d)
    BY LocksUnchanged DEF interrupt
  <1>3. Pushed(c) = {}
    BY DEF FlagsOK, interrupt
  <1>4. FlagsOK'
    BY <1>2, <1>3, SMTT(30) DEF LockTypeOK, FlagsOK, ContextsOK, Fits, Flag, interrupt
  <1>5. ContextsOK'
    BY LockAssumption, SMT DEF LockTypeOK, ContextsOK, interrupt, Context
  <1> QED  BY <1>1, <1>2, <1>4, <1>5 DEF NoLockPanic, interrupt

\* The end of a handler turns interrupts on, for a context that had them on.
LEMMA IretKeeps ==
    ASSUME IInv, NEW c \in Cpu, Pushed(c) = {}, iret(c) PROVE IInv'
  <1> USE DEF IInv
  <1>1. LockTypeOK'
    BY DEF LockTypeOK, Context, iret
  <1>2. LocksOK' /\ CountOK' /\ \A d \in Cpu : Pushed(d)' = Pushed(d)
    BY LocksUnchanged DEF iret
  <1>4. FlagsOK'
    BY <1>2 DEF LockTypeOK, FlagsOK, ContextsOK, Fits, Flag, iret
  <1>5. ContextsOK'
    BY SMT DEF LockTypeOK, ContextsOK, iret
  <1> QED  BY <1>1, <1>2, <1>4, <1>5 DEF NoLockPanic, iret

\* sti: the scheduler is not in a handler.
LEMMA StiKeeps ==
    ASSUME IInv, NEW c \in Cpu, Pushed(c) = {}, sti(c) PROVE IInv'
  <1> USE DEF IInv
  <1>1. LockTypeOK'
    BY DEF LockTypeOK, sti
  <1>2. LocksOK' /\ CountOK' /\ \A d \in Cpu : Pushed(d)' = Pushed(d)
    BY LocksUnchanged DEF sti
  <1>4. FlagsOK'
    BY <1>2, SMTT(30) DEF LockTypeOK, FlagsOK, ContextsOK, Fits, Flag, sti
  <1>5. ContextsOK'
    BY SMT DEF ContextsOK, sti
  <1> QED  BY <1>1, <1>2, <1>4, <1>5 DEF NoLockPanic, sti

\* A new thread enters user mode with interrupts on.
LEMMA TrapretKeeps ==
    ASSUME IInv, NEW c \in Cpu, Pushed(c) = {}, trapret(c) PROVE IInv'
  <1> USE DEF IInv
  <1>1. LockTypeOK'
    BY DEF LockTypeOK, trapret
  <1>2. LocksOK' /\ CountOK' /\ \A d \in Cpu : Pushed(d)' = Pushed(d)
    BY LocksUnchanged DEF trapret
  <1>4. FlagsOK'
    BY <1>2, ZenonT(80) DEF LockTypeOK, FlagsOK, ContextsOK, Fits, Flag, trapret
  <1>5. ContextsOK'
    BY SMT DEF LockTypeOK, ContextsOK, trapret
  <1> QED  BY <1>1, <1>2, <1>4, <1>5 DEF NoLockPanic, trapret

\* sched saves the flag that fits the thread, and passes its four assertions.
LEMMA SchedKeeps ==
    ASSUME IInv, NEW c \in Cpu, Pushed(c) = {ptable}, Settled(on[c]), sched(c)
    PROVE  IInv'
  <1> USE DEF IInv
  <1>1. LockTypeOK'
    BY DEF LockTypeOK, Context, sched
  <1>2. LocksOK' /\ CountOK' /\ \A d \in Cpu : Pushed(d)' = Pushed(d)
    BY LocksUnchanged DEF sched
  <1>4. FlagsOK'
    <2>1. ~handler[c] /\ c \notin Thread /\ on'[c] = c
      BY LockAssumption, SMTT(30) DEF LockTypeOK, ContextsOK, sched
    <2>2. \A d \in Cpu \ {c} :
              on'[d] = on[d] /\ (on[d] \in Thread => saved'[on[d]] = saved[on[d]])
      BY SMT DEF LockTypeOK, ContextsOK, sched
    <2>3. UNCHANGED <<handler, FL_IF, intena>>
      BY DEF sched
    <2> QED  BY <1>2, <2>1, <2>2, <2>3, SMTT(30) DEF FlagsOK, Fits, Flag
  <1>5. ContextsOK'
    <2> DEFINE s == on[c]
    <2>1. s \in Thread /\ saved' = [saved EXCEPT ![s] = intena[c]] /\ handler' = handler
          /\ on' = [on EXCEPT ![c] = c]
      BY DEF sched
    <2>2. handler[s] <=> ~intena[c]
      BY <2>1 DEF FlagsOK, Fits, Flag, Settled
    <2>3. \A a, d \in Cpu : on'[a] = on'[d] => a = d
      BY <2>1, LockAssumption DEF LockTypeOK, ContextsOK
    <2>4. \A d \in Cpu : on'[d] # d => ~handler'[d]
      BY <2>1 DEF LockTypeOK, ContextsOK
    <2>5. ASSUME NEW t \in Thread, t \notin {on'[d] : d \in Cpu}
          PROVE  handler'[t] <=> saved'[t] = FALSE
      <3>1. CASE t = s
        <4>1. saved'[t] = intena[c]  BY <2>1, <3>1 DEF LockTypeOK
        <4>2. intena[c] \in BOOLEAN  BY DEF LockTypeOK
        <4> QED  BY <2>1, <2>2, <3>1, <4>1, <4>2
      <3>2. CASE t # s
        <4>1. saved'[t] = saved[t]  BY <2>1, <3>2 DEF LockTypeOK
        <4>2. t \notin {on[d] : d \in Cpu}  BY <2>1, <2>5, <3>2, ZenonT(60) DEF LockTypeOK
        <4> QED  BY <2>1, <4>1, <4>2 DEF ContextsOK
      <3> QED  BY <3>1, <3>2
    <2> QED  BY <2>3, <2>4, <2>5 DEF ContextsOK
  <1>6. NoLockPanic'
    <2>1. cpu[ptable] = c  BY SMT DEF Pushed, sched, Run
    <2>2. locked[ptable]  BY <2>1, LockAssumption DEF LocksOK, OneHolder, Has
    <2>3. ncli[c] = 1  BY FS_Singleton DEF CountOK
    <2>4. ~FL_IF[c]  BY DEF FlagsOK
    <2> QED  BY <2>1, <2>2, <2>3, <2>4, ZenonT(60) DEF NoLockPanic, sched, holding
  <1> QED  BY <1>1, <1>2, <1>4, <1>5, <1>6

\* swtch: the flag restored fits the thread, on whichever CPU it continues.
LEMMA SwtchKeeps ==
    ASSUME IInv, NEW c \in Cpu, Pushed(c) = {ptable}, NEW t \in Thread, swtch(c, t)
    PROVE  IInv'
  <1> USE DEF IInv
  <1>1. LockTypeOK'
    BY DEF LockTypeOK, Context, swtch
  <1>2. LocksOK' /\ CountOK' /\ \A d \in Cpu : Pushed(d)' = Pushed(d)
    BY LocksUnchanged DEF swtch
  <1>4. FlagsOK'
    <2>1. on'[c] = t /\ handler' = handler /\ FL_IF' = FL_IF
          /\ intena'[c] = (IF saved[t] = None THEN intena[c] ELSE saved[t])
          /\ saved'[t] = (IF saved[t] = None THEN None ELSE TRUE)
      BY DEF LockTypeOK, swtch
    <2>2. handler[t] <=> saved[t] = FALSE
      BY DEF ContextsOK, swtch
    <2>3. Fits(t, intena[c])' /\ Flag(c)' = intena'[c]
      <3>1. Flag(c)' = intena'[c]  BY <1>2 DEF Flag
      <3>2. saved[t] \in {TRUE, FALSE, None} /\ None # FALSE
        BY LockAssumption DEF LockTypeOK
      <3>3. CASE saved[t] = None  BY <2>1, <2>2, <3>1, <3>2, <3>3, ZenonT(60) DEF Fits
      <3>4. CASE saved[t] = FALSE  BY <2>1, <2>2, <3>1, <3>2, <3>4 DEF Fits
      <3>5. CASE saved[t] = TRUE  BY <2>1, <2>2, <3>1, <3>2, <3>5, ZenonT(60) DEF Fits
      <3> QED  BY <3>2, <3>3, <3>4, <3>5
    <2>4. ASSUME NEW d \in Cpu \ {c} PROVE Fits(on[d], Flag(d))'
      <3>1. on'[d] = on[d] /\ on[d] # t /\ intena'[d] = intena[d]
        BY DEF LockTypeOK, swtch
      <3>2. on[d] \in Thread => saved'[on[d]] = saved[on[d]]
        BY <3>1 DEF LockTypeOK, swtch
      <3>3. Flag(d)' = Flag(d)
        BY <1>2, <2>1, <3>1 DEF Flag
      <3> QED  BY <2>1, <3>1, <3>2, <3>3, ZenonT(60) DEF FlagsOK, Fits
    <2>5. \A d \in Cpu : Pushed(d)' # {} => ~FL_IF'[d]
      BY <1>2, <2>1 DEF FlagsOK
    <2> QED  BY <2>1, <2>3, <2>4, <2>5 DEF FlagsOK
  <1>5. ContextsOK'
    BY LockAssumption, SMTT(30) DEF LockTypeOK, ContextsOK, swtch
  <1> QED  BY <1>1, <1>2, <1>4, <1>5 DEF NoLockPanic, swtch

-----------------------------------------------------------------------------
\* The inductive invariant holds at first.
LEMMA SpinBegins == SpinInit => IInv
  <1> SUFFICES ASSUME SpinInit PROVE IInv  OBVIOUS
  <1>1. LockTypeOK  BY SMT DEF SpinInit, LockTypeOK, Context, Steps
  <1>2. \A c \in Cpu : Pushed(c) = {}
    BY LockAssumption DEF SpinInit, Pushed, Run
  <1>3. LocksOK
    BY LockAssumption DEF SpinInit, LocksOK, OneHolder, Has, Run
  <1>4. CountOK  BY <1>2, FS_EmptySet DEF SpinInit, CountOK
  <1>5. FlagsOK  BY <1>2, LockAssumption DEF SpinInit, FlagsOK, Fits, Flag, Context
  <1>6. ContextsOK  BY LockAssumption DEF SpinInit, ContextsOK, Context
  <1> QED  BY <1>1, <1>3, <1>4, <1>5, <1>6 DEF IInv, NoLockPanic, SpinInit

\* Every step that the rules allow keeps it.
LEMMA SpinKeeps == IInv /\ [SpinNext]_lockVars => IInv'
  <1> SUFFICES ASSUME IInv, [SpinNext]_lockVars PROVE IInv'  OBVIOUS
  <1>1. CASE UNCHANGED lockVars
    <2>1. LocksOK' /\ CountOK' /\ \A c \in Cpu : Pushed(c)' = Pushed(c)
      BY <1>1, LocksUnchanged DEF lockVars
    <2>2. LockTypeOK' /\ ContextsOK' /\ NoLockPanic'
      BY <1>1, SMT DEF lockVars, IInv, LockTypeOK, ContextsOK, NoLockPanic
    <2>3. FlagsOK'  BY <1>1, <2>1 DEF lockVars, IInv, FlagsOK, Fits, Flag
    <2> QED  BY <2>1, <2>2, <2>3 DEF IInv
  <1>2. CASE SpinNext
    <2> PICK c \in Cpu : SpinStep(c)  BY <1>2 DEF SpinNext
    <2>1. CASE \E l \in Lock \ Pushed(c) : acquire(c, l)  BY <2>1, AcquireKeeps
    <2>2. CASE \E l \in Lock : cpu[l] = c /\ release(c, l)  BY <2>2, ReleaseKeeps
    <2>3. CASE xchg(c) \/ record(c) \/ clear(c)
      BY <2>3, XchgKeeps, RecordKeeps, ClearKeeps
    <2>4. CASE interrupt(c)  BY <2>4, InterruptKeeps
    <2>5. CASE Pushed(c) = {} /\ (iret(c) \/ sti(c) \/ trapret(c))
      BY <2>5, IretKeeps, StiKeeps, TrapretKeeps
    <2>6. CASE Pushed(c) = {ptable} /\ Settled(on[c]) /\ sched(c)  BY <2>6, SchedKeeps
    <2>7. CASE Pushed(c) = {ptable} /\ \E t \in Thread : swtch(c, t)  BY <2>7, SwtchKeeps
    <2> QED  BY <2>1, <2>2, <2>3, <2>4, <2>5, <2>6, <2>7, ZenonT(60) DEF SpinStep
  <1> QED  BY <1>1, <1>2

\* The inductive invariant holds in every state of the locks.
LEMMA SpinInvariant == SpinSpec => []IInv
  BY SpinBegins, SpinKeeps, PTL DEF SpinSpec

\* acquire and release exclude: a lock that is taken is in the hands of one CPU,
\* and holding() is true on that CPU alone.
THEOREM LocksHaveOneHolder == SpinSpec => []OneHolder
  <1>1. IInv => OneHolder  BY DEF IInv, LocksOK
  <1> QED  BY <1>1, SpinInvariant, PTL

\* Interrupts are off on a CPU that has a lock, and afterwards as the context had
\* them, wherever a thread has been scheduled in between.
THEOREM InterruptsRestored == SpinSpec => []InterruptsMatch
  <1>1. IInv => InterruptsMatch  BY DEF IInv, FlagsOK, Fits, Flag, InterruptsMatch
  <1> QED  BY <1>1, SpinInvariant, PTL

\* Nobody who keeps the rules meets a panic of acquire, release, popcli or sched.
THEOREM LocksDoNotPanic == SpinSpec => []NoLockPanic
  <1>1. IInv => NoLockPanic  BY DEF IInv
  <1> QED  BY <1>1, SpinInvariant, PTL

-----------------------------------------------------------------------------
(***************************************************************************)
(* The console.                                                            *)
(***************************************************************************)
\* The locks at the start.
LEMMA RulesBegin == Init => IInv /\ RulesOK
  <1> SUFFICES ASSUME Init PROVE IInv /\ RulesOK  OBVIOUS
  <1>1. IInv  BY SpinBegins DEF Init
  <1>2. /\ \A x \in Context : handler[x] = FALSE
        /\ \A c \in Cpu : on[c] = c /\ step[c] = Run /\ pc[c] = "sti"
        /\ \A t \in Thread : pc[t] = "forkret"
        /\ \A c \in Cpu : Pushed(c) = {}
    BY LockAssumption DEF Init, SpinInit, Context, Pushed, Run
  <1>3. LabelsOK
    BY <1>2 DEF Init, LabelsOK, SchedLabels, ThreadLabels, Context
  <1>4. \A c \in Cpu : Label(on[c]) = "sti"  BY <1>2 DEF Label, Context
  <1>5. PushedOK  BY <1>2, <1>4, LocksAt, SMTT(30) DEF PushedOK, Run
  <1>6. SpinsOK  BY <1>2, SMT DEF SpinsOK, Run
  <1>7. OffOK  BY <1>2 DEF OffOK, Label, Context
  <1> QED  BY <1>1, <1>3, <1>5, <1>6, <1>7 DEF RulesOK

\* The invariant of the locks and of the labels.
LEMMA ConsoleInvariant == Spec => [](IInv /\ RulesOK) /\ [][SpinNext]_lockVars
  <1>1. IInv /\ RulesOK /\ [Next]_vars => IInv' /\ RulesOK' /\ [SpinNext]_lockVars
    <2> SUFFICES ASSUME IInv, RulesOK, [Next]_vars
                 PROVE  IInv' /\ RulesOK' /\ [SpinNext]_lockVars
      OBVIOUS
    <2>1. RulesOK' /\ [SpinNext]_lockVars
      <3>1. CASE UNCHANGED vars  BY <3>1, RulesSame DEF vars, lockVars
      <3>2. CASE Next  BY <3>2, StepRules DEF Next, SpinNext
      <3> QED  BY <3>1, <3>2
    <2> QED  BY <2>1, SpinKeeps
  <1> QED  BY <1>1, RulesBegin, PTL DEF Spec

\* The console takes and drops its locks by the rules of SpinLock: no CPU takes a
\* lock it has, every lock is dropped by the CPU that has it and before the
\* handler or the scheduler's turn ends, and sched is called with ptable.lock.
THEOREM ConsoleKeepsRules == Spec => ImplementsSpinLock
  <1>1. Init => SpinInit  BY DEF Init
  <1> QED  BY <1>1, ConsoleInvariant, PTL DEF Spec, ImplementsSpinLock, SpinSpec

\* So in the console each lock has one holder, interrupts are off while it is held
\* and then as they were, and none of the panics of the locks is reached.
THEOREM ConsoleLocksSafe == Spec => [](OneHolder /\ InterruptsMatch /\ NoLockPanic)
  BY ConsoleKeepsRules, LocksHaveOneHolder, InterruptsRestored, LocksDoNotPanic, PTL
     DEF ImplementsSpinLock

\* A thread that sleeps in consoleread sleeps for want of input, or is about to be
\* woken by the handler that has handed a line over, on every number of CPUs and
\* whatever interrupts come between the steps of consoleread and sleep.
THEOREM InputIsNotLost == Spec => []NoLostInput
  <1>1. Init => InputOK  BY DEF Init, InputOK
  <1>2. IInv /\ RulesOK /\ InputOK /\ RulesOK' /\ [Next]_vars => InputOK'
    <2> SUFFICES ASSUME IInv, RulesOK, InputOK, RulesOK', [Next]_vars PROVE InputOK'
      OBVIOUS
    <2>1. CASE UNCHANGED vars  BY <2>1, InputSame DEF vars, lockVars, ring, procVars
    <2>2. ASSUME NEW c \in Cpu, Step(c) PROVE InputOK'
      BY <2>2, HandlerInput, CallsInput DEF Step
    <2> QED  BY <2>1, <2>2 DEF Next
  <1>3. InputOK => NoLostInput  BY DEF InputOK, NoLostInput, Waking
  <1> QED  BY <1>1, <1>2, <1>3, ConsoleInvariant, PTL DEF Spec
===============================================================================
