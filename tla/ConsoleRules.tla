------------------------------ MODULE ConsoleRules ------------------------------
(***************************************************************************)
(* The steps of the console keep the rules of the locks, and a reader that *)
(* sleeps has nothing to read or is about to be woken: for every number of *)
(* CPUs and threads.  SpinLockProofs draws the conclusions.                *)
(*                                                                         *)
(* Where a context is says which locks its CPU has (Locks), also between   *)
(* the instructions of acquire and release (PushedOK, SpinsOK), and which  *)
(* it left behind with (OffOK).  So a CPU never takes a lock twice, drops  *)
(* what it has, and switches with ptable.lock alone.                       *)
(***************************************************************************)
EXTENDS Console, SpinLockInv, TLAPS

SchedLabels == {"sti", "acquire", "scan"}
ThreadLabels == {"forkret", "trapret", "user", "read", "readEnd", "sleep", "sleep1", "sleep2",
                 "sleep3", "write", "kill"}
IntrLabels == {"consoleintr", "getc", "wakeup", "wakeup1", "iret", "yield", "yield1", "yield2"}

\* The locks of a context that is at a label.
ConsLabels == {"getc", "wakeup", "wakeup1", "read", "readEnd", "sleep", "write"}
PtableLabels == {"wakeup1", "yield1", "yield2", "sleep", "sleep1", "sleep2", "kill", "scan",
                 "forkret"}
Locks(label) == {l \in {cons, ptable} : label \in (IF l = cons THEN ConsLabels ELSE PtableLabels)}

\* Those that acquire leads to, for each lock.
AcquiredTo(l) == IF l = cons THEN {"getc", "read", "write"}
                 ELSE {"wakeup1", "yield1", "sleep", "kill", "scan"}

Label(x) == IF handler[x] THEN hpc[x] ELSE pc[x]

LabelsOK ==
    /\ pc \in [Context -> SchedLabels \cup ThreadLabels]
    /\ hpc \in [Context -> IntrLabels \cup {"none"}]
    /\ \A c \in Cpu : pc[c] \in SchedLabels
    /\ \A t \in Thread : pc[t] \in ThreadLabels
    /\ \A x \in Context : handler[x] => hpc[x] \in IntrLabels /\ Locks(pc[x]) = {}

PushedOK ==
    \A c \in Cpu :
        /\ step[c] \in {"clear"} \X Lock => step[c][2] \notin Locks(Label(on[c]))
        /\ Pushed(c) = Locks(Label(on[c]))
                         \cup {l \in Lock : step[c] = <<"clear", l>>}

SpinsOK ==
    \A c \in Cpu : step[c] \in {"spin", "record"} \X Lock =>
        step[c][2] \in {cons, ptable} /\ Label(on[c]) \in AcquiredTo(step[c][2])

\* Contexts that do not run are in swtch, where ptable.lock is handed over.
OffOK ==
    /\ \A t \in Thread : t \notin {on[c] : c \in Cpu} => Label(t) \in {"forkret", "sleep2", "yield2"}
    /\ \A c \in Cpu : on[c] # c => pc[c] = "scan"
    /\ \A t \in Thread : saved[t] = None => pc[t] \in {"forkret", "trapret"}

RulesOK == LabelsOK /\ PushedOK /\ SpinsOK /\ OffOK

\* A thread goes to sleep while there is nothing to read; cons.lock keeps it so
\* until it has ptable.lock, which keeps the wakeup away until it sleeps.
Waking == \E c \in Cpu : handler[on[c]] /\ hpc[on[c]] \in {"wakeup", "wakeup1"}
InputOK ==
    /\ \A c \in Cpu : Label(on[c]) = "sleep" => r = w
    /\ r # w /\ (Sleepers # {} \/ \E c \in Cpu : Label(on[c]) = "sleep1") => Waking

-----------------------------------------------------------------------------
\* Zenon proves the steps that name no other prover.
USE Zenon

\* What a CPU is about to do names a lock.
LEMMA StepLock ==
    ASSUME LockTypeOK, NEW c \in Cpu, step[c] # Run
    PROVE  step[c][2] \in Lock /\ step[c] = <<step[c][1], step[c][2]>>
           /\ step[c][1] \in {"spin", "record", "clear"}
  BY SMT DEF LockTypeOK, Steps

(***************************************************************************)
(* The rules of the locks.                                                 *)
(***************************************************************************)
\* A step from one label to another stays in a thread, a handler or the
\* scheduler; a new thread is in forkret until trapret.
Along(at, next) ==
    /\ at \in SchedLabels => next \in SchedLabels
    /\ at \in ThreadLabels => next \in ThreadLabels
    /\ at \in IntrLabels => next \in IntrLabels
    /\ at \in {"forkret", "trapret"} => next \in {"forkret", "trapret"}

LEMMA LocksAre ==
    ASSUME NEW label
    PROVE  /\ Locks(label) \subseteq Lock /\ cons # ptable
           /\ cons \in Locks(label) <=> label \in ConsLabels
           /\ ptable \in Locks(label) <=> label \in PtableLabels
  BY RingAssumption, LockAssumption DEF Locks

\* The labels after a step of context x.
LEMMA MoveLabels ==
    ASSUME IInv, RulesOK, NEW c \in Cpu, NEW at, NEW next, At(c, at), Goto(c, next),
           Along(at, next), UNCHANGED handler, NEW x \in Context, x = on[c]
    PROVE  /\ LabelsOK' /\ Label(x) = at /\ Label(x)' = next
           /\ \A y \in Context \ {x} : Label(y)' = Label(y) /\ pc'[y] = pc[y] /\ hpc'[y] = hpc[y]
           /\ \A d \in Cpu \ {c} : on[d] \in Context \ {x}
           /\ at \in IntrLabels => handler[x] /\ pc' = pc
           /\ at \notin IntrLabels => ~handler[x] /\ hpc' = hpc /\ pc'[x] = next
  <1>1. \A d \in Cpu \ {c} : on[d] \in Context \ {x}
    BY DEF IInv, LockTypeOK, ContextsOK
  <1>2. at \in SchedLabels \cup ThreadLabels \cup IntrLabels /\ (at \in IntrLabels <=> handler[x])
    BY <1>1 DEF RulesOK, LabelsOK, At, Label, IInv, LockTypeOK, SchedLabels, ThreadLabels,
       IntrLabels
  <1>3. next \in SchedLabels \cup ThreadLabels \cup IntrLabels /\ (next \in IntrLabels <=> handler[x])
    BY <1>2 DEF Along, SchedLabels, ThreadLabels, IntrLabels
  <1>4. Label(x) = at  BY DEF At, Label
  <1>5. CASE handler[x]
    BY <1>1, <1>2, <1>3, <1>4, <1>5, SMT DEF Goto, RulesOK, LabelsOK, Label
  <1>6. CASE ~handler[x]
    <2>1. pc' = [pc EXCEPT ![x] = next] /\ hpc' = hpc  BY <1>6 DEF Goto
    <2>2. /\ x \in Cpu => at \in SchedLabels
          /\ x \in Thread => at \in ThreadLabels
      BY <1>4, <1>6 DEF RulesOK, LabelsOK, Label
    <2>3. /\ x \in Cpu => next \in SchedLabels
          /\ x \in Thread => next \in ThreadLabels
      BY <2>2 DEF Along
    <2>4. LabelsOK'
      BY <1>1, <1>3, <1>6, <2>1, <2>3, SMT DEF RulesOK, LabelsOK
    <2> QED  BY <1>1, <1>2, <1>4, <1>6, <2>1, <2>4, SMT DEF RulesOK, LabelsOK, Label
  <1> QED  BY <1>5, <1>6 DEF IInv, LockTypeOK

\* The same for a step that leaves every context where it is.
LEMMA MoveKeeps ==
    ASSUME IInv, RulesOK, NEW c \in Cpu, NEW at, NEW next, At(c, at), Goto(c, next),
           Along(at, next), UNCHANGED <<on, handler>>
    PROVE  /\ LabelsOK' /\ on[c] \in Context /\ Label(on[c]) = at /\ Label(on[c])' = next
           /\ \A x \in Context \ {on[c]} : Label(x)' = Label(x)
           /\ \A d \in Cpu \ {c} : on[d] \in Context \ {on[c]}
           /\ \A x \in Context \ {on[c]} : pc'[x] = pc[x] /\ hpc'[x] = hpc[x]
           /\ at \in IntrLabels => handler[on[c]] /\ pc' = pc
           /\ at \notin IntrLabels => ~handler[on[c]] /\ hpc' = hpc /\ pc'[on[c]] = next
  <1>1. PICK x \in Context : x = on[c]  BY DEF IInv, LockTypeOK
  <1>2. UNCHANGED handler  OBVIOUS
  <1>3. /\ LabelsOK' /\ Label(x) = at /\ Label(x)' = next
        /\ \A y \in Context \ {x} : Label(y)' = Label(y) /\ pc'[y] = pc[y] /\ hpc'[y] = hpc[y]
        /\ \A d \in Cpu \ {c} : on[d] \in Context \ {x}
        /\ at \in IntrLabels => handler[x] /\ pc' = pc
        /\ at \notin IntrLabels => ~handler[x] /\ hpc' = hpc /\ pc'[x] = next
    BY <1>1, <1>2, MoveLabels, SMT
  <1> QED  BY <1>1, <1>3

\* Such a step keeps the rules of those who do not run.
LEMMA OffKeeps ==
    ASSUME IInv, RulesOK, NEW c \in Cpu, NEW at, NEW next, At(c, at), Goto(c, next),
           Along(at, next), UNCHANGED <<on, handler, saved>>
    PROVE  OffOK'
  <1>1. /\ on[c] \in {c} \cup Thread /\ on[c] \in Context
        /\ \A x \in Context \ {on[c]} : pc'[x] = pc[x] /\ Label(x)' = Label(x)
        /\ at \in IntrLabels => pc' = pc
        /\ at \notin IntrLabels => pc[on[c]] = at /\ pc'[on[c]] = next
    BY MoveKeeps, SMT DEF IInv, LockTypeOK, Label
  <1>2. \A t \in Thread : t \notin {on'[d] : d \in Cpu}
           => t \in Context \ {on[c]} /\ t \notin {on[d] : d \in Cpu}
    BY DEF Context
  <1>3. \A d \in Cpu : on[d] # d => d \in Context \ {on[c]}
    BY <1>1, LockAssumption DEF Context
  <1>4. \A t \in Thread : saved[t] = None => pc'[t] \in {"forkret", "trapret"}
    BY <1>1 DEF RulesOK, OffOK, Along, Context
  <1> QED  BY <1>1, <1>2, <1>3, <1>4, SMT DEF RulesOK, OffOK

\* acquire: the lock is not the CPU's yet.
LEMMA AcquiresOK ==
    ASSUME IInv, RulesOK, NEW c \in Cpu, NEW at, NEW next, NEW l \in {cons, ptable},
           Acquires(c, at, l, next), Along(at, next),
           l \notin Locks(at), Locks(next) = Locks(at) \cup {l}, next \in AcquiredTo(l)
    PROVE  RulesOK' /\ SpinStep(c)
  <1>0. At(c, at) /\ acquire(c, l) /\ Goto(c, next) /\ l \in Lock
        /\ UNCHANGED <<on, handler, saved, cpu>> /\ step[c] = Run
        /\ step' = [step EXCEPT ![c] = <<"spin", l>>]
    BY RingAssumption, LockAssumption DEF Acquires, acquire
  <1>1. /\ LabelsOK' /\ on[c] \in Context /\ Label(on[c]) = at /\ Label(on[c])' = next
        /\ \A d \in Cpu \ {c} : Label(on[d])' = Label(on[d])
    BY <1>0, MoveKeeps, SMT
  <1>2. Pushed(c) = Locks(at)
    BY <1>0, <1>1, SMT DEF RulesOK, PushedOK, Run
  <1>3. SpinStep(c)  BY <1>0, <1>2 DEF SpinStep
  <1>4. Pushed(c)' = Pushed(c) \cup {l} /\ \A d \in Cpu \ {c} : Pushed(d)' = Pushed(d)
    BY <1>0, SMT DEF Pushed, Run, IInv, LockTypeOK
  <1>5. step'[c] = <<"spin", l>> /\ \A d \in Cpu \ {c} : step'[d] = step[d]
    BY <1>0 DEF IInv, LockTypeOK
  <1>6. PushedOK'  BY <1>0, <1>1, <1>2, <1>4, <1>5, SMT DEF RulesOK, PushedOK
  <1>7. SpinsOK'  BY <1>0, <1>1, <1>5, SMT DEF RulesOK, SpinsOK
  <1>8. OffOK'  BY <1>0, OffKeeps
  <1> QED  BY <1>1, <1>3, <1>6, <1>7, <1>8 DEF RulesOK

\* release: the lock is the CPU's.
LEMMA ReleasesOK ==
    ASSUME IInv, RulesOK, NEW c \in Cpu, NEW at, NEW next, NEW l \in {cons, ptable},
           Releases(c, at, l, next), Along(at, next),
           l \in Locks(at), Locks(next) = Locks(at) \ {l}
    PROVE  RulesOK' /\ SpinStep(c)
  <1>0. At(c, at) /\ release(c, l) /\ Goto(c, next) /\ l \in Lock
        /\ UNCHANGED <<on, handler, saved>> /\ step[c] = Run
        /\ step' = [step EXCEPT ![c] = <<"clear", l>>] /\ cpu' = [cpu EXCEPT ![l] = None]
    BY RingAssumption, LockAssumption DEF Releases, release
  <1>1. /\ LabelsOK' /\ on[c] \in Context /\ Label(on[c]) = at /\ Label(on[c])' = next
        /\ \A d \in Cpu \ {c} : Label(on[d])' = Label(on[d])
    BY <1>0, MoveKeeps, SMT
  <1>2. Pushed(c) = Locks(at)
    BY <1>0, <1>1, SMT DEF RulesOK, PushedOK, Run
  <1>2a. cpu[l] = c  BY <1>0, <1>2, SMT DEF Pushed, Run
  <1>3. SpinStep(c)  BY <1>0, <1>2a DEF SpinStep
  <1>4. \A d \in Cpu : Pushed(d)' = Pushed(d)
    BY <1>0, <1>2a, LockAssumption, SMT DEF Pushed, Run, IInv, LockTypeOK
  <1>5. step'[c] = <<"clear", l>> /\ \A d \in Cpu \ {c} : step'[d] = step[d]
    BY <1>0 DEF IInv, LockTypeOK
  <1>6. PushedOK'  BY <1>0, <1>1, <1>2, <1>4, <1>5, SMT DEF RulesOK, PushedOK
  <1>7. SpinsOK'  BY <1>0, <1>1, <1>5, SMT DEF RulesOK, SpinsOK
  <1>8. OffOK'  BY <1>0, OffKeeps
  <1> QED  BY <1>1, <1>3, <1>6, <1>7, <1>8 DEF RulesOK

\* A step without acquire or release, between labels with the same locks.
LEMMA StayOK ==
    ASSUME IInv, RulesOK, NEW c \in Cpu, NEW at, NEW next, At(c, at), Goto(c, next),
           Along(at, next), Locks(next) = Locks(at),
           UNCHANGED <<on, handler, saved, step, cpu>>
    PROVE  RulesOK'
  <1>1. /\ LabelsOK' /\ on[c] \in Context /\ Label(on[c]) = at /\ Label(on[c])' = next
        /\ \A d \in Cpu \ {c} : Label(on[d])' = Label(on[d])
    BY MoveKeeps, SMT
  <1>2. \A d \in Cpu : Pushed(d)' = Pushed(d)  BY DEF Pushed
  <1>3. step[c] = Run  BY DEF At
  <1>4. PushedOK'  BY <1>1, <1>2 DEF RulesOK, PushedOK
  <1>5. SpinsOK'  BY <1>1, <1>3, SMT DEF RulesOK, SpinsOK, Run
  <1>6. OffOK'  BY OffKeeps
  <1> QED  BY <1>1, <1>4, <1>5, <1>6 DEF RulesOK

\* Nothing changes for the rules.
LEMMA RulesSame ==
    ASSUME RulesOK, UNCHANGED <<pc, hpc, on, handler, saved, step, cpu>> PROVE RulesOK'
  <1>1. \A d \in Cpu : Pushed(d)' = Pushed(d)  BY DEF Pushed
  <1>2. \A x \in Context : Label(x)' = Label(x)  BY DEF Label
  <1>3. LabelsOK'  BY DEF RulesOK, LabelsOK
  <1>4. PushedOK'  BY <1>1 DEF RulesOK, PushedOK, Label
  <1>5. SpinsOK'  BY DEF RulesOK, SpinsOK, Label
  <1>6. OffOK'  BY ZenonT(60) DEF RulesOK, OffOK, Label
  <1> QED  BY <1>3, <1>4, <1>5, <1>6 DEF RulesOK

\* The instructions inside acquire and release.
LEMMA lockStepOK ==
    ASSUME IInv, RulesOK, NEW c \in Cpu, lockStep(c) PROVE RulesOK' /\ SpinStep(c)
  <1> DEFINE l == step[c][2]
  <1>0. /\ xchg(c) \/ record(c) \/ clear(c)
        /\ UNCHANGED <<pc, hpc, on, handler, saved>>
    BY DEF lockStep, xchg, record, clear
  <1>1. step[c] # Run /\ step[c] = <<step[c][1], l>> /\ l \in Lock
        /\ step[c][1] \in {"spin", "record", "clear"}
    <2>1. step[c] # Run  BY <1>0, SMT DEF xchg, record, clear, Run
    <2> QED  BY <2>1, StepLock DEF IInv
  <1>2. \A x : Label(x)' = Label(x)  BY <1>0 DEF Label
  <1>3. LabelsOK' /\ OffOK'  BY <1>0, <1>2, SMT DEF RulesOK, LabelsOK, OffOK
  <1>4. \A d \in Cpu \ {c} : step'[d] = step[d]
    BY <1>0 DEF xchg, record, clear, IInv, LockTypeOK
  <1>5. CASE xchg(c)
    <2>1. step[c] = <<"spin", l>> /\ step'[c] = <<"record", l>> /\ cpu' = cpu
      BY <1>1, <1>5 DEF xchg, IInv, LockTypeOK
    <2>2. \A d \in Cpu : Pushed(d)' = Pushed(d)  BY <1>4, <2>1, SMT DEF Pushed
    <2>3. PushedOK'  BY <1>0, <1>2, <1>4, <2>1, <2>2, SMT DEF RulesOK, PushedOK
    <2>4. SpinsOK'  BY <1>0, <1>1, <1>2, <1>4, <2>1, SMT DEF RulesOK, SpinsOK
    <2> QED  BY <1>3, <1>5, <2>3, <2>4 DEF RulesOK, SpinStep
  <1>6. CASE record(c)
    <2>1. step[c] = <<"record", l>> /\ step'[c] = Run /\ cpu' = [cpu EXCEPT ![l] = c]
      BY <1>1, <1>6 DEF record, IInv, LockTypeOK
    <2>2. cpu[l] = None  BY <1>1, <2>1 DEF IInv, LocksOK
    <2>3. \A d \in Cpu : Pushed(d)' = Pushed(d)
      <3>1. cpu'[l] = c /\ \A m \in Lock \ {l} : cpu'[m] = cpu[m]
        BY <1>1, <2>1 DEF IInv, LockTypeOK
      <3>2. \A d \in Cpu \ {c} : Pushed(d)' = Pushed(d)
        BY <1>4, <2>2, <3>1, LockAssumption, ZenonT(60) DEF Pushed
      <3>3. \A m \in Lock : m \in Pushed(c)' <=> m \in Pushed(c)
        BY <1>1, <2>1, <3>1, SMT DEF Pushed, Run
      <3>4. Pushed(c)' \subseteq Lock /\ Pushed(c) \subseteq Lock  BY DEF Pushed
      <3> QED  BY <3>2, <3>3, <3>4, SMT
    <2>4. PushedOK'  BY <1>0, <1>2, <1>4, <2>1, <2>3, SMT DEF RulesOK, PushedOK, Run
    <2>5. SpinsOK'  BY <1>0, <1>2, <1>4, <2>1, SMT DEF RulesOK, SpinsOK, Run
    <2> QED  BY <1>3, <1>6, <2>4, <2>5 DEF RulesOK, SpinStep
  <1>7. CASE clear(c)
    <2>1. step[c] = <<"clear", l>> /\ step'[c] = Run /\ cpu' = cpu
      BY <1>1, <1>7 DEF clear, IInv, LockTypeOK
    <2>2. cpu[l] = None  BY <1>1, <2>1 DEF IInv, LocksOK
    <2>3. Pushed(c)' = Pushed(c) \ {l} /\ \A d \in Cpu \ {c} : Pushed(d)' = Pushed(d)
      BY <1>1, <1>4, <2>1, <2>2, LockAssumption, SMT DEF Pushed, Run
    <2>4. l \notin Locks(Label(on[c])) /\ Pushed(c) = Locks(Label(on[c])) \cup {l}
      <3>1. {m \in Lock : step[c] = <<"clear", m>>} = {l} /\ step[c] \in {"clear"} \X Lock
        BY <1>1, <2>1, SMTT(30)
      <3> QED  BY <3>1 DEF RulesOK, PushedOK
    <2>5. PushedOK'  BY <1>0, <1>2, <1>4, <2>1, <2>3, <2>4, SMT DEF RulesOK, PushedOK, Run
    <2>6. SpinsOK'  BY <1>0, <1>2, <1>4, <2>1, SMT DEF RulesOK, SpinsOK, Run
    <2> QED  BY <1>3, <1>7, <2>5, <2>6 DEF RulesOK, SpinStep
  <1> QED  BY <1>0, <1>5, <1>6, <1>7

\* An interrupt comes when the CPU has no locks, and ends so.
LEMMA trapOK ==
    ASSUME IInv, RulesOK, NEW c \in Cpu, trap(c) \/ trapEnd(c) PROVE RulesOK' /\ SpinStep(c)
  <1> DEFINE x == on[c]
  <1>0. x \in Context /\ (\A d \in Cpu \ {c} : on[d] # x) /\ step[c] = Run
        /\ UNCHANGED <<on, pc, step, cpu, saved>>
    BY DEF IInv, LockTypeOK, ContextsOK, trap, trapEnd, interrupt, iret
  <1>1. Pushed(c) = Locks(Label(x)) /\ \A d \in Cpu : Pushed(d)' = Pushed(d)
    BY <1>0, SMT DEF RulesOK, PushedOK, Pushed, Run
  <1>2. ASSUME NEW h \in BOOLEAN, NEW l \in IntrLabels \cup {"none"}, h => l \in IntrLabels,
               handler' = [handler EXCEPT ![x] = h], hpc' = [hpc EXCEPT ![x] = l],
               Locks(pc[x]) = {}, Locks(l) = {}, Locks(Label(x)) = {}
        PROVE  RulesOK'
    <2>1. LabelsOK'
      BY <1>0, <1>2 DEF RulesOK, LabelsOK, IInv, LockTypeOK
    <2>2. \A d \in Cpu \ {c} : Label(on[d])' = Label(on[d])
      BY <1>0, <1>2, SMT DEF Label
    <2>3. Locks(Label(on[c])') = {}
      BY <1>0, <1>2 DEF Label, IInv, LockTypeOK, RulesOK, LabelsOK
    <2>4. PushedOK'  BY <1>0, <1>1, <1>2, <2>2, <2>3 DEF RulesOK, PushedOK, Run
    <2>5. SpinsOK'  BY <1>0, <2>2, SMT DEF RulesOK, SpinsOK, Run
    <2>6. \A t \in Thread : t \notin {on[d] : d \in Cpu} => Label(t)' = Label(t)
      BY <1>0, <1>2, SMT DEF Label
    <2>7. OffOK'  BY <1>0, <2>6, SMT DEF RulesOK, OffOK
    <2> QED  BY <2>1, <2>4, <2>5, <2>7 DEF RulesOK
  <1>3. CASE trap(c)
    <2>1. interrupt(c) /\ ~handler[x] /\ FL_IF[c] /\ handler' = [handler EXCEPT ![x] = TRUE]
      BY <1>3 DEF trap, interrupt
    <2>2. PICK h \in {"consoleintr", "yield"} : hpc' = [hpc EXCEPT ![x] = h]
      BY <1>3 DEF trap
    <2>3. Pushed(c) = {}  BY <2>1 DEF IInv, FlagsOK
    <2>4. Locks(h) = {} /\ h \in IntrLabels
      BY LocksAre DEF Locks, ConsLabels, PtableLabels, IntrLabels
    <2>5. Locks(pc[x]) = {}  BY <1>1, <2>1, <2>3 DEF Label
    <2>6. RulesOK'  BY <1>1, <1>2, <2>1, <2>2, <2>3, <2>4, <2>5
    <2> QED  BY <2>1, <2>6 DEF SpinStep
  <1>4. CASE trapEnd(c)
    <2>1. iret(c) /\ handler[x] /\ handler' = [handler EXCEPT ![x] = FALSE] /\ Label(x) = "iret"
          /\ hpc' = [hpc EXCEPT ![x] = "none"]
      BY <1>4 DEF trapEnd, iret, At, Label
    <2>2. Locks("iret") = {} /\ Locks("none") = {}
      BY LocksAre DEF Locks, ConsLabels, PtableLabels
    <2>3. Locks(pc[x]) = {}  BY <1>0, <2>1 DEF RulesOK, LabelsOK
    <2>4. RulesOK'  BY <1>2, <2>1, <2>2, <2>3
    <2> QED  BY <1>1, <2>1, <2>2, <2>4 DEF SpinStep
  <1> QED  BY <1>3, <1>4

\* A thread leaves the CPU with ptable.lock alone, which the scheduler gets.
LEMMA SwitchOutOK ==
    ASSUME IInv, RulesOK, NEW c \in Cpu, NEW s, NEW at, NEW next, SwitchOut(c, at, s, next),
           \/ at = "yield1" /\ next = "yield2"
           \/ at = "sleep1" /\ next = "sleep2"
    PROVE  RulesOK' /\ SpinStep(c)
  <1>0. /\ At(c, at) /\ Goto(c, next) /\ sched(c) /\ step[c] = Run
        /\ UNCHANGED <<handler, step, cpu>> /\ on' = [on EXCEPT ![c] = c]
    BY DEF SwitchOut, sched
  <1>1. PICK x \in Thread : x = on[c] /\ saved' = [saved EXCEPT ![x] = intena[c]]
    BY DEF SwitchOut, sched
  <1>2. Along(at, next)  BY DEF Along, SchedLabels, ThreadLabels, IntrLabels
  <1>3. /\ LabelsOK' /\ Label(x) = at /\ Label(x)' = next
        /\ \A y \in Context \ {x} : Label(y)' = Label(y) /\ pc'[y] = pc[y] /\ hpc'[y] = hpc[y]
        /\ \A d \in Cpu \ {c} : on[d] \in Context \ {x}
        /\ at \in IntrLabels => handler[x] /\ pc' = pc
        /\ at \notin IntrLabels => ~handler[x] /\ hpc' = hpc /\ pc'[x] = next
    <2>1. x \in Context /\ x = on[c] /\ UNCHANGED handler  BY <1>0, <1>1 DEF Context
    <2> QED  BY <1>0, <1>2, <2>1, MoveLabels, SMT
  <1>4. /\ c \in Context \ {x} /\ ~handler[c] /\ pc[c] = "scan" /\ Label(c) = "scan"
    BY <1>1, LockAssumption, SMT DEF Context, IInv, ContextsOK, RulesOK, OffOK, Label
  <1>5. Locks(at) = {ptable} /\ Locks(next) = {ptable} /\ Locks("scan") = {ptable}
    BY LocksAre DEF Locks, ConsLabels, PtableLabels
  <1>6. Pushed(c) = {ptable} /\ \A d \in Cpu : Pushed(d)' = Pushed(d)
    BY <1>0, <1>1, <1>3, <1>5, SMT DEF RulesOK, PushedOK, Pushed, Run
  <1>7. Settled(x)
    <2>1. at = "yield1" => handler[x]  BY <1>3 DEF IntrLabels
    <2>2. at = "sleep1" => pc[x] = "sleep1"  BY <1>3 DEF IntrLabels, Label
    <2> QED  BY <1>1, <2>1, <2>2 DEF Settled, RulesOK, OffOK
  <1>8. SpinStep(c)  BY <1>0, <1>1, <1>6, <1>7 DEF SpinStep
  <1>9. on'[c] = c /\ \A d \in Cpu \ {c} : on'[d] = on[d]
    BY <1>0 DEF IInv, LockTypeOK
  <1>10. Label(on[c])' = "scan" /\ \A d \in Cpu \ {c} : Label(on[d])' = Label(on[d])
    BY <1>3, <1>4, <1>9
  <1>11. PushedOK'
    BY <1>0, <1>5, <1>6, <1>10, SMTT(30) DEF RulesOK, PushedOK, Run
  <1>12. SpinsOK'  BY <1>0, <1>10, SMT DEF RulesOK, SpinsOK, Run
  <1>13. OffOK'
    <2>1. \A t \in Thread : t \notin {on'[d] : d \in Cpu}
             => Label(t)' \in {"forkret", "sleep2", "yield2"}
      <3> SUFFICES ASSUME NEW t \in Thread, t \notin {on'[d] : d \in Cpu}
                   PROVE  Label(t)' \in {"forkret", "sleep2", "yield2"}
        OBVIOUS
      <3>1. CASE t = x  BY <1>3, <3>1
      <3>2. CASE t # x
        <4>1. t \notin {on[d] : d \in Cpu}  BY <1>1, <1>9, <3>2
        <4>2. t \in Context \ {x}  BY <3>2 DEF Context
        <4> QED  BY <1>3, <4>1, <4>2, SMT DEF RulesOK, OffOK
      <3> QED  BY <3>1, <3>2
    <2>2. \A d \in Cpu : on'[d] # d => pc'[d] = "scan"
      BY <1>1, <1>3, <1>9, LockAssumption, SMT DEF Context, RulesOK, OffOK
    <2>3. \A t \in Thread : saved'[t] = None => pc'[t] \in {"forkret", "trapret"}
      BY <1>1, <1>3, LockAssumption, SMT DEF Context, RulesOK, OffOK, IInv, LockTypeOK
    <2> QED  BY <2>1, <2>2, <2>3 DEF OffOK
  <1> QED  BY <1>3, <1>8, <1>11, <1>12, <1>13 DEF RulesOK

\* The scheduler runs a thread, which gets ptable.lock.
LEMMA swtchOK ==
    ASSUME IInv, RulesOK, NEW c \in Cpu, NEW t \in Thread, At(c, "scan"), swtch(c, t),
           UNCHANGED <<pc, hpc>>
    PROVE  RulesOK' /\ SpinStep(c)
  <1>0. /\ step[c] = Run /\ on[c] = c /\ ~handler[c] /\ t \notin {on[d] : d \in Cpu}
        /\ on' = [on EXCEPT ![c] = t] /\ UNCHANGED <<cpu, step, handler>>
        /\ saved' = [saved EXCEPT ![t] = IF @ = None THEN None ELSE TRUE]
    BY DEF swtch
  <1>1. Label(c) = "scan" /\ pc[c] = "scan"  BY <1>0 DEF At, Label
  <1>2. Label(t) \in {"forkret", "sleep2", "yield2"}  BY <1>0 DEF RulesOK, OffOK
  <1>3. Locks("scan") = {ptable} /\ Locks(Label(t)) = {ptable}
    BY <1>2, LocksAre DEF Locks, ConsLabels, PtableLabels
  <1>4. Pushed(c) = {ptable} /\ \A d \in Cpu : Pushed(d)' = Pushed(d)
    BY <1>0, <1>1, <1>3, SMT DEF RulesOK, PushedOK, Pushed, Run
  <1>5. SpinStep(c)  BY <1>4 DEF SpinStep
  <1>6. on'[c] = t /\ \A d \in Cpu \ {c} : on'[d] = on[d]
    BY <1>0 DEF IInv, LockTypeOK
  <1>7. \A x : Label(x)' = Label(x)  BY <1>0 DEF Label
  <1>8. Label(on[c])' = Label(t) /\ \A d \in Cpu \ {c} : Label(on[d])' = Label(on[d])
    BY <1>6, <1>7
  <1>9. LabelsOK'  BY <1>0 DEF RulesOK, LabelsOK
  <1>10. PushedOK'  BY <1>0, <1>3, <1>4, <1>8, SMT DEF RulesOK, PushedOK, Run
  <1>11. SpinsOK'  BY <1>0, <1>8, SMT DEF RulesOK, SpinsOK, Run
  <1>12. OffOK'
    <2>1. \A u \in Thread : u \notin {on'[d] : d \in Cpu} => u \notin {on[d] : d \in Cpu}
      BY <1>0, <1>6, LockAssumption, SMT
    <2>2. \A u \in Thread : saved'[u] = None => saved[u] = None
      BY <1>0, LockAssumption DEF IInv, LockTypeOK
    <2> QED  BY <1>1, <1>6, <1>7, <2>1, <2>2 DEF RulesOK, OffOK
  <1> QED  BY <1>5, <1>9, <1>10, <1>11, <1>12 DEF RulesOK

\* The locks at each label.
LEMMA LocksAt ==
    /\ \A l \in {"sti", "acquire", "trapret", "user", "sleep3", "consoleintr", "iret", "yield"} :
          Locks(l) = {}
    /\ \A l \in {"read", "readEnd", "write", "getc", "wakeup"} : Locks(l) = {cons}
    /\ \A l \in {"scan", "forkret", "sleep1", "sleep2", "kill", "yield1", "yield2"} :
          Locks(l) = {ptable}
    /\ Locks("sleep") = {cons, ptable} /\ Locks("wakeup1") = {cons, ptable}
    /\ cons # ptable
  BY LocksAre, ZenonT(60) DEF Locks, ConsLabels, PtableLabels

\* A new thread goes to user mode.
LEMMA trapretOK ==
    ASSUME IInv, RulesOK, NEW c \in Cpu, At(c, "trapret"), trapret(c), Goto(c, "user")
    PROVE  RulesOK' /\ SpinStep(c)
  <1>0. /\ UNCHANGED <<on, handler, step, cpu>> /\ step[c] = Run
    BY DEF trapret
  <1>1. PICK x \in Thread : x = on[c] /\ ~handler[x] /\ saved' = [saved EXCEPT ![x] = TRUE]
    BY DEF trapret
  <1>2. /\ x \in Context /\ pc[x] = "trapret" /\ pc' = [pc EXCEPT ![x] = "user"] /\ hpc' = hpc
        /\ Label(x) = "trapret"
    BY <1>1 DEF Context, At, Goto, Label
  <1>3. Locks("trapret") = {} /\ Locks("user") = {}  BY LocksAt
  <1>4. LabelsOK'
    BY <1>0, <1>1, <1>2, LockAssumption, SMT DEF RulesOK, LabelsOK, ThreadLabels
  <1>5. \A y \in Context \ {x} : Label(y)' = Label(y)  BY <1>0, <1>2, SMT DEF Label
  <1>6. Label(on[c])' = "user" /\ \A d \in Cpu \ {c} : Label(on[d])' = Label(on[d])
    <2>1. \A d \in Cpu \ {c} : on[d] \in Context \ {x}
      BY <1>1 DEF IInv, LockTypeOK, ContextsOK
    <2>2. Label(x)' = "user"  BY <1>0, <1>1, <1>2 DEF Label, RulesOK, LabelsOK
    <2> QED  BY <1>0, <1>1, <1>5, <2>1, <2>2
  <1>7. Pushed(c) = {} /\ \A d \in Cpu : Pushed(d)' = Pushed(d)
    BY <1>0, <1>1, <1>2, <1>3, SMT DEF RulesOK, PushedOK, Pushed, Run
  <1>8. PushedOK'  BY <1>0, <1>3, <1>6, <1>7 DEF RulesOK, PushedOK, Run
  <1>9. SpinsOK'  BY <1>0, <1>6, SMT DEF RulesOK, SpinsOK, Run
  <1>10. OffOK'
    <2>1. \A t \in Thread : t \notin {on[d] : d \in Cpu} => t \in Context \ {x}
      BY <1>1 DEF Context
    <2>2. \A d \in Cpu : pc'[d] = pc[d]  BY <1>2, LockAssumption DEF Context, RulesOK, LabelsOK
    <2>3. \A t \in Thread : saved'[t] = None => saved[t] = None /\ t # x
      BY <1>1, LockAssumption DEF IInv, LockTypeOK
    <2>4. \A t \in Thread : t # x => pc'[t] = pc[t]
      BY <1>2 DEF Context, RulesOK, LabelsOK
    <2> QED  BY <1>0, <1>5, <2>1, <2>2, <2>3, <2>4, SMT DEF RulesOK, OffOK
  <1> QED  BY <1>4, <1>7, <1>8, <1>9, <1>10 DEF RulesOK, SpinStep

\* Handlers keep the rules.
LEMMA HandlerRules ==
    ASSUME IInv, RulesOK, NEW c \in Cpu,
           consoleintr(c) \/ wakeup(c) \/ wakeup1(c) \/ intrEnd(c) \/ yield(c)
    PROVE  RulesOK' /\ SpinStep(c)
  <1> USE LocksAt DEF Along, AcquiredTo, SchedLabels, ThreadLabels, IntrLabels
  <1>1. CASE consoleintr(c)  BY <1>1, AcquiresOK DEF consoleintr
  <1>2. CASE wakeup(c)  BY <1>2, AcquiresOK, ZenonT(60) DEF wakeup
  <1>3. CASE wakeup1(c)  BY <1>3, ReleasesOK, SMT DEF wakeup1
  <1>4. CASE intrEnd(c)
    <2>1. PICK next \in {"iret", "consoleintr"} : Releases(c, "getc", cons, next)
      BY <1>4 DEF intrEnd
    <2> QED  BY <2>1, ReleasesOK, SMT
  <1>5. CASE yield(c)
    <2>1. CASE Acquires(c, "yield", ptable, "yield1")  BY <2>1, AcquiresOK
    <2>2. CASE SwitchOut(c, "yield1", "RUNNABLE", "yield2")  BY <2>2, SwitchOutOK
    <2>3. CASE Releases(c, "yield2", ptable, "iret")  BY <2>3, ReleasesOK
    <2> QED  BY <1>5, <2>1, <2>2, <2>3 DEF yield
  <1> QED  BY <1>1, <1>2, <1>3, <1>4, <1>5

\* Keys, and the characters a reader takes, need no other lock.
LEMMA RingRules ==
    ASSUME IInv, RulesOK, NEW c \in Cpu,
           readChar(c) \/ \E key \in Keys : edit(c, key) \/ type(c, key)
    PROVE  RulesOK' /\ UNCHANGED lockVars
  <1> USE LocksAt DEF Along, SchedLabels, ThreadLabels, IntrLabels, lockVars
  <1>1. CASE readChar(c)
    <2>1. PICK next \in {"readEnd", "read"} : At(c, "read") /\ Goto(c, next)
      BY <1>1 DEF readChar
    <2>2. UNCHANGED lockVars  BY <1>1 DEF readChar
    <2> QED  BY <2>1, <2>2, StayOK
  <1>2. ASSUME NEW key \in Keys, edit(c, key) PROVE RulesOK' /\ UNCHANGED lockVars
    BY <1>2, RulesSame DEF edit
  <1>3. ASSUME NEW key \in Keys, type(c, key) PROVE RulesOK' /\ UNCHANGED lockVars
    <2>1. At(c, "getc") /\ UNCHANGED lockVars  BY <1>3 DEF type
    <2>2. CASE Goto(c, "wakeup")  BY <2>1, <2>2, StayOK
    <2>3. CASE UNCHANGED <<pc, hpc>>  BY <2>1, <2>3, RulesSame
    <2> QED  BY <1>3, <2>2, <2>3 DEF type
  <1> QED  BY <1>1, <1>2, <1>3

\* System calls keep the rules, and so does the scheduler.
LEMMA CallRules ==
    ASSUME IInv, RulesOK, NEW c \in Cpu,
           \/ consoleread(c) \/ readEnd(c) \/ readSleep(c) \/ sleep(c)
           \/ consolewrite(c) \/ kill(c) \/ scheduler(c) \/ forkret(c)
    PROVE  RulesOK' /\ SpinStep(c)
  <1> USE LocksAt DEF Along, AcquiredTo, SchedLabels, ThreadLabels, IntrLabels
  <1>1. CASE consoleread(c)  BY <1>1, AcquiresOK DEF consoleread
  <1>2. CASE readEnd(c)
    <2>1. PICK at \in {"readEnd", "read"} : Releases(c, at, cons, "user")
      BY <1>2 DEF readEnd
    <2> QED  BY <2>1, ReleasesOK, SMT
  <1>3. CASE readSleep(c)  BY <1>3, AcquiresOK, ZenonT(60) DEF readSleep
  <1>4. CASE sleep(c)
    <2>1. CASE Releases(c, "sleep", cons, "sleep1")  BY <2>1, ReleasesOK, SMT
    <2>2. CASE SwitchOut(c, "sleep1", "SLEEPING", "sleep2")  BY <2>2, SwitchOutOK
    <2>3. CASE Releases(c, "sleep2", ptable, "sleep3")  BY <2>3, ReleasesOK
    <2>4. CASE Acquires(c, "sleep3", cons, "read")  BY <2>4, AcquiresOK
    <2> QED  BY <1>4, <2>1, <2>2, <2>3, <2>4 DEF sleep
  <1>5. CASE consolewrite(c)
    <2>1. CASE Acquires(c, "user", cons, "write")  BY <2>1, AcquiresOK
    <2>2. CASE Releases(c, "write", cons, "user")  BY <2>2, ReleasesOK, SMT
    <2> QED  BY <1>5, <2>1, <2>2 DEF consolewrite
  <1>6. CASE kill(c)
    <2>1. CASE Acquires(c, "user", ptable, "kill")  BY <2>1, AcquiresOK
    <2>2. CASE Releases(c, "kill", ptable, "user")  BY <2>2, ReleasesOK, ZenonT(60)
    <2> QED  BY <1>6, <2>1, <2>2 DEF kill
  <1>7. CASE scheduler(c)
    <2>1. CASE At(c, "sti") /\ sti(c) /\ Goto(c, "acquire")
      <3>1. RulesOK'  BY <2>1, StayOK DEF sti
      <3>2. Pushed(c) = {}
        BY <2>1, SMT DEF At, RulesOK, PushedOK, Label, Run
      <3> QED  BY <2>1, <3>1, <3>2 DEF SpinStep
    <2>2. CASE Acquires(c, "acquire", ptable, "scan")  BY <2>2, AcquiresOK
    <2>3. CASE At(c, "scan") /\ (\E t \in Thread : swtch(c, t)) /\ UNCHANGED <<pc, hpc>>
      BY <2>3, swtchOK
    <2>4. CASE Releases(c, "scan", ptable, "sti")  BY <2>4, ReleasesOK, SMT
    <2> QED  BY <1>7, <2>1, <2>2, <2>3, <2>4 DEF scheduler
  <1>8. CASE forkret(c)
    <2>1. CASE Releases(c, "forkret", ptable, "trapret")  BY <2>1, ReleasesOK
    <2>2. CASE At(c, "trapret") /\ trapret(c) /\ Goto(c, "user")  BY <2>2, trapretOK
    <2> QED  BY <1>8, <2>1, <2>2 DEF forkret
  <1> QED  BY <1>1, <1>2, <1>3, <1>4, <1>5, <1>6, <1>7, <1>8

\* Every step of the console is one that the rules of the locks allow.
LEMMA StepRules ==
    ASSUME IInv, RulesOK, NEW c \in Cpu, Step(c)
    PROVE  RulesOK' /\ (SpinStep(c) \/ UNCHANGED lockVars)
  BY lockStepOK, trapOK, HandlerRules, RingRules, CallRules DEF Step

-----------------------------------------------------------------------------
(***************************************************************************)
(* No lost input.                                                          *)
(***************************************************************************)
\* A CPU that is past the acquire of a lock has it, and it alone.
LEMMA OneOwner ==
    ASSUME IInv, RulesOK, NEW c \in Cpu, NEW d \in Cpu, NEW l \in {cons, ptable},
           l \in Locks(Label(on[c])), step[c] = Run,
           l \in Locks(Label(on[d])), Label(on[d]) \notin AcquiredTo(l)
    PROVE  c = d
  <1>1. l \in Lock /\ l \in Pushed(c) /\ l \in Pushed(d)
    BY RingAssumption, LockAssumption DEF RulesOK, PushedOK
  <1>2. Has(c, l)  BY <1>1, SMT DEF Pushed, Has, Run
  <1>3. step[d] # <<"spin", l>>  BY <1>1, SMT DEF RulesOK, SpinsOK
  <1>4. Has(d, l)  BY <1>1, <1>3, SMT DEF Pushed, Has
  <1> QED  BY <1>1, <1>2, <1>4 DEF IInv, LocksOK, OneHolder

\* A step that changes neither the ring nor who runs, and puts nobody to sleep.
LEMMA InputMove ==
    ASSUME IInv, RulesOK, InputOK, NEW c \in Cpu, NEW at, NEW next, At(c, at), Goto(c, next),
           Along(at, next), UNCHANGED <<on, handler, r, w>>, Sleepers' \subseteq Sleepers,
           next = "sleep" => r = w, next = "sleep1" => at = "sleep",
           at \in {"wakeup", "wakeup1"} => next \in {"wakeup", "wakeup1"}
    PROVE  InputOK'
  <1>1. /\ Label(on[c]) = at /\ Label(on[c])' = next
        /\ \A d \in Cpu \ {c} : Label(on[d])' = Label(on[d]) /\ hpc'[on[d]] = hpc[on[d]]
    BY MoveKeeps, SMT
  <1>2. \A d \in Cpu : Label(on[d])' = "sleep" => r' = w'
    BY <1>1 DEF InputOK
  <1>3. ASSUME r' # w', Sleepers' # {} \/ \E d \in Cpu : Label(on[d])' = "sleep1"
        PROVE  Waking'
    <2>1. Sleepers # {} \/ \E d \in Cpu : Label(on[d]) = "sleep1"
      BY <1>1, <1>3 DEF InputOK
    <2>2. PICK d \in Cpu : handler[on[d]] /\ hpc[on[d]] \in {"wakeup", "wakeup1"}
      BY <1>3, <2>1 DEF InputOK, Waking
    <2>3. CASE d = c
      <3>1. at \in {"wakeup", "wakeup1"}  BY <1>1, <2>2, <2>3 DEF Label
      <3>2. Label(on[c])' \in {"wakeup", "wakeup1"}  BY <1>1, <3>1
      <3> QED  BY <2>2, <2>3, <3>2 DEF Waking, Label
    <2>4. CASE d # c
      BY <1>1, <2>2, <2>4 DEF Waking
    <2> QED  BY <2>3, <2>4
  <1> QED  BY <1>2, <1>3 DEF InputOK

\* Nothing changes for sleepers.
LEMMA InputSame ==
    ASSUME InputOK, UNCHANGED <<pc, hpc, on, handler, r, w, state>> PROVE InputOK'
  BY DEF InputOK, Waking, Label, Sleepers

\* A step in which CPU c goes to another context or handler, away from and to one
\* that neither sleeps nor wakes.
LEMMA InputSwitch ==
    ASSUME InputOK, NEW c \in Cpu, Label(on[c]) \notin {"wakeup", "wakeup1"},
           Label(on[c])' \notin {"sleep", "sleep1"}, UNCHANGED <<r, w>>,
           \A d \in Cpu \ {c} : /\ Label(on[d])' = Label(on[d]) /\ on'[d] = on[d]
                                /\ handler'[on[d]] = handler[on[d]] /\ hpc'[on[d]] = hpc[on[d]],
           Sleepers' \subseteq Sleepers \/ Label(on[c]) = "sleep1"
    PROVE  InputOK'
  <1>1. \A d \in Cpu : Label(on[d])' = "sleep" => r' = w'
    BY DEF InputOK
  <1>2. ASSUME r' # w', Sleepers' # {} \/ \E d \in Cpu : Label(on[d])' = "sleep1"
        PROVE  Waking'
    <2>1. Sleepers # {} \/ \E d \in Cpu : Label(on[d]) = "sleep1"
      BY <1>2 DEF InputOK
    <2>2. PICK d \in Cpu : handler[on[d]] /\ hpc[on[d]] \in {"wakeup", "wakeup1"}
      BY <1>2, <2>1 DEF InputOK, Waking
    <2>3. d # c  BY <2>2 DEF Label
    <2> QED  BY <2>2, <2>3 DEF Waking
  <1> QED  BY <1>1, <1>2 DEF InputOK

\* Interrupts come and go where nobody sleeps or wakes.
LEMMA trapInput ==
    ASSUME IInv, RulesOK, RulesOK', InputOK, NEW c \in Cpu, trap(c) \/ trapEnd(c)
    PROVE  InputOK'
  <1>0. /\ step[c] = Run /\ UNCHANGED <<on, pc, step, cpu, r, w, state>>
        /\ \A d \in Cpu \ {c} : on[d] # on[c]
    BY DEF IInv, LockTypeOK, ContextsOK, trap, trapEnd, interrupt, iret, ring, procVars
  <1>1. PICK x \in Context : x = on[c]  BY DEF IInv, LockTypeOK
  <1>2. /\ \A y \in Context \ {x} : handler'[y] = handler[y] /\ hpc'[y] = hpc[y]
        /\ Label(x) \notin {"wakeup", "wakeup1"}
    <2>1. CASE trap(c)
      <3>1. ~handler[x] /\ Label(x) \in SchedLabels \cup ThreadLabels
        BY <1>1, <2>1, ZenonT(60) DEF trap, interrupt, Label, RulesOK, LabelsOK
      <3> QED  BY <1>1, <2>1, <3>1, SMT DEF trap, interrupt, IInv, LockTypeOK, RulesOK, LabelsOK,
                  SchedLabels, ThreadLabels
    <2>2. CASE trapEnd(c)
      BY <1>1, <2>2, SMT DEF trapEnd, iret, At, Label, IInv, LockTypeOK, RulesOK, LabelsOK
    <2> QED  BY <2>1, <2>2, ZenonT(60)
  <1>3. Pushed(c)' = {}
    <2>1. CASE trap(c)
      <3>1. Pushed(c) = {}  BY <2>1 DEF trap, interrupt, IInv, FlagsOK
      <3> QED  BY <1>0, <3>1 DEF Pushed
    <2>2. CASE trapEnd(c)
      <3>1. Label(on[c]) = "iret"  BY <2>2 DEF trapEnd, At, Label
      <3>2. Pushed(c) = {}  BY <1>0, <3>1, LocksAt, SMT DEF RulesOK, PushedOK, Run
      <3> QED  BY <1>0, <3>2 DEF Pushed
    <2> QED  BY <2>1, <2>2
  <1>4. Locks(Label(on[c])') = {}  BY <1>3 DEF RulesOK, PushedOK
  <1>5. Label(on[c])' \notin {"sleep", "sleep1"}  BY <1>4, LocksAt
  <1>6. \A d \in Cpu \ {c} : on[d] \in Context \ {x}  BY <1>0, <1>1 DEF IInv, LockTypeOK
  <1>7. \A d \in Cpu \ {c} : /\ Label(on[d])' = Label(on[d]) /\ on'[d] = on[d]
                             /\ handler'[on[d]] = handler[on[d]] /\ hpc'[on[d]] = hpc[on[d]]
    BY <1>0, <1>2, <1>6 DEF Label
  <1>8. Sleepers' \subseteq Sleepers  BY <1>0 DEF Sleepers
  <1> QED  BY <1>0, <1>1, <1>2, <1>5, <1>7, <1>8, InputSwitch

\* A thread that leaves the CPU wakes nobody.
LEMMA SwitchInput ==
    ASSUME IInv, RulesOK, InputOK, NEW c \in Cpu, NEW s, NEW at, NEW next,
           SwitchOut(c, at, s, next), UNCHANGED <<r, w>>,
           \/ at = "yield1" /\ next = "yield2" /\ s = "RUNNABLE"
           \/ at = "sleep1" /\ next = "sleep2"
    PROVE  InputOK'
  <1>0. /\ At(c, at) /\ Goto(c, next) /\ UNCHANGED handler /\ on' = [on EXCEPT ![c] = c]
    BY DEF SwitchOut, sched
  <1>1. PICK x \in Thread : x = on[c] /\ state' = [state EXCEPT ![x] = s]
    BY DEF SwitchOut, sched
  <1>2. Along(at, next)  BY DEF Along, SchedLabels, ThreadLabels, IntrLabels
  <1>3. /\ Label(x) = at
        /\ \A y \in Context \ {x} : Label(y)' = Label(y) /\ pc'[y] = pc[y] /\ hpc'[y] = hpc[y]
        /\ \A d \in Cpu \ {c} : on[d] \in Context \ {x}
    <2>1. x \in Context /\ x = on[c]  BY <1>1, ZenonT(60) DEF Context
    <2> QED  BY <1>0, <1>2, <2>1, MoveLabels, SMT
  <1>4. c \in Context \ {x} /\ Label(c) = "scan"
    BY <1>1, LockAssumption, SMT DEF Context, IInv, ContextsOK, RulesOK, OffOK, Label
  <1>5. on'[c] = c /\ \A d \in Cpu \ {c} : on'[d] = on[d]
    BY <1>0 DEF IInv, LockTypeOK
  <1>6. Label(on[c]) = at /\ Label(on[c])' = "scan"
    BY <1>1, <1>3, <1>4, <1>5
  <1>7. \A d \in Cpu \ {c} : /\ Label(on[d])' = Label(on[d]) /\ on'[d] = on[d]
                             /\ handler'[on[d]] = handler[on[d]] /\ hpc'[on[d]] = hpc[on[d]]
    BY <1>0, <1>3, <1>5
  <1>8. s = "RUNNABLE" => Sleepers' \subseteq Sleepers  BY <1>1, SMT DEF Sleepers
  <1> QED  BY <1>6, <1>7, <1>8, InputSwitch

\* Nor does the scheduler that runs one.
LEMMA swtchInput ==
    ASSUME IInv, RulesOK, InputOK, NEW c \in Cpu, NEW t \in Thread, At(c, "scan"), swtch(c, t),
           state' = [state EXCEPT ![t] = "RUNNING"], UNCHANGED <<pc, hpc, r, w>>
    PROVE  InputOK'
  <1>0. /\ on[c] = c /\ ~handler[c] /\ t \notin {on[d] : d \in Cpu}
        /\ on' = [on EXCEPT ![c] = t] /\ UNCHANGED handler
    BY DEF swtch
  <1>1. \A x : Label(x)' = Label(x)  BY <1>0 DEF Label
  <1>2. on'[c] = t /\ \A d \in Cpu \ {c} : on'[d] = on[d]
    BY <1>0 DEF IInv, LockTypeOK
  <1>3. Label(on[c]) = "scan"  BY <1>0 DEF At, Label
  <1>4. Label(on[c])' = Label(t)  BY <1>1, <1>2
  <1>5. Label(t) \in {"forkret", "sleep2", "yield2"}  BY <1>0 DEF RulesOK, OffOK
  <1>6. \A d \in Cpu \ {c} : /\ Label(on[d])' = Label(on[d]) /\ on'[d] = on[d]
                             /\ handler'[on[d]] = handler[on[d]] /\ hpc'[on[d]] = hpc[on[d]]
    BY <1>0, <1>1, <1>2
  <1>7. Sleepers' \subseteq Sleepers  BY SMT DEF Sleepers
  <1> QED  BY <1>3, <1>4, <1>5, <1>6, <1>7, InputSwitch

\* The handler hands a line over, and then wakes the readers.
LEMMA typeInput ==
    ASSUME IInv, RulesOK, InputOK, NEW c \in Cpu, NEW key \in Keys, type(c, key)
    PROVE  InputOK'
  <1>0. At(c, "getc") /\ step[c] = Run /\ UNCHANGED <<on, handler, step, r, state>>
    BY DEF type, At, lockVars, procVars
  <1>1. CASE UNCHANGED <<w, pc, hpc>>  BY <1>0, <1>1, InputSame
  <1>2. CASE Goto(c, "wakeup")
    <2>1. Along("getc", "wakeup")  BY DEF Along, SchedLabels, ThreadLabels, IntrLabels
    <2>2. /\ Label(on[c]) = "getc" /\ Label(on[c])' = "wakeup" /\ handler[on[c]]
          /\ \A d \in Cpu \ {c} : Label(on[d])' = Label(on[d])
      BY <1>0, <1>2, <2>1, MoveKeeps DEF IntrLabels
    <2>3. \A d \in Cpu : Label(on[d]) # "sleep"
      BY <1>0, <2>2, OneOwner, LocksAt DEF AcquiredTo
    <2>4. Waking'  BY <1>0, <2>2 DEF Waking, Label
    <2> QED  BY <2>2, <2>3, <2>4 DEF InputOK
  <1> QED  BY <1>1, <1>2 DEF type

\* wakeup1 finds nobody between the test and the sleep.
LEMMA wakeup1Input ==
    ASSUME IInv, RulesOK, InputOK, NEW c \in Cpu, wakeup1(c) PROVE InputOK'
  <1>0. At(c, "wakeup1") /\ step[c] = Run /\ UNCHANGED <<on, handler, r, w>> /\ Goto(c, "getc")
    BY DEF wakeup1, Releases, release, ring
  <1>1. Along("wakeup1", "getc")  BY ZenonT(60) DEF Along, SchedLabels, ThreadLabels, IntrLabels
  <1>2. /\ Label(on[c]) = "wakeup1" /\ Label(on[c])' = "getc"
        /\ \A d \in Cpu \ {c} : Label(on[d])' = Label(on[d])
    BY <1>0, <1>1, MoveKeeps, SMT
  <1>3. \A d \in Cpu : Label(on[d]) # "sleep1"
    BY <1>0, <1>2, OneOwner, LocksAt DEF AcquiredTo
  <1>4. Sleepers' = {}  BY DEF wakeup1, Sleepers
  <1> QED  BY <1>0, <1>2, <1>3, <1>4 DEF InputOK

\* A reader takes a character.
LEMMA readCharInput ==
    ASSUME IInv, RulesOK, InputOK, NEW c \in Cpu, readChar(c) PROVE InputOK'
  <1>0. /\ At(c, "read") /\ step[c] = Run /\ UNCHANGED <<on, handler, w, state>> /\ r # w
        /\ \E next \in {"read", "readEnd"} : Goto(c, next)
    BY DEF readChar, At, lockVars, procVars
  <1>1. PICK next \in {"read", "readEnd"} : Goto(c, next)  BY <1>0
  <1>2. Along("read", next)  BY DEF Along, SchedLabels, ThreadLabels, IntrLabels
  <1>3. /\ Label(on[c]) = "read" /\ Label(on[c])' = next /\ ~handler[on[c]]
        /\ \A d \in Cpu \ {c} : Label(on[d])' = Label(on[d]) /\ hpc'[on[d]] = hpc[on[d]]
    BY <1>0, <1>1, <1>2, MoveKeeps, SMT DEF IntrLabels
  <1>4. \A d \in Cpu : Label(on[d]) # "sleep"
    BY <1>0, <1>3, OneOwner, LocksAt DEF AcquiredTo
  <1>5. Sleepers' = Sleepers  BY <1>0 DEF Sleepers
  <1>6. Waking => Waking'  BY <1>0, <1>3 DEF Waking
  <1> QED  BY <1>0, <1>3, <1>4, <1>5, <1>6 DEF InputOK

\* A call of acquire or release that puts nobody to sleep and wakes nobody.
LEMMA CallInput ==
    ASSUME IInv, RulesOK, InputOK, NEW c \in Cpu, NEW l, NEW at, NEW next,
           Acquires(c, at, l, next) \/ Releases(c, at, l, next), Along(at, next),
           UNCHANGED <<r, w>>, Sleepers' \subseteq Sleepers,
           next = "sleep" => r = w, next = "sleep1" => at = "sleep",
           at \in {"wakeup", "wakeup1"} => next \in {"wakeup", "wakeup1"}
    PROVE  InputOK'
  <1>1. At(c, at) /\ Goto(c, next) /\ UNCHANGED <<on, handler>>
    BY DEF Acquires, Releases, acquire, release
  <1> QED  BY <1>1, InputMove

\* A new thread goes to user mode.
LEMMA trapretInput ==
    ASSUME IInv, RulesOK, InputOK, NEW c \in Cpu, At(c, "trapret"), trapret(c), Goto(c, "user"),
           UNCHANGED <<r, w, state>>
    PROVE  InputOK'
  <1>1. UNCHANGED <<on, handler>>  BY DEF trapret
  <1>2. PICK x \in Thread : x = on[c] /\ ~handler[x]  BY DEF trapret
  <1>3. x \in Context /\ pc' = [pc EXCEPT ![x] = "user"] /\ hpc' = hpc /\ Label(x) = "trapret"
    BY <1>2 DEF Context, At, Goto, Label
  <1>4. \A d \in Cpu \ {c} : on[d] \in Context \ {x}
    BY <1>2 DEF IInv, LockTypeOK, ContextsOK
  <1>5. Label(x)' = "user" /\ \A y \in Context \ {x} : Label(y)' = Label(y)
    BY <1>1, <1>2, <1>3 DEF Label, RulesOK, LabelsOK
  <1>6. Sleepers' = Sleepers  BY DEF Sleepers
  <1> QED  BY <1>1, <1>2, <1>3, <1>4, <1>5, <1>6, InputSwitch

\* Handlers lose no input.
LEMMA HandlerInput ==
    ASSUME IInv, RulesOK, RulesOK', InputOK, NEW c \in Cpu,
           \/ lockStep(c) \/ trap(c) \/ trapEnd(c) \/ consoleintr(c) \/ wakeup(c)
           \/ wakeup1(c) \/ intrEnd(c) \/ yield(c) \/ \E key \in Keys : edit(c, key) \/ type(c, key)
    PROVE  InputOK'
  <1> USE DEF Along, SchedLabels, ThreadLabels, IntrLabels
  <1>0. UNCHANGED procVars => Sleepers' \subseteq Sleepers  BY DEF procVars, Sleepers
  <1>1. CASE lockStep(c)
    <2>1. UNCHANGED <<on, handler>>  BY <1>1 DEF lockStep, xchg, record, clear
    <2> QED  BY <1>1, <2>1, InputSame DEF lockStep, ring, procVars
  <1>2. CASE trap(c) \/ trapEnd(c)  BY <1>2, trapInput
  <1>3. CASE consoleintr(c)  BY <1>0, <1>3, CallInput, SMT DEF consoleintr, ring
  <1>4. CASE wakeup(c)  BY <1>0, <1>4, CallInput, SMT DEF wakeup, ring
  <1>5. CASE wakeup1(c)  BY <1>5, wakeup1Input
  <1>6. CASE intrEnd(c)
    <2>1. PICK next \in {"iret", "consoleintr"} : Releases(c, "getc", cons, next)
      BY <1>6 DEF intrEnd
    <2> QED  BY <1>0, <1>6, <2>1, CallInput DEF intrEnd, ring
  <1>7. CASE yield(c)
    <2>0. UNCHANGED <<r, w>> /\ (UNCHANGED state => Sleepers' \subseteq Sleepers)
      BY <1>7 DEF yield, ring, Sleepers
    <2>1. CASE Acquires(c, "yield", ptable, "yield1") /\ UNCHANGED state
      BY <2>0, <2>1, CallInput, SMT
    <2>2. CASE SwitchOut(c, "yield1", "RUNNABLE", "yield2")  BY <2>0, <2>2, SwitchInput
    <2>3. CASE Releases(c, "yield2", ptable, "iret") /\ UNCHANGED state
      BY <2>0, <2>3, CallInput, SMT
    <2> QED  BY <1>7, <2>1, <2>2, <2>3 DEF yield
  <1>8. ASSUME NEW key \in Keys, edit(c, key) PROVE InputOK'
    BY <1>8, InputSame DEF edit, lockVars, procVars
  <1>9. ASSUME NEW key \in Keys, type(c, key) PROVE InputOK'
    BY <1>9, typeInput
  <1> QED  BY <1>1, <1>2, <1>3, <1>4, <1>5, <1>6, <1>7, <1>8, <1>9

\* Nor do system calls and the scheduler.
LEMMA CallsInput ==
    ASSUME IInv, RulesOK, InputOK, NEW c \in Cpu,
           \/ consoleread(c) \/ readChar(c) \/ readEnd(c) \/ readSleep(c) \/ sleep(c)
           \/ consolewrite(c) \/ kill(c) \/ scheduler(c) \/ forkret(c)
    PROVE  InputOK'
  <1> USE DEF Along, SchedLabels, ThreadLabels, IntrLabels
  <1>0. /\ UNCHANGED procVars => Sleepers' \subseteq Sleepers
        /\ UNCHANGED state => Sleepers' \subseteq Sleepers
    BY DEF procVars, Sleepers
  <1>1. CASE consoleread(c)  BY <1>0, <1>1, CallInput, SMT DEF consoleread, ring
  <1>2. CASE readChar(c)  BY <1>2, readCharInput, ZenonT(60)
  <1>3. CASE readEnd(c)
    <2>1. PICK at \in {"readEnd", "read"} : Releases(c, at, cons, "user")
      BY <1>3, ZenonT(60) DEF readEnd
    <2> QED  BY <1>0, <1>3, <2>1, CallInput, SMT DEF readEnd, ring
  <1>4. CASE readSleep(c)
    BY <1>0, <1>4, CallInput, SMT DEF readSleep, ring
  <1>5. CASE sleep(c)
    <2>0. UNCHANGED <<r, w>>  BY <1>5 DEF sleep, ring
    <2>1. CASE Releases(c, "sleep", cons, "sleep1") /\ UNCHANGED state
      BY <1>0, <2>0, <2>1, CallInput
    <2>2. CASE SwitchOut(c, "sleep1", "SLEEPING", "sleep2")  BY <2>0, <2>2, SwitchInput
    <2>3. CASE Releases(c, "sleep2", ptable, "sleep3") /\ UNCHANGED state
      BY <1>0, <2>0, <2>3, CallInput, SMT
    <2>4. CASE Acquires(c, "sleep3", cons, "read") /\ UNCHANGED state
      BY <1>0, <2>0, <2>4, CallInput, SMT
    <2> QED  BY <1>5, <2>1, <2>2, <2>3, <2>4 DEF sleep
  <1>6. CASE consolewrite(c)
    <2>0. UNCHANGED <<r, w>> /\ Sleepers' \subseteq Sleepers
      BY <1>0, <1>6 DEF consolewrite, ring
    <2>1. CASE Acquires(c, "user", cons, "write")  BY <2>0, <2>1, CallInput, SMT
    <2>2. CASE Releases(c, "write", cons, "user")  BY <2>0, <2>2, CallInput, SMT
    <2> QED  BY <1>6, <2>1, <2>2 DEF consolewrite
  <1>7. CASE kill(c)
    <2>0. UNCHANGED <<r, w>>  BY <1>7 DEF kill, ring
    <2>1. CASE Acquires(c, "user", ptable, "kill") /\ UNCHANGED procVars
      BY <1>0, <2>0, <2>1, CallInput, SMT
    <2>2. CASE /\ Releases(c, "kill", ptable, "user")
               /\ \E t \in Thread :
                    state' = [state EXCEPT ![t] = IF @ = "SLEEPING" THEN "RUNNABLE" ELSE @]
      <3>1. Sleepers' \subseteq Sleepers  BY <2>2, SMT DEF Sleepers
      <3> QED  BY <2>0, <2>2, <3>1, CallInput, SMT
    <2> QED  BY <1>7, <2>1, <2>2 DEF kill
  <1>8. CASE scheduler(c)
    <2>0. UNCHANGED <<r, w>>  BY <1>8 DEF scheduler, ring
    <2>1. CASE At(c, "sti") /\ sti(c) /\ Goto(c, "acquire") /\ UNCHANGED state
      <3>1. UNCHANGED <<on, handler>>  BY <2>1 DEF sti
      <3> QED  BY <1>0, <2>0, <2>1, <3>1, InputMove
    <2>2. CASE Acquires(c, "acquire", ptable, "scan") /\ UNCHANGED state
      BY <1>0, <2>0, <2>2, CallInput, SMT
    <2>3. ASSUME At(c, "scan"), UNCHANGED <<pc, hpc>>, NEW t \in Thread, swtch(c, t),
                 state' = [state EXCEPT ![t] = "RUNNING"]
          PROVE  InputOK'
      BY <2>0, <2>3, swtchInput
    <2>4. CASE Releases(c, "scan", ptable, "sti") /\ UNCHANGED state
      BY <1>0, <2>0, <2>4, CallInput, SMT
    <2> QED  BY <1>8, <2>1, <2>2, <2>3, <2>4 DEF scheduler
  <1>9. CASE forkret(c)
    <2>0. UNCHANGED <<r, w, state>>  BY <1>9 DEF forkret, ring, procVars
    <2>1. CASE Releases(c, "forkret", ptable, "trapret")  BY <1>0, <2>0, <2>1, CallInput, SMT
    <2>2. CASE At(c, "trapret") /\ trapret(c) /\ Goto(c, "user")  BY <2>0, <2>2, trapretInput
    <2> QED  BY <1>9, <2>1, <2>2 DEF forkret
  <1> QED  BY <1>1, <1>2, <1>3, <1>4, <1>5, <1>6, <1>7, <1>8, <1>9
===============================================================================
