-------------------------------- MODULE Memory --------------------------------
(***************************************************************************)
(* The memory of processes: the pages that kalloc.c hands out, the address *)
(* spaces that vm.c builds of them, and sbrk, fork, exec, exit and wait,   *)
(* which build, grow, replace and free address spaces and must undo what   *)
(* they have done when the memory runs out half way.                       *)
(*                                                                         *)
(* Free pages are alike, so they are counted.  An address space is the set *)
(* of its page tables and of its pages; space[d] is the one of directory   *)
(* d.  Addresses are bytes, in pages of PGSIZE.  The loops over pages take *)
(* a step a page.                                                          *)
(*                                                                         *)
(* Threads end as in proc.c and exec.c, since an address space may be      *)
(* freed only when no CPU has it loaded: exit and exec tell the siblings   *)
(* to end and wait for them; kthread_exit is a zombie before it has left   *)
(* its CPU.  ProcTable has the rest of it: the slots, which are taken here *)
(* in one step, kill, and the sleep of join and wait, which are guards.    *)
(***************************************************************************)
EXTENDS Integers, Sequences, FiniteSets, FiniteSetsExt

CONSTANTS
    NPROC, NTHREAD,     \* slots of processes, and of threads in a process
    NPAGES,             \* pages of physical memory
    KTABLES,            \* page tables of the kernel half of a directory
    PGSIZE, NPTENTRIES, \* bytes in a page, pages under a page table
    KERNBASE,           \* end of user memory
    Increments,         \* arguments of sbrk
    Images,             \* executables: the segments [vaddr, memsz] to load
    Arguments,          \* bytes of the arguments that exec pushes
    Prog,               \* the calls made by the process in each slot
    PIPES,              \* pages that others may have
    Nil

Procs == 0 .. NPROC - 1
Tix == 0 .. NTHREAD - 1
Thread == Procs \X Tix
Dirs == 1 .. 2 * NPROC          \* a process has two directories during exec
UINT == 2 * KERNBASE            \* sizes are unsigned and wrap around
Call == {"sbrk", "fork", "exec", "exit", "wait", "kthread_create", "kthread_join",
         "kthread_exit"}

ASSUME SizeAssumption ==
    /\ {NPROC, NTHREAD, NPAGES, PGSIZE, NPTENTRIES, KERNBASE} \subseteq Nat \ {0}
    /\ {KTABLES, PIPES} \subseteq Nat /\ Increments \subseteq Int
    /\ Arguments \subseteq Nat
    /\ Images \subseteq Seq([vaddr : Nat, memsz : Nat])
    /\ Prog \in [Procs -> SUBSET Call]

VARIABLES
    free,       \* number of pages on kmem.freelist
    pipes,      \* number of pages in use elsewhere, as by pipes
    space,      \* page directory -> its page tables and pages, or Nil
    state, sz, pgdir, parent,   \* of processes
    stack,      \* threads that have a kernel stack
    killed,     \* threads that have been told to end
    at,         \* thread -> what it is doing in the kernel
    cr3,        \* thread -> the directory its CPU has loaded
    lock,       \* the thread in growproc, which keeps ptable.lock throughout
    panic

procVars == <<state, sz, pgdir, parent>>
vars == <<free, pipes, space, procVars, stack, killed, at, cr3, lock, panic>>

\* A kernel activity.  dir is a directory under construction, or being freed;
\* allocuvm and copyuvm are at address a on their way to new; ret is the result
\* of allocuvm; prog are the segments that exec has yet to load, k is the child
\* of fork or the thread that exit() waits for, addr what sbrk will return.
User == [pc |-> "user", dir |-> Nil, a |-> 0, old |-> 0, new |-> 0, ret |-> 0,
         then |-> "user", prog |-> <<>>, k |-> 0, addr |-> 0]
None == [User EXCEPT !.pc = "none"]
Zombie == [User EXCEPT !.pc = "zombie"]

PGROUNDUP(x) == ((x + PGSIZE - 1) \div PGSIZE) * PGSIZE
Page(a) == a \div PGSIZE
PDX(v) == v \div NPTENTRIES
\* The pages from address a up to b.
Between(a, b) == {v \in 0 .. Page(UINT) : a <= v * PGSIZE /\ v * PGSIZE < b}

NewSpace == [tabs |-> {}, pages |-> {}]
Size(s) == 1 + KTABLES + Cardinality(s.tabs) + Cardinality(s.pages)

TypeOK ==
    /\ free \in 0 .. NPAGES /\ pipes \in 0 .. PIPES
    /\ space \in [Dirs -> [tabs : SUBSET (0 .. PDX(Page(UINT))), pages : SUBSET (0 .. Page(UINT))]
                          \cup {Nil}]
    /\ state \in [Procs -> {"UNUSED", "EMBRYO", "RUNNABLE", "ZOMBIE"}]
    /\ sz \in [Procs -> 0 .. UINT - 1] /\ pgdir \in [Procs -> Dirs \cup {Nil}]
    /\ parent \in [Procs -> Procs \cup {Nil}]
    /\ stack \subseteq Thread /\ killed \subseteq Thread /\ lock \in Thread \cup {Nil}
    /\ cr3 \in [Thread -> Dirs \cup {Nil}] /\ panic \in BOOLEAN

\* userinit: the first process has one page, filled by inituvm.
Init ==
    /\ space = [d \in Dirs |-> IF d = 1 THEN [tabs |-> {0}, pages |-> {0}]
                                        ELSE Nil]
    /\ free = NPAGES - Size(space[1]) - 1 /\ pipes = 0
    /\ state = [p \in Procs |-> IF p = 0 THEN "RUNNABLE" ELSE "UNUSED"]
    /\ sz = [p \in Procs |-> IF p = 0 THEN PGSIZE ELSE 0]
    /\ pgdir = [p \in Procs |-> IF p = 0 THEN 1 ELSE Nil]
    /\ parent = [p \in Procs |-> Nil]
    /\ stack = {<<0, 0>>} /\ killed = {}
    /\ at = [t \in Thread |-> IF t = <<0, 0>> THEN User ELSE None]
    /\ cr3 = [t \in Thread |-> IF t = <<0, 0>> THEN 1 ELSE Nil]
    /\ lock = Nil /\ panic = FALSE

-----------------------------------------------------------------------------
Siblings(t) == {s \in Thread : s[1] = t[1] /\ s # t /\ at[s].pc # "none"}
Goto(t, fr) == at' = [at EXCEPT ![t] = fr]

Gone(s) == at[s].pc \in {"none", "zombie"}

\* A program makes a call: programs are linked at 0, and fault without page 0.
\* trap() looks at killed first; a thread killed after that is at "enter".
Runs(p) == 0 \in space[pgdir[p]].pages
Calls(t, call) ==
    /\ at[t].pc = "enter" \/ (at[t].pc = "user" /\ t \notin killed)
    /\ call \in Prog[t[1]] /\ Runs(t[1])
\* A call that changes nothing here.
syscall(t) ==
    /\ at[t].pc = "enter" /\ Goto(t, User)
    /\ UNCHANGED <<free, pipes, space, procVars, stack, killed, cr3, lock, panic>>

\* mappages on one page: what it takes, and the space it leaves.
Tables(s, v) == IF PDX(v) \in s.tabs THEN 0 ELSE 1
Mapped(s, v) == [s EXCEPT !.tabs = @ \cup {PDX(v)}, !.pages = @ \cup {v}]

\* Mutant: the page that newsz is in is freed as well.
WithoutRoundDown(s, oldsz, newsz) ==
    [s EXCEPT !.pages = @ \ Between(Page(newsz) * PGSIZE, oldsz)]
\* deallocuvm, for newsz < oldsz: the space without the pages in between.
Without(s, oldsz, newsz) == [s EXCEPT !.pages = @ \ Between(PGROUNDUP(newsz), oldsz)]
Given(s, r) == Cardinality(s.pages) - Cardinality(r.pages)

\* setupkvm gives back what it got when it cannot have it all.
NewDir == CHOOSE d \in Dirs : space[d] = Nil
CanSetup == free >= 1 + KTABLES
setupkvm ==
    /\ space' = [space EXCEPT ![NewDir] = NewSpace]
    /\ free' = free - 1 - KTABLES

\* freevm: the pages, the tables, the directory.
freevm(d) ==
    /\ free' = free + Size(space[d])
    /\ space' = [space EXCEPT ![d] = Nil]

-----------------------------------------------------------------------------
(***************************************************************************)
(* allocuvm: entered with Alloc, then a page a step; it leaves with newsz, *)
(* or with 0 and nothing allocated but page tables.                        *)
(***************************************************************************)
\* Mutant: the old size is not rounded up.
AllocUnrounded(fr, then, d, oldsz, newsz) ==
    [fr EXCEPT !.dir = d, !.then = then, !.a = oldsz, !.old = oldsz, !.new = newsz,
               !.pc = IF newsz >= KERNBASE \/ newsz < oldsz THEN then ELSE "alloc",
               !.ret = IF newsz >= KERNBASE THEN 0 ELSE oldsz]

Alloc(fr, then, d, oldsz, newsz) ==
    [fr EXCEPT !.dir = d, !.then = then, !.a = PGROUNDUP(oldsz), !.old = oldsz, !.new = newsz,
               !.pc = IF newsz >= KERNBASE \/ newsz < oldsz THEN then ELSE "alloc",
               !.ret = IF newsz >= KERNBASE THEN 0 ELSE oldsz]

allocuvm(t) ==
    /\ at[t].pc = "alloc"
    /\ LET fr == at[t]
           s == space[fr.dir]
           v == Page(fr.a) IN
       IF fr.a >= fr.new
       THEN /\ Goto(t, [fr EXCEPT !.pc = fr.then, !.ret = fr.new])
            /\ UNCHANGED <<free, space, panic>>
       ELSE \/ /\ free < 1 + Tables(s, v)
               /\ LET r == Without(s, fr.new, fr.old) IN
                  /\ free' = free + Given(s, r)
                  /\ space' = [space EXCEPT ![fr.dir] = r]
               /\ Goto(t, [fr EXCEPT !.pc = fr.then, !.ret = 0])
               /\ UNCHANGED panic
            \/ /\ free >= 1 + Tables(s, v)
               /\ panic' = (v \in s.pages)    \* mappages: remap
               /\ free' = free - 1 - Tables(s, v)
               /\ space' = [space EXCEPT ![fr.dir] = Mapped(s, v)]
               /\ Goto(t, [fr EXCEPT !.a = @ + PGSIZE])
    /\ UNCHANGED <<pipes, procVars, stack, killed, cr3, lock>>

-----------------------------------------------------------------------------
(***************************************************************************)
(* sbrk.  The address it returns is read before growproc takes the lock.   *)
(***************************************************************************)
sys_sbrk(t) ==
    /\ Calls(t, "sbrk")
    /\ \E n \in Increments : Goto(t, [User EXCEPT !.pc = "growproc", !.new = n, !.addr = sz[t[1]]])
    /\ UNCHANGED <<free, pipes, space, procVars, stack, killed, cr3, lock, panic>>

growproc(t) ==
    /\ at[t].pc = "growproc" /\ lock = Nil
    /\ LET p == t[1]
           n == at[t].new
           d == pgdir[p]
           newsz == (sz[p] + n) % UINT
           r == Without(space[d], sz[p], newsz) IN
       \/ /\ n >= 0
          /\ Goto(t, IF n = 0 THEN [at[t] EXCEPT !.pc = "grown", !.ret = sz[p]]
                              ELSE Alloc(at[t], "grown", d, sz[p], newsz))
          /\ UNCHANGED <<free, space>>
       \/ /\ n < 0 /\ newsz < sz[p]
          /\ free' = free + Given(space[d], r)
          /\ space' = [space EXCEPT ![d] = r]
          /\ Goto(t, [at[t] EXCEPT !.pc = "grown", !.ret = newsz])
       \/ /\ n < 0 /\ newsz >= sz[p]
          /\ Goto(t, [at[t] EXCEPT !.pc = "grown", !.ret = sz[p]])
          /\ UNCHANGED <<free, space>>
    /\ lock' = t
    /\ UNCHANGED <<pipes, procVars, stack, killed, cr3, panic>>

\* A result of 0 is an error, also when all the memory has been given back.
grown(t) ==
    /\ at[t].pc = "grown"
    /\ sz' = [sz EXCEPT ![t[1]] = IF at[t].ret = 0 THEN @ ELSE at[t].ret]
    /\ cr3' = [cr3 EXCEPT ![t] = IF at[t].ret = 0 THEN @ ELSE pgdir[t[1]]]
    /\ lock' = Nil
    /\ Goto(t, User)
    /\ UNCHANGED <<free, pipes, space, state, pgdir, parent, stack, killed, panic>>

-----------------------------------------------------------------------------
(***************************************************************************)
(* fork.  copyuvm copies the pages below the size it was given without a   *)
(* lock; the size is read again for the child.                             *)
(***************************************************************************)
fork(t) ==
    /\ Calls(t, "fork")
    /\ \E np \in Procs :
         /\ state[np] = "UNUSED" /\ free >= 1
         /\ state' = [state EXCEPT ![np] = "EMBRYO"]
         /\ free' = free - 1
         /\ stack' = stack \cup {<<np, 0>>}
         /\ Goto(t, [User EXCEPT !.pc = "copyuvm", !.k = np, !.new = sz[t[1]]])
    /\ UNCHANGED <<pipes, space, sz, pgdir, parent, killed, cr3, lock, panic>>

\* fork after a failure of copyuvm: the child's stack and slot are free again.
forkFails(t) ==
    /\ stack' = stack \ {<<at[t].k, 0>>}
    /\ state' = [state EXCEPT ![at[t].k] = "UNUSED"]
    /\ Goto(t, User)

copySetup(t) ==
    /\ at[t].pc = "copyuvm"
    /\ \/ /\ CanSetup /\ setupkvm
          /\ Goto(t, [at[t] EXCEPT !.pc = "copy", !.dir = NewDir])
          /\ UNCHANGED <<state, stack>>
       \/ /\ ~CanSetup
          /\ free' = free + 1
          /\ forkFails(t)
          /\ UNCHANGED space
    /\ UNCHANGED <<pipes, sz, pgdir, parent, killed, cr3, lock, panic>>

copyuvm(t) ==
    /\ at[t].pc = "copy"
    /\ LET fr == at[t]
           s == space[fr.dir]
           v == Page(fr.a) IN
       IF fr.a < fr.new /\ v \notin space[pgdir[t[1]]].pages
       THEN /\ panic' = TRUE                                \* page not present
            /\ UNCHANGED <<free, space, state, pgdir, stack, at>>
       ELSE /\ \/ /\ fr.a >= fr.new
                  /\ pgdir' = [pgdir EXCEPT ![fr.k] = fr.dir]
                  /\ Goto(t, [fr EXCEPT !.pc = "copied"])
                  /\ UNCHANGED <<free, space, state, stack>>
               \/ /\ fr.a < fr.new /\ free < 1 + Tables(s, v)
                  /\ free' = free + Size(s) + 1
                  /\ space' = [space EXCEPT ![fr.dir] = Nil]
                  /\ forkFails(t)
                  /\ UNCHANGED pgdir
               \/ /\ fr.a < fr.new /\ free >= 1 + Tables(s, v)
                  /\ free' = free - 1 - Tables(s, v)
                  /\ space' = [space EXCEPT ![fr.dir] = Mapped(s, v)]
                  /\ Goto(t, [fr EXCEPT !.a = @ + PGSIZE])
                  /\ UNCHANGED <<state, pgdir, stack>>
            /\ UNCHANGED panic
    /\ UNCHANGED <<pipes, sz, parent, killed, cr3, lock>>

forked(t) ==
    /\ at[t].pc = "copied" /\ lock = Nil
    /\ LET np == at[t].k IN
       /\ sz' = [sz EXCEPT ![np] = sz[t[1]]]
       /\ parent' = [parent EXCEPT ![np] = t[1]]
       /\ state' = [state EXCEPT ![np] = "RUNNABLE"]
       /\ at' = [at EXCEPT ![t] = User, ![<<np, 0>>] = User]
       /\ cr3' = [cr3 EXCEPT ![<<np, 0>>] = pgdir[np]]
    /\ UNCHANGED <<free, pipes, space, pgdir, stack, killed, lock, panic>>

-----------------------------------------------------------------------------
(***************************************************************************)
(* exec.  kill_threads tells the siblings to end and waits until they have *)
(* done so.  The new image is built beside the old one, which is replaced  *)
(* when nothing can fail any more.                                         *)
(***************************************************************************)
\* The frames when siblings have been told to end: those in user mode will not
\* pass trap's test of killed any more, except the ones in In, who just have.
Warned(In, frames) ==
    [s \in Thread |-> IF s \in In THEN [frames[s] EXCEPT !.pc = "enter"] ELSE frames[s]]
InUserMode(t) == {s \in Siblings(t) \ killed : at[s].pc = "user"}
\* The frames when those are woken that sleep in exit() for a thread in S.
Wakes(S) ==
    [u \in Thread |-> IF at[u].pc = "exitSleep" /\ <<u[1], at[u].k>> \in S
                      THEN [at[u] EXCEPT !.pc = "exitLoop", !.k = @ + 1] ELSE at[u]]

exec(t) ==
    /\ Calls(t, "exec") /\ lock = Nil
    /\ killed' = killed \cup Siblings(t)
    /\ \E In \in SUBSET InUserMode(t) :
         at' = [Warned(In, Wakes(Siblings(t) \cup {t})) EXCEPT ![t] = [User EXCEPT !.pc = "kill_threads"]]
    /\ UNCHANGED <<free, pipes, space, procVars, stack, cr3, lock, panic>>

\* A round of the loop: the slots of zombies become free, with killed set.
SiblingsGone(t) == \A s \in Siblings(t) : Gone(s)
kill_threads(t) ==
    /\ at[t].pc = "kill_threads" /\ lock = Nil
    /\ LET Z == {s \in Siblings(t) : at[s].pc = "zombie"} IN
       /\ stack' = stack \ Z
       /\ free' = free + Cardinality(Z)
       /\ at' = [s \in Thread |-> IF s \in Z THEN None
                                  ELSE IF s = t /\ SiblingsGone(t) THEN [User EXCEPT !.pc = "namei"]
                                  ELSE at[s]]
    /\ UNCHANGED <<pipes, space, procVars, killed, cr3, lock, panic>>

\* Mutant: the new image is not freed.
BadKeepsImage(t, fr) ==
    /\ Goto(t, User)
    /\ UNCHANGED <<free, space>>

\* The label bad: free the new image.
Bad(t, fr) ==
    /\ IF fr.dir = Nil THEN UNCHANGED <<free, space>> ELSE freevm(fr.dir)
    /\ Goto(t, User)

\* No such file; not an executable, or no memory; or setupkvm succeeds.
execOpen(t) ==
    /\ at[t].pc = "namei"
    /\ \/ Bad(t, at[t])
       \/ /\ CanSetup /\ setupkvm
          /\ \E img \in Images :
               Goto(t, [at[t] EXCEPT !.pc = "segment", !.dir = NewDir, !.prog = img])
    /\ UNCHANGED <<pipes, procVars, stack, killed, cr3, lock, panic>>

\* A segment: ret is the size so far.  The header may be unreadable or wrong.
execSegment(t) ==
    /\ at[t].pc = "segment" /\ at[t].prog # <<>>
    /\ \/ Bad(t, at[t])
       \/ /\ LET ph == Head(at[t].prog) IN
             Goto(t, Alloc(at[t], "load", at[t].dir, at[t].ret, ph.vaddr + ph.memsz))
          /\ UNCHANGED <<free, space>>
    /\ UNCHANGED <<pipes, procVars, stack, killed, cr3, lock, panic>>

\* loaduvm needs the pages; the file may be too short.
execLoad(t) ==
    /\ at[t].pc = "load"
    /\ LET ph == Head(at[t].prog)
           ok == at[t].ret # 0 /\ ph.vaddr % PGSIZE = 0 IN
       /\ \/ Bad(t, at[t])
          \/ /\ ok
             /\ Goto(t, [at[t] EXCEPT !.pc = "segment", !.prog = Tail(@)])
             /\ UNCHANGED <<free, space>>
       /\ panic' = (ok /\ ~(Between(ph.vaddr, ph.vaddr + ph.memsz) \subseteq space[at[t].dir].pages))
    /\ UNCHANGED <<pipes, procVars, stack, killed, cr3, lock>>

\* The file is closed; two pages follow for the stack and the page under it.
execStack(t) ==
    /\ at[t].pc = "segment" /\ at[t].prog = <<>>
    /\ LET top == PGROUNDUP(at[t].ret) IN
       Goto(t, Alloc(at[t], "args", at[t].dir, top, top + 2 * PGSIZE))
    /\ UNCHANGED <<free, pipes, space, procVars, stack, killed, cr3, lock, panic>>

\* clearpteu: the pages that user programs may use, without the one at a.
clearpteu(s, a) == s.pages \ {Page(a)}

\* uva2ka, copyout: all of va .. va + len - 1 is in pages with PTE_U.
copyout(user, va, len) == Between(Page(va) * PGSIZE, va + len) \subseteq user

\* The arguments are pushed below sz, into the stack and not the page under it.
\* They may be too long, or too many.
execArgs(t) ==
    /\ at[t].pc = "args"
    /\ \/ Bad(t, at[t])
       \/ /\ at[t].ret # 0
          /\ \E len \in Arguments :
               copyout(clearpteu(space[at[t].dir], at[t].ret - 2 * PGSIZE), at[t].ret - len, len)
          /\ Goto(t, [at[t] EXCEPT !.pc = "commit"])
          /\ UNCHANGED <<free, space>>
    /\ panic' = (at[t].ret # 0 /\ Page(at[t].ret - 2 * PGSIZE) \notin space[at[t].dir].pages)
    /\ UNCHANGED <<pipes, procVars, stack, killed, cr3, lock>>

\* Killed meanwhile, or the new image replaces the old one.
execCommit(t) ==
    /\ at[t].pc = "commit" /\ lock = Nil
    /\ \/ /\ t \in killed \/ state[t[1]] = "ZOMBIE"
          /\ Bad(t, at[t]) /\ UNCHANGED <<pgdir, sz>>
       \/ /\ t \notin killed /\ state[t[1]] # "ZOMBIE"
          /\ pgdir' = [pgdir EXCEPT ![t[1]] = at[t].dir]
          /\ sz' = [sz EXCEPT ![t[1]] = at[t].ret]
          /\ Goto(t, [at[t] EXCEPT !.pc = "switch", !.dir = pgdir[t[1]]])
          /\ UNCHANGED <<free, space>>
    /\ UNCHANGED <<pipes, state, parent, stack, killed, cr3, lock, panic>>

\* (Mutant: the old image is freed while it is loaded.)
execSwitchLate(t) ==
    /\ at[t].pc = "switch"
    /\ Goto(t, [at[t] EXCEPT !.pc = "freevm"])
    /\ UNCHANGED <<free, pipes, space, procVars, stack, killed, cr3, lock, panic>>
execSwitch(t) ==
    /\ at[t].pc = "switch"
    /\ cr3' = [cr3 EXCEPT ![t] = pgdir[t[1]]]
    /\ Goto(t, [at[t] EXCEPT !.pc = "freevm"])
    /\ UNCHANGED <<free, pipes, space, procVars, stack, killed, lock, panic>>

execFree(t) ==
    /\ at[t].pc = "freevm"
    /\ freevm(at[t].dir)
    /\ Goto(t, User)
    /\ UNCHANGED <<pipes, procVars, stack, killed, cr3, lock, panic>>

-----------------------------------------------------------------------------
(***************************************************************************)
(* Threads and processes end; pages are taken and given back elsewhere.    *)
(***************************************************************************)
kthread_create(t) ==
    /\ Calls(t, "kthread_create")
    /\ \E i \in Tix : LET s == <<t[1], i>> IN
         /\ s \notin stack /\ free >= 1
         /\ stack' = stack \cup {s}
         /\ free' = free - 1
         /\ at' = [at EXCEPT ![s] = User, ![t] = User]
         /\ cr3' = [cr3 EXCEPT ![s] = pgdir[t[1]]]
    /\ UNCHANGED <<pipes, space, procVars, killed, lock, panic>>

\* A sibling that has ended is joined, its stack freed.
kthread_join(t) ==
    /\ Calls(t, "kthread_join") /\ lock = Nil
    /\ \E s \in Siblings(t) :
         /\ at[s].pc = "zombie"
         /\ at' = [at EXCEPT ![s] = None, ![t] = User]
         /\ stack' = stack \ {s} /\ killed' = killed \ {s}
         /\ free' = free + 1
    /\ UNCHANGED <<pipes, space, procVars, cr3, lock, panic>>

\* The call, or the end of a killed thread.  The last thread goes on to exit();
\* any other is a zombie now, whose CPU has the directory loaded until sched.
kthread_exit(t) ==
    /\ lock = Nil
    /\ Calls(t, "kthread_exit") \/ (at[t].pc = "user" /\ t \in killed)
    /\ at' = [Wakes({t}) EXCEPT ![t] = IF state[t[1]] = "ZOMBIE" \/ SiblingsGone(t)
                                       THEN [User EXCEPT !.pc = "exit"] ELSE Zombie]
    /\ UNCHANGED <<free, pipes, space, procVars, stack, killed, cr3, lock, panic>>
sched(t) ==
    /\ Gone(t) /\ cr3[t] # Nil /\ lock = Nil
    /\ cr3' = [cr3 EXCEPT ![t] = Nil]
    /\ state' = [state EXCEPT ![t[1]] = "RUNNABLE"]
    /\ UNCHANGED <<free, pipes, space, sz, pgdir, parent, stack, killed, at, lock, panic>>

\* exit() waits for each sibling, from number k on, that is not in gone.
Awaits(t, gone, k) ==
    LET W == {i \in Tix : i >= k /\ <<t[1], i>> \in Siblings(t) \ gone} IN
    IF W = {} THEN [User EXCEPT !.pc = "exited"]
    ELSE [User EXCEPT !.pc = "exitSleep", !.k = Min(W)]

\* exit(), called (not by init), because of a fault, or by kthread_exit.  Of the
\* siblings, those in Off are on no CPU and end at once, wherever they are.
exit(t) ==
    /\ lock = Nil /\ t[1] # 0
    /\ \/ Calls(t, "exit") \/ at[t].pc = "exit"
       \/ at[t].pc = "user" /\ t \notin killed /\ ~Runs(t[1])
    /\ killed' = killed \cup Siblings(t)
    /\ LET gone == {s \in Siblings(t) : Gone(s)} IN
       \E Off \in SUBSET (Siblings(t) \ gone), In \in SUBSET InUserMode(t) :
         /\ {s \in Siblings(t) : at[s].pc = "exitSleep"} \subseteq Off /\ In \cap Off = {}
         /\ at' = [s \in Thread |-> IF s = t THEN Awaits(t, gone \cup Off, 0)
                                    ELSE IF s \in Off THEN Zombie
                                    ELSE Warned(In, at)[s]]
         /\ cr3' = [s \in Thread |-> IF s \in Off THEN Nil ELSE cr3[s]]
    /\ UNCHANGED <<free, pipes, space, procVars, stack, lock, panic>>
exitLoop(t) ==
    /\ at[t].pc = "exitLoop" /\ lock = Nil
    /\ Goto(t, Awaits(t, {s \in Siblings(t) : Gone(s)}, at[t].k))
    /\ UNCHANGED <<free, pipes, space, procVars, stack, killed, cr3, lock, panic>>
\* The lock is kept until the thread has left its CPU.
exited(t) ==
    /\ at[t].pc = "exited" /\ lock = Nil
    /\ Goto(t, Zombie)
    /\ cr3' = [cr3 EXCEPT ![t] = Nil]
    /\ state' = [state EXCEPT ![t[1]] = "ZOMBIE"]
    /\ parent' = [p \in Procs |-> IF parent[p] = t[1] THEN 0 ELSE parent[p]]
    /\ UNCHANGED <<free, pipes, space, sz, pgdir, stack, killed, lock, panic>>

\* wait() clears the threads of a child that has ended and frees its memory.  (sz
\* and pgdir keep their values, which nobody reads any more; they are reset here.
\* The frame of a thread that is cleared while it runs is kept.)
wait(t) ==
    /\ Calls(t, "wait") /\ lock = Nil
    /\ \E p \in Procs : LET S == {s \in stack : s[1] = p} IN
         /\ parent[p] = t[1]
         /\ state[p] = "ZOMBIE" \/ \A i \in Tix : Gone(<<p, i>>)
         /\ stack' = stack \ S /\ killed' = killed \ S
         /\ at' = [s \in Thread |-> IF s \in S THEN [at[s] EXCEPT !.pc = "none"]
                                    ELSE IF s = t THEN User ELSE at[s]]
         /\ free' = free + Cardinality(S) + Size(space[pgdir[p]])
         /\ space' = [space EXCEPT ![pgdir[p]] = Nil]
         /\ parent' = [parent EXCEPT ![p] = Nil]
         /\ state' = [state EXCEPT ![p] = "UNUSED"]
         /\ sz' = [sz EXCEPT ![p] = 0] /\ pgdir' = [pgdir EXCEPT ![p] = Nil]
    /\ UNCHANGED <<pipes, cr3, lock, panic>>

\* The scheduler loads the directory of the process whenever it runs a thread.
schedule(t) ==
    /\ ~Gone(t) /\ cr3[t] # pgdir[t[1]] /\ lock = Nil
    /\ cr3' = [cr3 EXCEPT ![t] = pgdir[t[1]]]
    /\ UNCHANGED <<free, pipes, space, procVars, stack, killed, at, lock, panic>>

pipealloc ==
    /\ free >= 1 /\ pipes < PIPES
    /\ free' = free - 1 /\ pipes' = pipes + 1
    /\ UNCHANGED <<space, procVars, stack, killed, at, cr3, lock, panic>>
pipeclose ==
    /\ pipes > 0
    /\ free' = free + 1 /\ pipes' = pipes - 1
    /\ UNCHANGED <<space, procVars, stack, killed, at, cr3, lock, panic>>

Step(t) ==
    \/ allocuvm(t) \/ sys_sbrk(t) \/ growproc(t) \/ grown(t)
    \/ fork(t) \/ copySetup(t) \/ copyuvm(t) \/ forked(t)
    \/ exec(t) \/ execOpen(t) \/ execSegment(t) \/ execLoad(t) \/ execStack(t) \/ execArgs(t)
    \/ execCommit(t) \/ execSwitch(t) \/ execFree(t)
    \/ syscall(t) \/ kill_threads(t)
    \/ kthread_create(t) \/ kthread_join(t) \/ kthread_exit(t) \/ sched(t)
    \/ exit(t) \/ exitLoop(t) \/ exited(t) \/ wait(t) \/ schedule(t)

Next == ~panic /\ (pipealloc \/ pipeclose \/ \E t \in Thread : Step(t))

Spec == Init /\ [][Next]_vars

-----------------------------------------------------------------------------
(***************************************************************************)
(* Properties.                                                             *)
(***************************************************************************)
InUse(p) == state[p] \in {"RUNNABLE", "ZOMBIE"}
Owners(d) == {p \in Procs : InUse(p) /\ pgdir[p] = d}
             \cup {t \in Thread : at[t].dir = d /\ lock # t}

\* Every page is free or has one use, at every moment and on every way out of
\* fork, exec and sbrk when memory runs out: none is lost, none freed twice,
\* and every page directory belongs to one process or one call in progress.
PagesAccounted ==
    LET Used == {d \in Dirs : space[d] # Nil} IN
    /\ free + pipes + Cardinality(stack) + MapThenSumSet(LAMBDA d : Size(space[d]), Used) = NPAGES
    /\ \A d \in Used : Cardinality(Owners(d)) = 1

\* What p->sz says is what is mapped, outside growproc: copyuvm and the checks
\* of system call arguments rely on it.  (A process that has given back all its
\* memory keeps its size, and ends by a fault.)
SizeMapped ==
    \A p \in Procs : InUse(p) /\ Runs(p) /\ (lock = Nil \/ lock[1] # p) =>
        space[pgdir[p]].pages = Between(0, sz[p])

\* No assertion of vm.c fails: remap, page not present, address should exist.
NoVmPanic == ~panic

\* No CPU runs on a page directory that has been freed: exec() waits until its
\* siblings are gone and loads the new directory before it frees the old one, and
\* wait() frees one when the threads are zombies ("until its parent calls
\* wait()").  A zombie that is still in kthread_exit is left out once its slot has
\* been cleared: what it runs on, stack and directory, may be gone.
LoadedDirLive ==
    \A t \in stack : cr3[t] # Nil =>
        /\ space[cr3[t]] # Nil
        /\ cr3[t] \in {pgdir[t[1]]} \cup (IF at[t].pc = "switch" THEN {at[t].dir} ELSE {})

\* The same without the exception.
NoDirFreedLoaded == \A t \in Thread : cr3[t] # Nil => space[cr3[t]] # Nil

\* sbrk() returns the start of the memory it has added.
SbrkReturnsGrowth ==
    \A t \in Thread : at[t].pc = "grown" /\ at[t].ret > at[t].old /\ at[t].old > 0 =>
        at[t].addr = at[t].old
===============================================================================
