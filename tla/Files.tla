-------------------------------- MODULE Files --------------------------------
(***************************************************************************)
(* The file table (file.c), the descriptors of processes (sysfile.c, and   *)
(* fork and exit of proc.c) and the pipes (pipe.c).                        *)
(*                                                                         *)
(* Grain of atomicity: a critical section of ftable.lock or of the lock of *)
(* a pipe, and every access to ofile, which no lock protects.  An access   *)
(* to ofile next to a critical section of ftable.lock commutes with it and *)
(* may share its step; the search of fdalloc is one step, its write        *)
(* another.  The inode layer is reduced to the references that files have. *)
(***************************************************************************)
EXTENDS Integers, Sequences, FiniteSets

CONSTANTS
    Procs, NTHREAD,   \* processes; threads of the first one (others have one)
    NOFILE, NFILE, NPIPE, PIPESIZE,
    UINT,             \* nread and nwrite are counted modulo UINT
    Calls,            \* the calls that each process makes,
    Modes, Sizes,     \* the modes of open (readable, writable), the sizes of read, write
    Killable          \* the processes that somebody kills

ASSUME FilesAssumption ==
    /\ Procs \subseteq Nat \ {0} /\ 1 \in Procs /\ NTHREAD \in Nat \ {0}
    /\ NOFILE \in Nat /\ NFILE \in Nat /\ NPIPE \in Nat /\ PIPESIZE \in Nat \ {0}
    /\ UINT \in Nat /\ UINT > PIPESIZE /\ UINT % PIPESIZE = 0 /\ Sizes \subseteq Nat
    /\ Modes \subseteq (BOOLEAN \X BOOLEAN) \ {<<FALSE, FALSE>>} /\ Killable \subseteq Procs
    /\ Calls \in [Procs -> SUBSET {"open", "pipe", "dup", "close", "read", "write", "fork", "exit"}]

File == 1 .. NFILE
Fd == 0 .. NOFILE - 1
Pipe == 1 .. NPIPE
None == 0
Threads == {<<p, i>> \in Procs \X (1 .. NTHREAD) : i = 1 \/ p = 1}
proc(t) == t[1]

VARIABLES
    ofile,    \* per process: descriptor -> file
    file,     \* ftable.file
    pipe,     \* the pages that pipes may get
    iref,     \* references to inodes that files have or will have
    killed,   \* p->killed
    pc,       \* per thread: the call it is in, with its local variables
    panic
vars == <<ofile, file, pipe, iref, killed, pc, panic>>

User == [at |-> "user", f |-> None, g |-> None, fd |-> 0, n |-> 0,
         todo |-> <<>>, then |-> "user"]
Gone == [User EXCEPT !.at = "none"]
Label == {"none", "user", "dup", "close", "read", "write", "piperead", "pipewrite",
          "readSleep", "writeSleep", "fdalloc", "fdset", "fileclose", "pipeclose",
          "iput", "openSet", "openFail", "pipe2", "pipe3", "pipeUndo",
          "embryo", "fork", "exit", "exitZero"}
\* A byte in a pipe is named by its place in the stream, which is nwrite when it
\* is written; that is all that the order of bytes depends on.  cut is history that
\* no step looks at: since readers were last woken, a writer that was killed has
\* returned from the full pipe while one slept.
NoPipe == [alloc |-> FALSE, readopen |-> FALSE, writeopen |-> FALSE, nread |-> 0,
           nwrite |-> 0, data |-> [a \in 0 .. PIPESIZE - 1 |-> 0], cut |-> FALSE]

TypeOK ==
    /\ ofile \in [Procs -> [Fd -> File \cup {None}]]
    /\ file \in [File -> [ref : 0 .. Cardinality(Procs) * NOFILE + Cardinality(Threads),
                          type : {"none", "pipe", "inode"}, readable : BOOLEAN,
                          writable : BOOLEAN, pipe : Pipe \cup {None}]]
    /\ \A p \in Pipe : /\ pipe[p].nread \in 0 .. UINT - 1 /\ pipe[p].nwrite \in 0 .. UINT - 1
                       /\ pipe[p].data \in [0 .. PIPESIZE - 1 -> 0 .. UINT - 1]
                       /\ pipe[p].cut \in BOOLEAN
    /\ iref \in Nat /\ killed \subseteq Procs
    /\ \A t \in Threads : pc[t].at \in Label /\ pc[t].n \in Nat /\ pc[t].todo \in Seq(File)

Init ==
    /\ ofile = [p \in Procs |-> [d \in Fd |-> None]]
    /\ file = [f \in File |-> [ref |-> 0, type |-> "none", readable |-> FALSE,
                               writable |-> FALSE, pipe |-> None]]
    /\ pipe = [p \in Pipe |-> NoPipe] /\ iref = 0 /\ killed = {} /\ panic = ""
    /\ pc = [t \in Threads |-> IF proc(t) = 1 THEN User ELSE Gone]

-----------------------------------------------------------------------------
At(t, l) == pc[t].at = l
Goto(t, frame) == pc' = [pc EXCEPT ![t] = frame]
Step(t, l) == Goto(t, [pc[t] EXCEPT !.at = l])
Return(t) == Goto(t, User)
\* Into fileclose of the files in todo, and on from there at point l.
Close(t, todo, l) == Goto(t, [User EXCEPT !.at = "fileclose", !.todo = todo, !.then = l])
Panic(msg) == panic' = msg /\ UNCHANGED <<ofile, file, pipe, iref, killed, pc>>
Entered(t, call) == call \in Calls[proc(t)] /\ At(t, "user") /\ proc(t) \notin killed

\* The frames after wakeup() of those who sleep at point l for pipe p.
Woken(p, l, m) ==
    [t \in Threads |-> IF At(t, l) /\ pc[t].g = p THEN [pc[t] EXCEPT !.at = m] ELSE pc[t]]
ReadersWoken(p) == Woken(p, "readSleep", "piperead")
WritersWoken(p) == Woken(p, "writeSleep", "pipewrite")

-----------------------------------------------------------------------------
(***************************************************************************)
(* file.c                                                                  *)
(***************************************************************************)
FreeFiles == {f \in File : file[f].ref = 0}
FirstFree == CHOOSE f \in FreeFiles : \A g \in FreeFiles : f <= g
filealloc == file' = [file EXCEPT ![FirstFree].ref = 1]
filedup(f) == file' = [file EXCEPT ![f].ref = @ + 1]

\* What is left to do once todo is closed up to its first file.
Closed(t) ==
    LET rest == Tail(pc[t].todo) IN
    IF rest = <<>> THEN [User EXCEPT !.at = pc[t].then, !.fd = pc[t].fd]
    ELSE [pc[t] EXCEPT !.at = "fileclose", !.todo = rest, !.g = None, !.n = 0]

fileclose(t) ==
    /\ At(t, "fileclose")
    /\ LET f == Head(pc[t].todo) IN
       IF file[f].ref < 1 THEN Panic("fileclose")
       ELSE /\ file' = [file EXCEPT ![f].ref = @ - 1,
                                    ![f].type = IF file[f].ref = 1 THEN "none" ELSE @]
            /\ IF file[f].ref > 1 \/ file[f].type = "none" THEN Goto(t, Closed(t))
               ELSE IF file[f].type = "inode" THEN Step(t, "iput")
               ELSE Goto(t, [pc[t] EXCEPT !.at = "pipeclose", !.g = file[f].pipe,
                                          !.n = IF file[f].writable THEN 1 ELSE 0])
            /\ UNCHANGED <<ofile, pipe, iref, killed, panic>>
iput(t) ==
    /\ At(t, "iput") /\ iref' = iref - 1 /\ Goto(t, Closed(t))
    /\ UNCHANGED <<ofile, file, pipe, killed, panic>>

fileread(t) ==
    /\ At(t, "read")
    /\ LET f == file[pc[t].f] IN
       IF f.readable /\ f.type = "none" THEN Panic("fileread")
       ELSE /\ IF f.readable /\ f.type = "pipe"
               THEN Goto(t, [User EXCEPT !.at = "piperead", !.g = f.pipe, !.n = pc[t].n])
               ELSE Return(t)
            /\ UNCHANGED <<ofile, file, pipe, iref, killed, panic>>
filewrite(t) ==
    /\ At(t, "write")
    /\ LET f == file[pc[t].f] IN
       IF f.writable /\ f.type = "none" THEN Panic("filewrite")
       ELSE /\ IF f.writable /\ f.type = "pipe"
               THEN Goto(t, [User EXCEPT !.at = "pipewrite", !.g = f.pipe, !.n = pc[t].n])
               ELSE Return(t)
            /\ UNCHANGED <<ofile, file, pipe, iref, killed, panic>>

-----------------------------------------------------------------------------
(***************************************************************************)
(* pipe.c.  A thread that comes with a pipe that was freed spins: the page *)
(* was filled with junk, the lock included.                                *)
(***************************************************************************)
\* (Mutant: the page goes with the first end.)
EitherClosed(q) == ~q.readopen \/ ~q.writeopen
BothClosed(q) == ~q.readopen /\ ~q.writeopen
pipeclose(t) ==
    /\ At(t, "pipeclose")
    /\ LET p == pc[t].g
           q == IF pc[t].n = 1 THEN [pipe[p] EXCEPT !.writeopen = FALSE, !.cut = FALSE]
                ELSE [pipe[p] EXCEPT !.readopen = FALSE]
       IN /\ pipe[p].alloc
          /\ pipe' = [pipe EXCEPT ![p] = IF BothClosed(q) THEN NoPipe ELSE q]
          /\ pc' = [(IF pc[t].n = 1 THEN ReadersWoken(p) ELSE WritersWoken(p))
                      EXCEPT ![t] = Closed(t)]
    /\ UNCHANGED <<ofile, file, iref, killed, panic>>

\* (Mutant: the comparison of counters has no width.)
Advance(c, k) == (c + k) % UINT
FullUnbounded(q, k) == (q.nwrite + k) % UINT = q.nread + PIPESIZE
Full(q, k) == (q.nwrite + k) % UINT = (q.nread + PIPESIZE) % UINT
Empty(q, k) == (q.nread + k) % UINT = q.nwrite
\* p->killed, or t->killed: exit and exec, which set that, are of siblings.
Killed(t) == proc(t) \in killed
\* How often a loop of at most n rounds runs that stops before the rounds in stops.
Rounds(n, stops) == CHOOSE k \in 0 .. n : (k = n \/ k \in stops) /\ (0 .. k - 1) \cap stops = {}
\* The ring after k more bytes.
Stored(q, k) ==
    [a \in DOMAIN q.data |->
        LET here == {j \in 0 .. k - 1 : ((q.nwrite + j) % UINT) % PIPESIZE = a}
        IN IF here = {} THEN q.data[a]
           ELSE (q.nwrite + CHOOSE j \in here : \A l \in here : l <= j) % UINT]

\* The writer sleeps for room for n bytes, after it has woken the readers.
\* (Mutant: it has not.)
SleepsSilently(t, p, n) == Goto(t, [pc[t] EXCEPT !.at = "writeSleep", !.n = n])
SleepsForRoom(t, p, n) == pc' = [ReadersWoken(p) EXCEPT ![t].at = "writeSleep", ![t].n = n]

pipewrite(t) ==
    /\ At(t, "pipewrite")
    /\ LET p == pc[t].g
           q == pipe[p]
           n == pc[t].n
           k == Rounds(n, {j \in 0 .. n : Full(q, j)})
           stops == k < n /\ (~q.readopen \/ Killed(t))
           cuts == Killed(t) /\ \E u \in Threads : At(u, "readSleep") /\ pc[u].g = p
       IN /\ q.alloc
          /\ pipe' = [pipe EXCEPT ![p].nwrite = Advance(@, k), ![p].data = Stored(q, k),
                                  ![p].cut = stops /\ (@ \/ cuts)]
          /\ \/ k = n /\ pc' = [ReadersWoken(p) EXCEPT ![t] = User]
             \/ stops /\ Return(t)
             \/ k < n /\ ~stops /\ SleepsForRoom(t, p, n - k)
    /\ UNCHANGED <<ofile, file, iref, killed, panic>>

piperead(t) ==
    /\ At(t, "piperead")
    /\ LET p == pc[t].g
           q == pipe[p]
           k == Rounds(pc[t].n, {j \in 0 .. pc[t].n : Empty(q, j)})
       IN /\ q.alloc
          /\ IF Empty(q, 0) /\ q.writeopen
             THEN /\ IF Killed(t) THEN Return(t) ELSE Step(t, "readSleep")
                  /\ UNCHANGED pipe
             ELSE /\ pipe' = [pipe EXCEPT ![p].nread = Advance(@, k)]
                  /\ pc' = [WritersWoken(p) EXCEPT ![t] = User]
    /\ UNCHANGED <<ofile, file, iref, killed, panic>>

-----------------------------------------------------------------------------
(***************************************************************************)
(* sysfile.c.  Calls that fail before they change anything are left out.   *)
(***************************************************************************)
Free(p) == {d \in Fd : ofile[p][d] = None}
Used(p, from) == {d \in Fd : d >= from /\ ofile[p][d] # None}
Least(S) == CHOOSE d \in S : \A e \in S : d <= e

\* (Mutant: sys_pipe that gets no second descriptor closes one file only.)
OneFile(frame) == <<frame.g>>
BothFiles(frame) == <<frame.g, frame.f>>
fdalloc(t) ==
    /\ At(t, "fdalloc")
    /\ LET free == Free(proc(t))
           frame == pc[t]
       IN \/ /\ free # {}
             /\ Goto(t, [frame EXCEPT !.at = "fdset", !.fd = Least(free)])
          \/ free = {} /\ frame.then = "dup" /\ Return(t)
          \/ free = {} /\ frame.then = "openSet" /\ Close(t, <<frame.f>>, "openFail")
          \/ free = {} /\ frame.then = "pipeFd1" /\ Close(t, <<frame.f, frame.g>>, "user")
          \/ free = {} /\ frame.then = "user" /\ Step(t, "pipeUndo")
    /\ UNCHANGED <<ofile, file, pipe, iref, killed, panic>>
fdset(t) ==
    /\ At(t, "fdset")
    /\ LET frame == pc[t] IN
       /\ ofile' = [ofile EXCEPT ![proc(t)][frame.fd] = frame.f]
       /\ IF frame.then = "pipeFd1"
          THEN Goto(t, [frame EXCEPT !.at = "fdalloc", !.f = frame.g, !.g = frame.f,
                                     !.n = frame.fd, !.then = "user"])
          ELSE Goto(t, IF frame.then = "user" THEN User
                       ELSE [User EXCEPT !.at = frame.then, !.f = frame.f])
    /\ UNCHANGED <<file, pipe, iref, killed, panic>>

\* argfd: the file of descriptor d, for a call that goes on at point l with n.
argfd(t, l, d, n) ==
    /\ ofile[proc(t)][d] # None
    /\ Goto(t, [User EXCEPT !.at = l, !.f = ofile[proc(t)][d], !.n = n])
    /\ UNCHANGED <<ofile, file, pipe, iref, killed, panic>>
sys_read(t) == Entered(t, "read") /\ \E d \in Fd, n \in Sizes : argfd(t, "read", d, n)
sys_write(t) == Entered(t, "write") /\ \E d \in Fd, n \in Sizes : argfd(t, "write", d, n)
sys_close(t) ==
    \/ Entered(t, "close") /\ \E d \in Fd : argfd(t, "close", d, d)
    \/ /\ At(t, "close")
       /\ ofile' = [ofile EXCEPT ![proc(t)][pc[t].n] = None]
       /\ Close(t, <<pc[t].f>>, "user")
       /\ UNCHANGED <<file, pipe, iref, killed, panic>>
sys_dup(t) ==
    \/ /\ Entered(t, "dup")
       /\ \E f \in File \cap {ofile[proc(t)][d] : d \in Fd} :
            Goto(t, [User EXCEPT !.at = "fdalloc", !.f = f, !.then = "dup"])
       /\ UNCHANGED <<ofile, file, pipe, iref, killed, panic>>
    \/ /\ At(t, "dup")
       /\ IF file[pc[t].f].ref < 1 THEN Panic("filedup")
          ELSE filedup(pc[t].f) /\ Return(t) /\ UNCHANGED <<ofile, pipe, iref, killed, panic>>

\* namei or create has returned an inode with a reference for this call.
sys_open(t) ==
    \/ /\ Entered(t, "open") /\ FreeFiles # {} /\ filealloc /\ iref' = iref + 1
       /\ Goto(t, [User EXCEPT !.at = "fdalloc", !.f = FirstFree, !.then = "openSet"])
       /\ UNCHANGED <<ofile, pipe, killed, panic>>
    \/ /\ At(t, "openFail") /\ iref' = iref - 1 /\ Return(t)
       /\ UNCHANGED <<ofile, file, pipe, killed, panic>>
    \/ /\ At(t, "openSet")
       /\ \E m \in Modes :
            file' = [file EXCEPT ![pc[t].f].type = "inode", ![pc[t].f].readable = m[1],
                                 ![pc[t].f].writable = m[2]]
       /\ Return(t) /\ UNCHANGED <<ofile, pipe, iref, killed, panic>>

pipealloc(t) ==
    \/ /\ Entered(t, "pipe") /\ FreeFiles # {} /\ filealloc
       /\ Goto(t, [User EXCEPT !.at = "pipe2", !.f = FirstFree])
       /\ UNCHANGED <<ofile, pipe, iref, killed, panic>>
    \/ /\ At(t, "pipe2")
       /\ IF FreeFiles = {} THEN Close(t, <<pc[t].f>>, "user") /\ UNCHANGED file
          ELSE filealloc /\ Goto(t, [pc[t] EXCEPT !.at = "pipe3", !.g = FirstFree])
       /\ UNCHANGED <<ofile, pipe, iref, killed, panic>>
    \/ /\ At(t, "pipe3")
       /\ \/ /\ Close(t, <<pc[t].f, pc[t].g>>, "user") /\ UNCHANGED <<file, pipe>>
          \/ \E p \in Pipe :
               /\ ~pipe[p].alloc
               /\ pipe' = [pipe EXCEPT ![p] = [NoPipe EXCEPT !.alloc = TRUE,
                                               !.readopen = TRUE, !.writeopen = TRUE]]
               /\ file' = [f \in File |->
                    IF f \in {pc[t].f, pc[t].g}
                    THEN [file[f] EXCEPT !.type = "pipe", !.pipe = p,
                            !.readable = (f = pc[t].f), !.writable = (f = pc[t].g)]
                    ELSE file[f]]
               /\ Goto(t, [pc[t] EXCEPT !.at = "fdalloc", !.then = "pipeFd1"])
       /\ UNCHANGED <<ofile, iref, killed, panic>>
\* pipealloc, then a descriptor for each end (fdalloc), or neither.
sys_pipe(t) ==
    \/ pipealloc(t)
    \/ /\ At(t, "pipeUndo")
       /\ ofile' = [ofile EXCEPT ![proc(t)][pc[t].n] = None]
       /\ Close(t, BothFiles(pc[t]), "user")
       /\ UNCHANGED <<file, pipe, iref, killed, panic>>

-----------------------------------------------------------------------------
(***************************************************************************)
(* What fork, exit and kill of proc.c do to files.                         *)
(***************************************************************************)
fork(t) ==
    \/ /\ Entered(t, "fork")
       /\ \E q \in Procs :
            /\ \A u \in Threads : proc(u) = q => At(u, "none")
            /\ pc' = [pc EXCEPT ![t] = [User EXCEPT !.at = "fork", !.g = q],
                                ![<<q, 1>>].at = "embryo"]
       /\ UNCHANGED <<ofile, file, pipe, iref, killed, panic>>
    \/ /\ At(t, "fork")
       /\ LET used == Used(proc(t), pc[t].fd)
              d == Least(used)
              f == ofile[proc(t)][d]
          IN IF used = {}
             THEN /\ pc' = [pc EXCEPT ![t] = User, ![<<pc[t].g, 1>>] = User]
                  /\ UNCHANGED <<ofile, file, pipe, iref, killed, panic>>
             ELSE IF file[f].ref < 1 THEN Panic("filedup")
             ELSE /\ filedup(f)
                  /\ ofile' = [ofile EXCEPT ![pc[t].g][d] = f]
                  /\ Goto(t, [pc[t] EXCEPT !.fd = d + 1])
                  /\ UNCHANGED <<pipe, iref, killed, panic>>

\* exit(), of a process that has no other threads, by the program or in trap().
exit(t) ==
    \/ /\ Entered(t, "exit") \/ (At(t, "user") /\ proc(t) \in killed)
       /\ \A u \in Threads : proc(u) = proc(t) /\ u # t => At(u, "none")
       /\ Goto(t, [User EXCEPT !.at = "exit"])
       /\ UNCHANGED <<ofile, file, pipe, iref, killed, panic>>
    \/ /\ At(t, "exit")
       /\ LET used == Used(proc(t), pc[t].fd)
              d == Least(used)
          IN IF used = {} THEN Goto(t, Gone) /\ killed' = killed \ {proc(t)}
             ELSE /\ Goto(t, [pc[t] EXCEPT !.at = "fileclose", !.fd = d, !.then = "exitZero",
                                           !.todo = <<ofile[proc(t)][d]>>])
                  /\ UNCHANGED killed
       /\ UNCHANGED <<ofile, file, pipe, iref, panic>>
exitReset(t) ==
    /\ ofile' = [ofile EXCEPT ![proc(t)][pc[t].fd] = None]
    /\ Goto(t, [User EXCEPT !.at = "exit", !.fd = pc[t].fd + 1])
exitZero(t) ==
    At(t, "exitZero") /\ exitReset(t) /\ UNCHANGED <<file, pipe, iref, killed, panic>>

\* Whoever has tested killed but is not asleep yet is not woken: it sleeps with
\* killed set, which nobody else can tell from a kill that comes later.
kill(p) ==
    LET asleep == {t \in Threads : proc(t) = p /\ pc[t].at \in {"readSleep", "writeSleep"}}
        first == CHOOSE t \in asleep : \A u \in asleep : t[2] <= u[2]
    IN /\ p \notin killed
       /\ \E t \in Threads : proc(t) = p /\ pc[t].at \notin {"none", "embryo"}
       /\ killed' = killed \cup {p}
       /\ \/ UNCHANGED pc
          \/ /\ asleep # {}
             /\ Goto(first, [pc[first] EXCEPT !.at =
                               IF @ = "readSleep" THEN "piperead" ELSE "pipewrite"])
       /\ UNCHANGED <<ofile, file, pipe, iref, panic>>

InCall(t) ==
    \/ fileclose(t) \/ iput(t) \/ fileread(t) \/ filewrite(t)
    \/ pipeclose(t) \/ piperead(t) \/ pipewrite(t)
    \/ fdalloc(t) \/ fdset(t)
    \/ sys_close(t) \/ sys_dup(t) \/ sys_open(t) \/ sys_pipe(t)
    \/ fork(t) \/ exit(t) \/ exitZero(t)
Next ==
    /\ panic = ""
    /\ \/ \E t \in Threads : InCall(t) \/ sys_read(t) \/ sys_write(t)
       \/ \E p \in Killable : kill(p)
Spec == Init /\ [][Next]_vars

-----------------------------------------------------------------------------
(***************************************************************************)
(* Properties.                                                             *)
(***************************************************************************)
Quiet == \A t \in Threads : pc[t].at \in {"none", "user", "readSleep", "writeSleep"}
Refs(f) == Cardinality({<<p, d>> \in Procs \X Fd : ofile[p][d] = f})
IsEnd(f, p) == file[f].ref > 0 /\ file[f].type = "pipe" /\ file[f].pipe = p

\* When no call is half done, the reference counts are exactly the descriptors, an
\* end of a pipe is open exactly if a file stands for it, the page is there
\* exactly if an end is open, and files have the references to inodes that
\* were taken: nothing is lost or kept by calls that failed half-way, by fork
\* or by exit.  Nor do the assertions of file.c find a count or a type wrong.
NoFileLeak ==
    /\ panic = ""
    /\ Quiet =>
      /\ \A f \in File : file[f].ref = Refs(f)
      /\ \A p \in Pipe :
           /\ pipe[p].readopen <=> \E f \in File : IsEnd(f, p) /\ file[f].readable
           /\ pipe[p].writeopen <=> \E f \in File : IsEnd(f, p) /\ file[f].writable
           /\ pipe[p].alloc <=> pipe[p].readopen \/ pipe[p].writeopen
      /\ iref = Cardinality({f \in File : file[f].ref > 0 /\ file[f].type = "inode"})

\* Nobody reads, writes or closes a pipe whose page has been freed.
PipeAlive ==
    \A t \in Threads :
        pc[t].at \in {"piperead", "pipewrite", "readSleep", "writeSleep", "pipeclose"}
          => pipe[pc[t].g].alloc

\* A pipe delivers the bytes in the order they were written, none lost and none
\* overwritten, also when the counters wrap around.
Length(q) == (q.nwrite - q.nread) % UINT
PipeFIFO ==
    \A p \in Pipe : LET q == pipe[p] IN
        /\ Length(q) <= PIPESIZE
        /\ \A i \in 0 .. Length(q) - 1 :
              LET k == (q.nread + i) % UINT IN q.data[k % PIPESIZE] = k

\* No wakeup is lost: who sleeps in pipewrite sleeps for a full pipe that can still
\* be read, who sleeps in piperead for one that can still be written and is empty,
\* or that a writer had filled when it was killed: pipewrite then returns without
\* the wakeup, and that is the only way to sleep beside data.
NoLostPipeWakeup ==
    \A t \in Threads : LET q == pipe[pc[t].g] IN
        /\ At(t, "readSleep") => q.writeopen /\ (Length(q) = 0 \/ q.cut)
        /\ At(t, "writeSleep") => q.readopen /\ Length(q) = PIPESIZE

\* The same without the exception: a reader does not sleep beside data.
NoReaderBesideData == \A t \in Threads : At(t, "readSleep") => Length(pipe[pc[t].g]) = 0

\* A process that has been killed does not sleep for a pipe ("Wake process from
\* sleep if necessary").
KilledAwake ==
    \A t \in Threads : Killed(t) => pc[t].at \notin {"readSleep", "writeSleep"}
===============================================================================
