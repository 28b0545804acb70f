---------------------------------- MODULE Log ----------------------------------
(***************************************************************************)
(* The write-ahead log (log.c) on a disk that may crash between any two    *)
(* block writes: begin_op, log_write, end_op, commit, recover_from_log,    *)
(* and so much of the buffer cache (bio.c) as the log relies on: a buffer  *)
(* is held while it is changed, and a dirty buffer is not recycled.        *)
(*                                                                         *)
(* Grain of atomicity: what happens under log.lock is one step, and so is  *)
(* every block that bwrite puts on the disk.  log_write looks at lh.n      *)
(* before it takes the lock, so that is a step of its own.                 *)
(***************************************************************************)
EXTENDS Integers, Sequences, FiniteSets

CONSTANTS
    Procs,       \* the threads that make file system calls
    Blocks,      \* home locations on the disk
    Data,        \* contents of a block
    MAXOPBLOCKS, LOGSIZE,
    OpBlocks,    \* how many different blocks an operation really writes
    nlog,        \* sb.nlog: blocks of the log on disk, its header included
    Kills,       \* whether exit() of another thread may end a thread in a call
    NoBlock      \* the value of buf when no buffer is held

ASSUME LogAssumption ==
    /\ MAXOPBLOCKS \in Nat \ {0} /\ LOGSIZE \in Nat /\ nlog \in Nat
    /\ OpBlocks \in 0 .. MAXOPBLOCKS /\ MAXOPBLOCKS <= LOGSIZE /\ Kills \in BOOLEAN
ASSUME SetAssumption == IsFiniteSet(Procs) /\ NoBlock \notin Blocks

InOp == {"op", "log_write", "append"}
Commits == {"write_log", "write_head", "install", "erase", "done"}
Point == {"out", "begin", "asleep"} \cup InOp \cup Commits
Mode == {"up", "read_head", "install", "erase"}
Message == {"", "too big a transaction", "log_write outside of trans", "log.committing"}

VARIABLES
    home, dlog, head,              \* on disk: file system, log, log header
    cache, dirty,                  \* buffers: contents, B_DIRTY
    lh, outstanding, committing,   \* struct log
    pc, buf, mine,    \* per thread: point, buffer held, blocks written so far
    dead,             \* threads that exit() ended in the middle of a call
    tail,             \* the loop variable of write_log and install_trans
    mode,             \* "up", or where recover_from_log is
    panic

disk == <<home, dlog, head>>
memory == <<cache, dirty, lh, outstanding, committing, pc, buf, mine, dead, tail, mode, panic>>
vars == <<disk, memory>>

TypeOK ==
    /\ home \in [Blocks -> Data] /\ cache \in [Blocks -> Data]
    /\ dlog \in [1 .. LOGSIZE -> Data]
    /\ head \in Seq(Blocks) /\ lh \in Seq(Blocks)
    /\ dirty \subseteq Blocks /\ dead \subseteq Procs
    /\ outstanding \in Nat /\ committing \in BOOLEAN
    /\ pc \in [Procs -> Point] /\ buf \in [Procs -> Blocks \cup {NoBlock}]
    /\ mine \in [Procs -> SUBSET Blocks]
    /\ tail \in Nat /\ mode \in Mode /\ panic \in Message

Init ==
    /\ \E d \in Data : /\ home = [b \in Blocks |-> d]
                       /\ dlog = [i \in 1 .. LOGSIZE |-> d]
    /\ cache = home /\ head = <<>> /\ lh = <<>> /\ dirty = {}
    /\ outstanding = 0 /\ committing = FALSE
    /\ pc = [p \in Procs |-> "out"] /\ buf = [p \in Procs |-> NoBlock]
    /\ mine = [p \in Procs |-> {}] /\ dead = {}
    /\ tail = 0 /\ mode = "up" /\ panic = ""

-----------------------------------------------------------------------------
At(p, l) == mode = "up" /\ p \notin dead /\ pc[p] = l
Goto(p, l) == pc' = [pc EXCEPT ![p] = l]

\* wakeup(&log), while p goes to l.  (Mutant: nobody is woken.)
NoWakeup(p, l) == Goto(p, l)
Wakeup(p, l) ==
    pc' = [q \in Procs |-> IF q = p THEN l
                           ELSE IF pc[q] = "asleep" /\ q \notin dead THEN "begin" ELSE pc[q]]

Panic(msg) == /\ panic' = msg
              /\ UNCHANGED <<disk, cache, dirty, lh, outstanding, committing, pc, buf,
                             mine, dead, tail, mode>>

\* The space an operation may need is free, those in progress counted in full.
\* (Mutant: the operation that begins is not counted.)
FitsInProgress(n) == n + outstanding * MAXOPBLOCKS <= LOGSIZE
Fits(n) == n + (outstanding + 1) * MAXOPBLOCKS <= LOGSIZE

Reserve == outstanding' = outstanding + 1

begin_op(p) ==
    /\ At(p, "out") \/ At(p, "begin")
    /\ \/ /\ committing \/ ~Fits(Len(lh))
          /\ Goto(p, "asleep")
          /\ UNCHANGED outstanding
       \/ /\ ~committing /\ Fits(Len(lh))
          /\ Reserve
          /\ Goto(p, "op")
    /\ UNCHANGED <<disk, cache, dirty, lh, committing, buf, mine, dead, tail, mode, panic>>

\* The caller of log_write: bread, and a change of the data in the buffer.  An
\* operation writes at most OpBlocks different blocks.
modify(p) ==
    /\ At(p, "op")
    /\ \E b \in Blocks, v \in Data :
         /\ \A q \in Procs : buf[q] # b
         /\ Cardinality(mine[p] \cup {b}) <= OpBlocks
         /\ cache' = [cache EXCEPT ![b] = v]
         /\ buf' = [buf EXCEPT ![p] = b]
         /\ mine' = [mine EXCEPT ![p] = @ \cup {b}]
    /\ Goto(p, "log_write")
    /\ UNCHANGED <<disk, dirty, lh, outstanding, committing, dead, tail, mode, panic>>

log_write(p) ==
    /\ At(p, "log_write")
    /\ IF Len(lh) >= LOGSIZE \/ Len(lh) >= nlog - 1 THEN Panic("too big a transaction")
       ELSE IF outstanding < 1 THEN Panic("log_write outside of trans")
       ELSE /\ Goto(p, "append")
            /\ UNCHANGED <<disk, cache, dirty, lh, outstanding, committing, buf, mine,
                           dead, tail, mode, panic>>

\* The locked part of log_write (absorption, B_DIRTY), and the brelse after it.
Pin(b) == dirty' = dirty \cup {b}
Absorb(b) == IF \E i \in 1 .. Len(lh) : lh[i] = b THEN lh ELSE Append(lh, b)
append(p) ==
    /\ At(p, "append")
    /\ lh' = Absorb(buf[p])
    /\ Pin(buf[p])
    /\ buf' = [buf EXCEPT ![p] = NoBlock]
    /\ Goto(p, "op")
    /\ UNCHANGED <<disk, cache, outstanding, committing, mine, dead, tail, mode, panic>>

\* The last operation commits (commit() does nothing when lh is empty); any
\* other wakes those who wait for space.
end_op(p) ==
    /\ At(p, "op")
    /\ IF committing THEN Panic("log.committing")
       ELSE /\ outstanding' = outstanding - 1
            /\ mine' = [mine EXCEPT ![p] = {}]
            /\ \/ /\ outstanding = 1
                  /\ committing' = TRUE
                  /\ Goto(p, IF Len(lh) > 0 THEN "write_log" ELSE "done")
               \/ /\ outstanding # 1
                  /\ Wakeup(p, "out")
                  /\ UNCHANGED committing
            /\ UNCHANGED <<disk, cache, dirty, lh, buf, dead, tail, mode, panic>>

-----------------------------------------------------------------------------
(***************************************************************************)
(* commit(), one block at a time, by the thread that ended the last        *)
(* operation, and recover_from_log() after a crash.                        *)
(***************************************************************************)
\* The point after the loop over the log entries, or in it again.
Loop(l, next) == IF tail + 1 = Len(lh) THEN next ELSE l
Tail1 == tail' = IF tail + 1 = Len(lh) THEN 0 ELSE tail + 1

write_log(p) ==
    /\ At(p, "write_log")
    /\ dlog' = [dlog EXCEPT ![tail + 1] = cache[lh[tail + 1]]]
    /\ Tail1
    /\ Goto(p, Loop("write_log", "write_head"))
    /\ UNCHANGED <<home, head, cache, dirty, lh, outstanding, committing, buf, mine,
                   dead, mode, panic>>

\* The commit point.
write_head(p) ==
    /\ At(p, "write_head")
    /\ head' = lh
    /\ Goto(p, "install")
    /\ UNCHANGED <<home, dlog, cache, dirty, lh, outstanding, committing, buf, mine, dead,
                   tail, mode, panic>>

\* One round of install_trans; the write cleans the buffer.
\* (Mutant: the loop ends one entry early.)
InstallAllButLast ==
    /\ LET b == lh[tail + 1]
           d == IF tail + 1 = Len(lh) THEN home[b] ELSE dlog[tail + 1] IN
       /\ home' = [home EXCEPT ![b] = d]
       /\ cache' = [cache EXCEPT ![b] = d]
       /\ dirty' = dirty \ {b}
    /\ Tail1
InstallOne ==
    /\ LET b == lh[tail + 1] IN
       /\ home' = [home EXCEPT ![b] = dlog[tail + 1]]
       /\ cache' = [cache EXCEPT ![b] = dlog[tail + 1]]
       /\ dirty' = dirty \ {b}
    /\ Tail1
install_trans(p) ==
    /\ At(p, "install")
    /\ InstallOne
    /\ Goto(p, Loop("install", "erase"))
    /\ UNCHANGED <<dlog, head, lh, outstanding, committing, buf, mine, dead, mode, panic>>

erase(p) ==
    /\ At(p, "erase")
    /\ lh' = <<>> /\ head' = <<>>
    /\ Goto(p, "done")
    /\ UNCHANGED <<home, dlog, cache, dirty, outstanding, committing, buf, mine, dead,
                   tail, mode, panic>>

committed(p) ==
    /\ At(p, "done")
    /\ committing' = FALSE
    /\ Wakeup(p, "out")
    /\ UNCHANGED <<disk, cache, dirty, lh, outstanding, buf, mine, dead, tail, mode, panic>>

\* Power fails, or a panic is answered by a reset: what is in memory is lost.
crash ==
    /\ cache' = home /\ dirty' = {} /\ lh' = <<>> /\ outstanding' = 0 /\ committing' = FALSE
    /\ pc' = [p \in Procs |-> "out"] /\ buf' = [p \in Procs |-> NoBlock]
    /\ mine' = [p \in Procs |-> {}] /\ dead' = {}
    /\ tail' = 0 /\ mode' = "read_head" /\ panic' = ""
    /\ UNCHANGED disk

recover_from_log ==
    /\ \/ /\ mode = "read_head"
          /\ lh' = head
          /\ mode' = IF head = <<>> THEN "erase" ELSE "install"
          /\ UNCHANGED <<home, head, cache, dirty, tail>>
       \/ /\ mode = "install"
          /\ InstallOne
          /\ mode' = Loop("install", "erase")
          /\ UNCHANGED <<head, lh>>
       \/ /\ mode = "erase"
          /\ lh' = <<>> /\ head' = <<>>
          /\ mode' = "up"
          /\ UNCHANGED <<home, cache, dirty, tail>>
    /\ UNCHANGED <<dlog, outstanding, committing, pc, buf, mine, dead, panic>>

-----------------------------------------------------------------------------
\* bget recycles a buffer that nobody holds and that is not dirty; the next
\* bread of its block reads the disk.
recycle(b) ==
    /\ mode = "up" /\ b \notin dirty /\ \A p \in Procs : buf[p] # b
    /\ cache' = [cache EXCEPT ![b] = home[b]]
    /\ UNCHANGED <<disk, dirty, lh, outstanding, committing, pc, buf, mine, dead, tail,
                   mode, panic>>

\* exit() by another thread of the process makes this one a zombie (proc.c).
exit(p) ==
    /\ Kills /\ mode = "up" /\ p \notin dead /\ pc[p] # "out"
    /\ dead' = dead \cup {p}
    /\ UNCHANGED <<disk, cache, dirty, lh, outstanding, committing, pc, buf, mine, tail,
                   mode, panic>>

ThreadStep(p) ==
    \/ begin_op(p) \/ modify(p) \/ log_write(p) \/ append(p) \/ end_op(p)
    \/ write_log(p) \/ write_head(p) \/ install_trans(p) \/ erase(p) \/ committed(p)

Next ==
    \/ crash
    \/ /\ panic = ""
       /\ \/ \E p \in Procs : ThreadStep(p) \/ exit(p)
          \/ \E b \in Blocks : recycle(b)
          \/ recover_from_log

Spec == Init /\ [][Next]_vars

-----------------------------------------------------------------------------
(***************************************************************************)
(* Properties.                                                             *)
(***************************************************************************)
\* The contents of the disk once recover_from_log has run.
Recovered ==
    [b \in Blocks |-> IF \E i \in 1 .. Len(head) : head[i] = b
                      THEN dlog[CHOOSE i \in 1 .. Len(head) : head[i] = b]
                      ELSE home[b]]
Abstract == INSTANCE AtomicDisk WITH
                Clients <- Procs,
                mem <- (IF mode = "up" THEN cache ELSE Recovered),
                stable <- Recovered,
                active <- {p \in Procs : pc[p] \in InOp}

\* Operations are atomic with respect to crashes: wherever the machine stops,
\* in commit() and in recovery too, the disk holds the contents of a moment at
\* which no operation was in progress ("there is never any reasoning required
\* about whether a commit might write an uncommitted system call's updates").
ImplementsAtomicDisk == Abstract!Spec

\* What the buffer cache shows is what the disk and the log will hold: a block
\* not in the log is clean, so that recycling its buffer loses nothing.
NothingLost ==
    mode = "up" =>
        \A b \in Blocks : cache[b] # home[b] =>
            \/ b \in dirty
            \/ \E p \in Procs : buf[p] = b

\* log.outstanding is "how many FS sys calls are executing", those counted that
\* exit() of a sibling has cut short and that will never call end_op.
OutstandingExact == outstanding = Cardinality({p \in Procs : pc[p] \in InOp})

\* begin_op's reservation is enough: no log_write panics, and the log on disk,
\* its header and the blocks of lh, does not overflow, although log_write looks
\* at lh.n before it has the lock and another operation may append in between
\* ("this op might exhaust log space").
LogSuffices == panic = "" /\ Len(lh) < nlog

(***************************************************************************)
(* Fairness.  A thread in the kernel goes on, an operation comes to its    *)
(* end, and recovery is completed.                                         *)
(***************************************************************************)
Progress(p) ==
    \/ log_write(p) \/ append(p) \/ write_log(p) \/ write_head(p)
    \/ install_trans(p) \/ erase(p) \/ committed(p)
Fairness ==
    /\ \A p \in Procs : /\ WF_vars(panic = "" /\ Progress(p))
                        /\ SF_vars(panic = "" /\ end_op(p))
    /\ WF_vars(panic = "" /\ recover_from_log)
FairSpec == Spec /\ Fairness

\* Nobody sleeps in begin_op for ever ("sleeps until the last outstanding
\* end_op() commits"), unless a thread has been ended inside a call.
BeginWakes == \A p \in Procs : pc[p] = "asleep" ~> pc[p] # "asleep" \/ dead # {}
===============================================================================
