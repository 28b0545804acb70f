----------------------------- MODULE BufferCache -----------------------------
(***************************************************************************)
(* The buffer cache (bio.c) with its sleep locks (sleeplock.c), on the     *)
(* request queue and the interrupt handler of the disk driver (ide.c).     *)
(*                                                                         *)
(* A client is a thread with one buffer in hand: it reads a block, perhaps *)
(* changes it and writes it (bwrite) or leaves it to the log (log_write),  *)
(* and releases it.  Contents are abstracted to whether they are the       *)
(* latest, that is, what the last client that changed the block has left.  *)
(*                                                                         *)
(* Grain of atomicity: a critical section of bcache.lock, of the spin lock *)
(* in a sleep lock, or of idelock.  What a client does to a buffer between *)
(* them is protected, or so it is claimed, by the sleep lock.              *)
(***************************************************************************)
EXTENDS Integers, Sequences, FiniteSets

CONSTANTS
    Clients, Blocks, NBUF,
    pid,          \* the process of a client: threads share the pid
    LogPins,      \* how many buffers the log may keep dirty
    DiskErrors,   \* whether a read may fail
    Kills,        \* whether kill() wakes sleepers and exit() ends threads
    NoBlock

Bufs == 1 .. NBUF
NoPid == 0
NoBuf == 0

ASSUME CacheAssumption ==
    /\ NBUF \in Nat \ {0} /\ LogPins \in Nat /\ IsFiniteSet(Clients)
    /\ pid \in [Clients -> Nat \ {NoPid}] /\ NoBlock \notin Blocks
    /\ DiskErrors \in BOOLEAN /\ Kills \in BOOLEAN

\* From bget to brelse; in "using" and "modified" the client has the buffer.
Using == {"using", "modified"}
InIderw == {"iderw", "idesleep", "idecheck"}
Locked == {"locked"} \cup Using \cup InIderw
Point == {"out", "acquire", "locksleep", "released"} \cup Locked
Message == {"", "bget: no buffers", "brelse", "bwrite", "iderw: buf not locked",
            "iderw: nothing to do"}

VARIABLES
    block, valid, dirty, refcnt,   \* struct buf
    locked, lpid,                  \* its sleep lock
    list,          \* bcache.head.next ... bcache.head.prev
    idequeue,
    active,        \* the buffer of the request the disk works on, if any
    fresh,         \* the buffers with the latest contents of their block
    disk,          \* the blocks of which the disk has the latest contents
    pc, cur, want, \* per client: point, buffer, block asked for
    dead,          \* clients that exit() of a sibling ended where they stood
    panic

bufVars == <<block, valid, dirty, refcnt>>
lockVars == <<locked, lpid>>
ideVars == <<idequeue, active>>
vars == <<bufVars, lockVars, list, ideVars, fresh, disk, pc, cur, want, dead, panic>>

Orders == {s \in [Bufs -> Bufs] : \A i, j \in Bufs : i # j => s[i] # s[j]}
TypeOK ==
    /\ block \in [Bufs -> Blocks \cup {NoBlock}]
    /\ valid \subseteq Bufs /\ dirty \subseteq Bufs
    /\ refcnt \in [Bufs -> 0 .. Cardinality(Clients)]
    /\ locked \subseteq Bufs /\ lpid \in [Bufs -> Nat]
    /\ list \in Orders /\ idequeue \in Seq(Bufs) /\ active \in Bufs \cup {NoBuf}
    /\ fresh \subseteq Bufs /\ disk \subseteq Blocks
    /\ pc \in [Clients -> Point] /\ cur \in [Clients -> Bufs]
    /\ want \in [Clients -> Blocks \cup {NoBlock}]
    /\ dead \subseteq Clients /\ panic \in Message

\* binit puts every buffer at the head of the list.
Init ==
    /\ block = [b \in Bufs |-> NoBlock] /\ valid = {} /\ dirty = {}
    /\ refcnt = [b \in Bufs |-> 0] /\ locked = {} /\ lpid = [b \in Bufs |-> NoPid]
    /\ list = [i \in Bufs |-> NBUF + 1 - i] /\ idequeue = <<>> /\ active = NoBuf
    /\ fresh = {} /\ disk = Blocks
    /\ pc = [t \in Clients |-> "out"] /\ cur = [t \in Clients |-> 1]
    /\ want = [t \in Clients |-> NoBlock] /\ dead = {} /\ panic = ""

-----------------------------------------------------------------------------
At(t, l) == t \notin dead /\ pc[t] = l
Goto(t, l) == pc' = [pc EXCEPT ![t] = l]
Panic(msg) == /\ panic' = msg
              /\ UNCHANGED <<bufVars, lockVars, list, ideVars, fresh, disk, pc, cur,
                             want, dead>>

\* wakeup() of those who sleep at point l for buffer b; they go on at m.
\* (Mutant: nobody is woken.)
NoneWoken(b, l, m) == pc
Woken(b, l, m) ==
    [t \in Clients |-> IF pc[t] = l /\ cur[t] = b /\ t \notin dead THEN m ELSE pc[t]]

\* The first buffer in the list, or the last, of which P holds.
IsFirst(i, P) == P[list[i]] /\ \A j \in 1 .. i - 1 : ~P[list[j]]
IsLast(i, P) == P[list[i]] /\ \A j \in i + 1 .. NBUF : ~P[list[j]]

-----------------------------------------------------------------------------
(***************************************************************************)
(* bio.c                                                                   *)
(***************************************************************************)
Cached(B) == [b \in Bufs |-> block[b] = B]
\* (Mutant: a buffer that somebody waits for is recycled.)
UnusedUnlocked == [b \in Bufs |-> b \notin locked /\ b \notin dirty]
Unused == [b \in Bufs |-> refcnt[b] = 0 /\ b \notin dirty]
bget(t, B) ==
    /\ At(t, "out")
    /\ IF \A b \in Bufs : ~Cached(B)[b] /\ ~Unused[b] THEN Panic("bget: no buffers")
       ELSE /\ \E i \in Bufs : LET b == list[i] IN
                 \/ /\ IsFirst(i, Cached(B))
                    /\ refcnt' = [refcnt EXCEPT ![b] = @ + 1]
                    /\ cur' = [cur EXCEPT ![t] = b]
                    /\ UNCHANGED <<block, valid, dirty, fresh>>
                 \/ /\ \A c \in Bufs : ~Cached(B)[c]
                    /\ IsLast(i, Unused)
                    /\ block' = [block EXCEPT ![b] = B]
                    /\ valid' = valid \ {b} /\ dirty' = dirty \ {b}
                    /\ refcnt' = [refcnt EXCEPT ![b] = 1]
                    /\ fresh' = fresh \ {b}
                    /\ cur' = [cur EXCEPT ![t] = b]
            /\ Goto(t, "acquire")
            /\ want' = [want EXCEPT ![t] = B]
            /\ UNCHANGED <<lockVars, list, ideVars, disk, dead, panic>>

acquiresleep(t) ==
    /\ At(t, "acquire")
    /\ LET b == cur[t] IN
       IF b \in locked
       THEN Goto(t, "locksleep") /\ UNCHANGED lockVars
       ELSE /\ locked' = locked \cup {b} /\ lpid' = [lpid EXCEPT ![b] = pid[t]]
            /\ Goto(t, "locked")
    /\ UNCHANGED <<bufVars, list, ideVars, fresh, disk, cur, want, dead, panic>>

holdingsleep(t) == cur[t] \in locked /\ lpid[cur[t]] = pid[t]

bread(t) ==
    /\ At(t, "locked")
    /\ Goto(t, IF cur[t] \in valid THEN "using" ELSE "iderw")
    /\ UNCHANGED <<bufVars, lockVars, list, ideVars, fresh, disk, cur, want, dead, panic>>

\* The client changes the contents: no other copy is the latest now.
modify(t) ==
    /\ At(t, "using") /\ Goto(t, "modified")
    /\ fresh' = {b \in fresh : block[b] # block[cur[t]]} \cup {cur[t]}
    /\ disk' = disk \ {block[cur[t]]}
    /\ UNCHANGED <<bufVars, lockVars, list, ideVars, cur, want, dead, panic>>

bwrite(t) ==
    /\ At(t, "using") \/ At(t, "modified")
    /\ IF ~holdingsleep(t) THEN Panic("bwrite")
       ELSE /\ dirty' = dirty \cup {cur[t]}
            /\ Goto(t, "iderw")
            /\ UNCHANGED <<block, valid, refcnt, lockVars, list, ideVars, fresh, disk,
                           cur, want, dead, panic>>

\* The log takes over: the buffer stays dirty when it is released.
log_write(t) ==
    /\ At(t, "modified") /\ Cardinality(dirty \cup {cur[t]}) <= LogPins
    /\ dirty' = dirty \cup {cur[t]}
    /\ Goto(t, "using")
    /\ UNCHANGED <<block, valid, refcnt, lockVars, list, ideVars, fresh, disk, cur,
                   want, dead, panic>>

releasesleep(t) ==
    /\ At(t, "using")
    /\ IF ~holdingsleep(t) THEN Panic("brelse")
       ELSE /\ locked' = locked \ {cur[t]}
            /\ lpid' = [lpid EXCEPT ![cur[t]] = NoPid]
            /\ pc' = [Woken(cur[t], "locksleep", "acquire") EXCEPT ![t] = "released"]
            /\ UNCHANGED <<bufVars, list, ideVars, fresh, disk, cur, want, dead, panic>>

\* The second critical section of brelse: the most recently used comes first.
ToFront(b) ==
    [i \in Bufs |-> LET k == CHOOSE j \in Bufs : list[j] = b IN
                    IF i = 1 THEN b ELSE IF i <= k THEN list[i - 1] ELSE list[i]]
brelse(t) ==
    /\ At(t, "released")
    /\ LET b == cur[t] IN
       /\ refcnt' = [refcnt EXCEPT ![b] = @ - 1]
       /\ list' = IF refcnt[b] = 1 THEN ToFront(b) ELSE list
    /\ Goto(t, "out") /\ want' = [want EXCEPT ![t] = NoBlock]
    /\ UNCHANGED <<block, valid, dirty, lockVars, ideVars, fresh, disk, cur, dead, panic>>

-----------------------------------------------------------------------------
(***************************************************************************)
(* ide.c                                                                   *)
(***************************************************************************)
\* The disk is given the request for b, with the data if it is a write.
idestart(b) ==
    /\ active' = b
    /\ disk' = IF b \notin dirty THEN disk
               ELSE IF b \in fresh THEN disk \cup {block[b]} ELSE disk \ {block[b]}
Idle == active' = NoBuf /\ UNCHANGED disk

\* iderw up to its sleep: the request is queued, and started if it is alone.
iderw(t) ==
    /\ At(t, "iderw")
    /\ LET b == cur[t] IN
       IF ~holdingsleep(t) THEN Panic("iderw: buf not locked")
       ELSE IF b \in valid \ dirty THEN Panic("iderw: nothing to do")
       ELSE /\ idequeue' = Append(idequeue, b)
            /\ IF idequeue = <<>> THEN idestart(b) ELSE UNCHANGED <<active, disk>>
            /\ Goto(t, "idesleep")
            /\ UNCHANGED <<bufVars, lockVars, list, fresh, cur, want, dead, panic>>

\* The test of its loop, after a wakeup.  (Mutant: the loop is an if.)
NoTest(b) == TRUE
Synced(b) == b \in valid \ dirty
iderwLoop(t) ==
    /\ At(t, "idecheck")
    /\ Goto(t, IF Synced(cur[t]) THEN "using" ELSE "idesleep")
    /\ UNCHANGED <<bufVars, lockVars, list, ideVars, fresh, disk, cur, want, dead, panic>>

\* The interrupt at the end of a request; it is the one at the head of the queue.
\* An interrupt that finds the queue empty changes nothing.
StartNext(q) == IF q = <<>> THEN Idle ELSE idestart(Head(q))
ideintr ==
    /\ active # NoBuf
    /\ LET b == Head(idequeue) IN
       /\ idequeue' = Tail(idequeue)
       /\ \E ok \in {TRUE, ~DiskErrors} :
            fresh' = IF b \in dirty \/ ~ok THEN fresh
                     ELSE IF block[b] \in disk THEN fresh \cup {b} ELSE fresh \ {b}
       /\ valid' = valid \cup {b} /\ dirty' = dirty \ {b}
       /\ pc' = Woken(b, "idesleep", "idecheck")
       /\ StartNext(Tail(idequeue))
    /\ UNCHANGED <<block, refcnt, lockVars, list, cur, want, dead, panic>>

-----------------------------------------------------------------------------
\* kill() wakes a thread whatever it sleeps for; exit() of a sibling ends one.
kill(t) ==
    /\ Kills
    /\ \/ At(t, "locksleep") /\ Goto(t, "acquire")
       \/ At(t, "idesleep") /\ Goto(t, "idecheck")
    /\ UNCHANGED <<bufVars, lockVars, list, ideVars, fresh, disk, cur, want, dead, panic>>
exit(t) ==
    /\ Kills /\ t \notin dead /\ pc[t] # "out" /\ dead' = dead \cup {t}
    /\ UNCHANGED <<bufVars, lockVars, list, ideVars, fresh, disk, pc, cur, want, panic>>

Finish(t) ==
    \/ acquiresleep(t) \/ bread(t) \/ iderw(t) \/ iderwLoop(t)
    \/ releasesleep(t) \/ brelse(t)
Next ==
    /\ panic = ""
    /\ \/ \E t \in Clients :
            \/ Finish(t) \/ modify(t) \/ bwrite(t) \/ log_write(t) \/ kill(t) \/ exit(t)
            \/ \E B \in Blocks : bget(t, B)
       \/ ideintr
Spec == Init /\ [][Next]_vars

-----------------------------------------------------------------------------
(***************************************************************************)
(* Properties.                                                             *)
(***************************************************************************)
\* A block has at most one buffer, or two clients would change different copies
\* ("a synchronization point for disk blocks used by multiple processes").
OneBufferPerBlock ==
    \A b, c \in Bufs : block[b] = block[c] /\ b # c => block[b] = NoBlock

\* A client that has locked a buffer is alone with it, and the buffer is still
\* that of the block it asked for, however long it slept for the lock ("Only
\* one process at a time can use a buffer").
HolderAlone ==
    /\ \A t, u \in Clients :
          pc[t] \in Locked /\ pc[u] \in Locked /\ cur[t] = cur[u] => t = u
    /\ \A t \in Clients : pc[t] # "out" => block[cur[t]] = want[t]

\* bread returns what the last client left in the block: it is not woken from
\* iderw before the disk has answered, whoever else wakes it.
ReadsLatest == \A t \in Clients : pc[t] \in Using => cur[t] \in fresh

\* The latest contents of a block are on the disk, or in a buffer that will not
\* be recycled: it is dirty, or in the hands of a client.
NothingLost ==
    \A B \in Blocks \ disk :
        \E b \in fresh : /\ block[b] = B
                        /\ \/ b \in dirty
                           \/ \E t \in Clients : pc[t] \in Locked /\ cur[t] = b

\* No wakeup is lost: who sleeps for a lock sleeps while it is held, who sleeps
\* for the disk while the request is queued.  And the disk is at work on the
\* first request ("First queued buffer is the active request"), whoever of the
\* requester and the handler comes first.
NoLostWakeup ==
    /\ \A t \in Clients \ dead :
         /\ pc[t] = "locksleep" => cur[t] \in locked
         /\ pc[t] = "idesleep" => \E i \in 1 .. Len(idequeue) : idequeue[i] = cur[t]
    /\ active = IF idequeue = <<>> THEN NoBuf ELSE Head(idequeue)

\* None of the assertions of bio.c and ide.c fails.  (bget's does, unless there
\* is a buffer for every client beside those the log keeps.)
NoBufferPanic == panic = ""
===============================================================================
