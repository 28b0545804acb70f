-------------------------------- MODULE Inodes --------------------------------
(***************************************************************************)
(* The inode cache and the link counts of the file system (fs.c), with the *)
(* system calls that create, find, link and remove names (sysfile.c).      *)
(*                                                                         *)
(* Grain of atomicity: a critical section of icache.lock, the acquisition  *)
(* of an inode's sleep lock, and what is done between that and the next    *)
(* one.  A lock that is taken is waited for; BufferCache has the sleep     *)
(* locks themselves, Log the transactions and Files what becomes of the    *)
(* inode of an open file.  A directory is a function from names to inode   *)
(* numbers and a parent; the contents of files are left out, and so are    *)
(* paths through "." and "..".                                             *)
(***************************************************************************)
EXTENDS Integers, Sequences, FiniteSets

CONSTANTS
    Threads, Names,
    NINODES,      \* the last inode on disk (sb.ninodes - 1)
    NINODE,       \* entries of the inode cache
    Calls         \* per thread: the calls it makes, with the paths that it passes to each

ASSUME InodesAssumption ==
    /\ NINODES \in Nat \ {0} /\ NINODE \in Nat \ {0}
    /\ \A t \in Threads :
         /\ DOMAIN Calls[t] \subseteq {"open", "create", "mkdir", "unlink", "link", "close"}
         /\ \A call \in DOMAIN Calls[t] : Calls[t][call] \subseteq Seq(Names) \ {<<>>}

Inum == 1 .. NINODES
Slot == 1 .. NINODE
ROOTINO == 1
None == 0

VARIABLES
    dinode,    \* the inodes on disk, with the contents of directories
    icache,    \* icache.inode
    lock,      \* the sleep locks: who has the inode in a slot
    held,      \* per thread: the inode of the file it has open
    pc,        \* per thread: the call it is in, with its local variables
    panic
vars == <<dinode, icache, lock, held, pc, panic>>

User == [at |-> "user", call |-> "", path |-> <<>>, new |-> <<>>, cur |-> None,
         ip |-> None, inum |-> None, put |-> None, then |-> "", ret |-> ""]
Label == {"user", "walk", "look", "iput", "ifree", "iref", "opened", "create", "create2",
          "create3", "create4", "exists", "created", "unlink", "unlink2", "unlink3",
          "unlinkBad", "unlink4", "link", "link2", "link3", "linkExists", "linkBad", "link4"}
FreeInode == [type |-> "free", nlink |-> 0, ents |-> [n \in Names |-> None], up |-> None]
FreeSlot == [inum |-> None, ref |-> 0, valid |-> FALSE, type |-> "free", nlink |-> 0]

TypeOK ==
    /\ dinode \in [Inum -> [type : {"free", "file", "dir"}, nlink : Nat,
                            ents : [Names -> Inum \cup {None}], up : Inum \cup {None}]]
    /\ icache \in [Slot -> [inum : Inum \cup {None}, ref : Nat, valid : BOOLEAN,
                            type : {"free", "file", "dir"}, nlink : Nat]]
    /\ lock \in [Slot -> Threads \cup {None}]
    /\ held \in [Threads -> Slot \cup {None}]
    /\ \A t \in Threads : pc[t].at \in Label

\* As mkfs leaves the disk, and with the root as the directory of the first process.
Init ==
    /\ dinode = [i \in Inum |->
                   IF i = ROOTINO THEN [FreeInode EXCEPT !.type = "dir", !.nlink = 1, !.up = i]
                   ELSE FreeInode]
    /\ icache = [s \in Slot |->
                   IF s = 1 THEN [FreeSlot EXCEPT !.inum = ROOTINO, !.ref = 1] ELSE FreeSlot]
    /\ lock = [s \in Slot |-> None]
    /\ held = [t \in Threads |-> None]
    /\ pc = [t \in Threads |-> User]
    /\ panic = ""

-----------------------------------------------------------------------------
At(t, l) == pc[t].at = l
Goto(t, frame) == pc' = [pc EXCEPT ![t] = frame]
Return(t) == Goto(t, User)
Panic(msg) == panic' = msg /\ UNCHANGED <<dinode, icache, lock, held, pc>>

\* iget(i) returns slot Found(i).
Unused == {s \in Slot : icache[s].ref = 0}
Cached(i) == {s \in Slot : icache[s].ref > 0 /\ icache[s].inum = i}
Found(i) == IF Cached(i) # {} THEN CHOOSE s \in Cached(i) : TRUE
            ELSE CHOOSE s \in Unused : \A u \in Unused : s <= u
IgetFails(i) == Cached(i) = {} /\ Unused = {}
iget(i) ==
    icache' = [icache EXCEPT ![Found(i)] =
                 IF Cached(i) # {} THEN [@ EXCEPT !.ref = @ + 1]
                 ELSE [FreeSlot EXCEPT !.inum = i, !.ref = 1]]

\* The slot once ilock has read the inode.  The fields of an invalid slot are
\* not used; they are reset here when they become invalid.
Loaded(s) ==
    LET i == icache[s].inum IN
    IF icache[s].valid THEN icache[s]
    ELSE [icache[s] EXCEPT !.valid = TRUE, !.type = dinode[i].type, !.nlink = dinode[i].nlink]
\* ilock(s) can go on, and whether one of its assertions fails.
Lockable(s) == lock[s] = None
IlockFails(s) == icache[s].ref < 1 \/ Loaded(s).type = "free"

\* iput(s), and then on at point l, with the local variables needed there.
Iput(t, s, l) ==
    LET frame == IF l = "user" THEN User ELSE [pc[t] EXCEPT !.ret = "", !.inum = None,
                   !.cur = IF l \in {"unlinkBad", "linkExists"} THEN @ ELSE None]
    IN Goto(t, [frame EXCEPT !.at = "iput", !.put = s, !.then = l])

\* iput takes the lock and reads ref; it frees the inode, or releases the lock.
\* (Mutant: the references of others are not looked at.)
UnlinkedInode(r) == r.valid /\ r.nlink = 0
LastReference(r) == r.valid /\ r.nlink = 0 /\ r.ref = 1
iput(t) ==
    /\ At(t, "iput") /\ Lockable(pc[t].put)
    /\ IF LastReference(icache[pc[t].put])
       THEN /\ lock' = [lock EXCEPT ![pc[t].put] = t]
            /\ Goto(t, [pc[t] EXCEPT !.at = "ifree"])
       ELSE Goto(t, [pc[t] EXCEPT !.at = "iref"]) /\ UNCHANGED lock
    /\ UNCHANGED <<dinode, icache, held, panic>>
\* itrunc, type = 0, iupdate, valid = 0.
itrunc(d) == [d EXCEPT !.ents = FreeInode.ents, !.up = None]
Freed(r) == [r EXCEPT !.valid = FALSE, !.type = "free"]
ifree(t) ==
    /\ At(t, "ifree")
    /\ LET s == pc[t].put IN
       /\ dinode' = [dinode EXCEPT ![icache[s].inum] = [itrunc(@) EXCEPT !.type = "free"]]
       /\ icache' = [icache EXCEPT ![s] = Freed(@)]
       /\ lock' = [lock EXCEPT ![s] = None]
    /\ Goto(t, [pc[t] EXCEPT !.at = "iref"]) /\ UNCHANGED <<held, panic>>
iref(t) ==
    /\ At(t, "iref")
    /\ LET s == pc[t].put IN
       icache' = [icache EXCEPT ![s] = IF @.ref = 1 THEN FreeSlot ELSE [@ EXCEPT !.ref = @ - 1]]
    /\ Goto(t, IF pc[t].then = "user" THEN User
               ELSE [pc[t] EXCEPT !.at = pc[t].then, !.put = None, !.then = ""])
    /\ UNCHANGED <<dinode, lock, held, panic>>

-----------------------------------------------------------------------------
(***************************************************************************)
(* namex: from the root along the path; namei ends with the inode in cur,  *)
(* nameiparent with the directory in cur and the last name in path.        *)
(***************************************************************************)
Parent(frame) == frame.ret \in {"create", "unlink", "link2"}
Failed(frame) == IF frame.ret = "link2" THEN "linkBad" ELSE "user"
\* The rest of a path; the element that goes is its head.
skipelem(path) == Tail(path)
namex(t, frame) ==
    /\ iget(ROOTINO)
    /\ Goto(t, [frame EXCEPT !.at = "walk", !.cur = Found(ROOTINO)])

\* The lock on the next directory; it is released at once if the walk ends here.
walk(t) ==
    /\ At(t, "walk") /\ Lockable(pc[t].cur)
    /\ LET s == pc[t].cur IN
       IF IlockFails(s) THEN Panic("ilock")
       ELSE /\ icache' = [icache EXCEPT ![s] = Loaded(s)]
            /\ \/ /\ Loaded(s).type # "dir"
                  /\ Iput(t, s, Failed(pc[t])) /\ UNCHANGED lock
               \/ /\ Loaded(s).type = "dir" /\ Parent(pc[t]) /\ skipelem(pc[t].path) = <<>>
                  /\ Goto(t, [pc[t] EXCEPT !.at = pc[t].ret, !.ret = ""]) /\ UNCHANGED lock
               \/ /\ Loaded(s).type = "dir" /\ ~(Parent(pc[t]) /\ skipelem(pc[t].path) = <<>>)
                  /\ Goto(t, [pc[t] EXCEPT !.at = "look"])
                  /\ lock' = [lock EXCEPT ![s] = t]
            /\ UNCHANGED <<dinode, held, panic>>

\* iunlock(s).  (Mutant: iput is called where iunlockput should be.)
StillLocked(s) == lock
Unlocked(s) == [lock EXCEPT ![s] = None]

\* dirlookup of the first name of the path, in the directory in cur.
Entry(t) == dinode[icache[pc[t].cur].inum].ents[Head(pc[t].path)]
look(t) ==
    /\ At(t, "look")
    /\ LET s == pc[t].cur
           i == Entry(t)
           rest == skipelem(pc[t].path)
           end == rest = <<>> /\ ~Parent(pc[t])
       IN IF i # None /\ IgetFails(i) THEN Panic("iget: no inodes")
          ELSE /\ lock' = Unlocked(s)
               /\ IF i = None THEN Iput(t, s, Failed(pc[t])) /\ UNCHANGED icache
                  ELSE /\ iget(i)
                       /\ Goto(t, [pc[t] EXCEPT !.at = "iput", !.put = s, !.cur = Found(i),
                                     !.path = rest, !.then = IF end THEN pc[t].ret ELSE "walk"])
               /\ UNCHANGED <<dinode, held, panic>>

\* ilock(pc[t].cur) of a directory that a call then works on, at point l.
LockDir(t, from, l) ==
    /\ At(t, from) /\ Lockable(pc[t].cur)
    /\ LET s == pc[t].cur IN
       IF IlockFails(s) THEN Panic("ilock")
       ELSE /\ icache' = [icache EXCEPT ![s] = Loaded(s)]
            /\ lock' = [lock EXCEPT ![s] = t]
            /\ Goto(t, [pc[t] EXCEPT !.at = l])
            /\ UNCHANGED <<dinode, held, panic>>

\* writei of the entry for name in directory i of the inodes d.
dirlink(d, i, name, inum) == [d EXCEPT ![i].ents[name] = inum]

\* The inode in slot s, of which the copy becomes r, is written through (iupdate).
Update(s, r) == [dinode EXCEPT ![icache[s].inum] = [@ EXCEPT !.type = r.type, !.nlink = r.nlink]]

-----------------------------------------------------------------------------
(***************************************************************************)
(* open of a name that exists, and close.                                  *)
(***************************************************************************)
Enter(t, call) == At(t, "user") /\ call \in DOMAIN Calls[t]
sys_open(t) ==
    /\ Enter(t, "open") /\ held[t] = None
    /\ \E p \in Calls[t]["open"] : namex(t, [User EXCEPT !.call = "open", !.path = p, !.ret = "opened"])
    /\ UNCHANGED <<dinode, lock, held, panic>>
\* The end of sys_open, which may fail: a directory opened for writing, no file.
opened(t) ==
    /\ At(t, "opened") /\ Lockable(pc[t].cur)
    /\ LET s == pc[t].cur IN
       IF IlockFails(s) THEN Panic("ilock")
       ELSE /\ icache' = [icache EXCEPT ![s] = Loaded(s)]
            /\ \/ Iput(t, s, "user") /\ UNCHANGED held
               \/ held' = [held EXCEPT ![t] = s] /\ Return(t)
            /\ UNCHANGED <<dinode, lock, panic>>
close(t) ==
    /\ Enter(t, "close") /\ held[t] # None
    /\ held' = [held EXCEPT ![t] = None]
    /\ Iput(t, held[t], "user")
    /\ UNCHANGED <<dinode, icache, lock, panic>>

-----------------------------------------------------------------------------
(***************************************************************************)
(* create, for open with O_CREATE and for mkdir.                           *)
(***************************************************************************)
sys_create(t) ==
    /\ \E c \in {"create", "mkdir"} :
         /\ Enter(t, c) /\ (c = "create" => held[t] = None)
         /\ \E p \in Calls[t][c] : namex(t, [User EXCEPT !.call = c, !.path = p, !.ret = "create"])
    /\ UNCHANGED <<dinode, lock, held, panic>>

FreeInodes == {i \in Inum : dinode[i].type = "free"}
Kind(t) == IF pc[t].call = "mkdir" THEN "dir" ELSE "file"
create(t) == LockDir(t, "create", "create2")
\* dirlookup, or ialloc up to the log_write.
create2(t) ==
    /\ At(t, "create2")
    /\ LET s == pc[t].cur
           i == Entry(t)
           new == CHOOSE n \in FreeInodes : \A m \in FreeInodes : n <= m
       IN IF i # None /\ IgetFails(i) THEN Panic("iget: no inodes")
          ELSE IF i = None /\ FreeInodes = {} THEN Panic("ialloc: no inodes")
          ELSE /\ \/ /\ i # None /\ iget(i)
                     /\ lock' = Unlocked(s)
                     /\ Goto(t, [pc[t] EXCEPT !.at = "iput", !.put = s, !.then = "exists",
                                              !.ip = Found(i)])
                     /\ UNCHANGED dinode
                  \/ /\ i = None
                     /\ dinode' = [dinode EXCEPT ![new] = [FreeInode EXCEPT !.type = Kind(t)]]
                     /\ Goto(t, [pc[t] EXCEPT !.at = "create3", !.inum = new])
                     /\ UNCHANGED <<icache, lock>>
               /\ UNCHANGED <<held, panic>>
\* The iget of ialloc.
create3(t) ==
    /\ At(t, "create3")
    /\ IF IgetFails(pc[t].inum) THEN Panic("iget: no inodes")
       ELSE /\ iget(pc[t].inum)
            /\ Goto(t, [pc[t] EXCEPT !.at = "create4", !.ip = Found(pc[t].inum)])
            /\ UNCHANGED <<dinode, lock, held, panic>>
\* The new inode is locked and linked; its directory is released.
\* (Mutant: ".." of a new directory is not counted.)
NoDotDot(kind) == 0
DotDot(kind) == IF kind = "dir" THEN 1 ELSE 0
create4(t) ==
    /\ At(t, "create4") /\ Lockable(pc[t].ip)
    /\ LET s == pc[t].cur
           i == icache[s].inum
           ip == pc[t].ip
           name == Head(pc[t].path)
           links == icache[s].nlink + DotDot(Kind(t))
       IN IF IlockFails(ip) THEN Panic("ilock")
          ELSE IF Entry(t) # None THEN Panic("create: dirlink")
          ELSE /\ icache' = [icache EXCEPT ![ip] = [Loaded(ip) EXCEPT !.nlink = 1],
                                           ![s].nlink = links]
               /\ dinode' = dirlink([dinode EXCEPT ![pc[t].inum].nlink = 1, ![i].nlink = links,
                                ![pc[t].inum].up = IF Kind(t) = "dir" THEN i ELSE None],
                              i, name, pc[t].inum)
               /\ lock' = [lock EXCEPT ![ip] = t, ![s] = None]
               /\ Iput(t, s, "created")
               /\ UNCHANGED <<held, panic>>
\* The name was there: create returns it if both are files.
exists(t) ==
    /\ At(t, "exists") /\ Lockable(pc[t].ip)
    /\ LET ip == pc[t].ip IN
       IF IlockFails(ip) THEN Panic("ilock")
       ELSE /\ icache' = [icache EXCEPT ![ip] = Loaded(ip)]
            /\ IF Kind(t) = "file" /\ Loaded(ip).type = "file"
               THEN lock' = [lock EXCEPT ![ip] = t] /\ Goto(t, [pc[t] EXCEPT !.at = "created"])
               ELSE Iput(t, ip, "user") /\ UNCHANGED lock
            /\ UNCHANGED <<dinode, held, panic>>
\* The end of sys_open, which may fail for want of a file, and of sys_mkdir.
created(t) ==
    /\ At(t, "created")
    /\ lock' = Unlocked(pc[t].ip)
    /\ \/ Iput(t, pc[t].ip, "user") /\ UNCHANGED held
       \/ Kind(t) = "file" /\ held' = [held EXCEPT ![t] = pc[t].ip] /\ Return(t)
    /\ UNCHANGED <<dinode, icache, panic>>

-----------------------------------------------------------------------------
sys_unlink(t) ==
    /\ Enter(t, "unlink")
    /\ \E p \in Calls[t]["unlink"] :
         namex(t, [User EXCEPT !.call = "unlink", !.path = p, !.ret = "unlink"])
    /\ UNCHANGED <<dinode, lock, held, panic>>
unlink(t) == LockDir(t, "unlink", "unlink2")
unlink2(t) ==
    /\ At(t, "unlink2")
    /\ LET s == pc[t].cur
           i == Entry(t)
       IN IF i # None /\ IgetFails(i) THEN Panic("iget: no inodes")
          ELSE /\ \/ /\ i = None /\ lock' = Unlocked(s) /\ Iput(t, s, "user")
                     /\ UNCHANGED icache
                  \/ /\ i # None /\ iget(i)
                     /\ Goto(t, [pc[t] EXCEPT !.at = "unlink3", !.ip = Found(i)])
                     /\ UNCHANGED lock
               /\ UNCHANGED <<dinode, held, panic>>
isdirempty(i) == \A n \in Names : dinode[i].ents[n] = None
unlink3(t) ==
    /\ At(t, "unlink3") /\ Lockable(pc[t].ip)
    /\ LET s == pc[t].cur
           i == icache[s].inum
           ip == pc[t].ip
           r == Loaded(ip)
           links == icache[s].nlink - DotDot(r.type)
       IN IF IlockFails(ip) THEN Panic("ilock")
          ELSE IF r.nlink < 1 THEN Panic("unlink: nlink < 1")
          ELSE /\ \/ /\ r.type = "dir" /\ ~isdirempty(r.inum)
                     /\ icache' = [icache EXCEPT ![ip] = r]
                     /\ Iput(t, ip, "unlinkBad") /\ UNCHANGED <<dinode, lock>>
                  \/ /\ r.type = "file" \/ isdirempty(r.inum)
                     /\ icache' = [icache EXCEPT ![ip] = r, ![s].nlink = links]
                     /\ dinode' = dirlink([dinode EXCEPT ![i].nlink = links],
                                          i, Head(pc[t].path), None)
                     /\ lock' = [lock EXCEPT ![ip] = t, ![s] = None]
                     /\ Iput(t, s, "unlink4")
               /\ UNCHANGED <<held, panic>>
unlinkBad(t) ==
    /\ At(t, "unlinkBad")
    /\ lock' = Unlocked(pc[t].cur) /\ Iput(t, pc[t].cur, "user")
    /\ UNCHANGED <<dinode, icache, held, panic>>
unlink4(t) ==
    /\ At(t, "unlink4")
    /\ LET ip == pc[t].ip
           r == [icache[ip] EXCEPT !.nlink = @ - 1]
       IN /\ icache' = [icache EXCEPT ![ip] = r]
          /\ dinode' = Update(ip, r)
          /\ lock' = Unlocked(ip)
          /\ Iput(t, ip, "user")
    /\ UNCHANGED <<held, panic>>

-----------------------------------------------------------------------------
sys_link(t) ==
    /\ Enter(t, "link")
    /\ \E old, new \in Calls[t]["link"] :
         namex(t, [User EXCEPT !.call = "link", !.path = old, !.new = new, !.ret = "link"])
    /\ UNCHANGED <<dinode, lock, held, panic>>
\* The count goes up before the entry is made; then nameiparent(new) begins, whose
\* reference to the root is counted in this step.
link(t) ==
    /\ At(t, "link") /\ Lockable(pc[t].cur)
    /\ LET ip == pc[t].cur
           r == [Loaded(ip) EXCEPT !.nlink = @ + 1]
       IN IF IlockFails(ip) THEN Panic("ilock")
          ELSE /\ \/ /\ r.type = "dir" /\ Iput(t, ip, "user")
                     /\ icache' = [icache EXCEPT ![ip] = Loaded(ip)] /\ UNCHANGED dinode
                  \/ /\ r.type # "dir"
                     /\ icache' = [icache EXCEPT ![ip] = r, ![Found(ROOTINO)].ref = @ + 1]
                     /\ dinode' = Update(ip, r)
                     /\ Goto(t, [pc[t] EXCEPT !.at = "walk", !.ip = ip, !.cur = Found(ROOTINO),
                                              !.path = pc[t].new, !.new = <<>>, !.ret = "link2"])
               /\ UNCHANGED <<lock, held, panic>>
link2(t) == LockDir(t, "link2", "link3")
\* dirlink, which puts what it has found under the name.
link3(t) ==
    /\ At(t, "link3")
    /\ LET s == pc[t].cur
           i == Entry(t)
       IN IF i # None /\ IgetFails(i) THEN Panic("iget: no inodes")
          ELSE /\ \/ /\ i # None /\ iget(i) /\ Iput(t, Found(i), "linkExists")
                     /\ UNCHANGED <<dinode, lock>>
                  \/ /\ i = None
                     /\ dinode' = dirlink(dinode, icache[s].inum, Head(pc[t].path),
                                          icache[pc[t].ip].inum)
                     /\ lock' = Unlocked(s) /\ Iput(t, s, "link4")
                     /\ UNCHANGED icache
               /\ UNCHANGED <<held, panic>>
\* (Mutant: iunlock is called where iunlockput should be.)
linkKeeps(t) ==
    /\ At(t, "linkExists")
    /\ lock' = Unlocked(pc[t].cur) /\ Goto(t, [pc[t] EXCEPT !.at = "linkBad"])
    /\ UNCHANGED <<dinode, icache, held, panic>>
linkExists(t) ==
    /\ At(t, "linkExists")
    /\ lock' = Unlocked(pc[t].cur) /\ Iput(t, pc[t].cur, "linkBad")
    /\ UNCHANGED <<dinode, icache, held, panic>>
link4(t) ==
    /\ At(t, "link4") /\ Iput(t, pc[t].ip, "user")
    /\ UNCHANGED <<dinode, icache, lock, held, panic>>
UndoLink(r) == [r EXCEPT !.nlink = @ - 1]
linkBad(t) ==
    /\ At(t, "linkBad") /\ Lockable(pc[t].ip)
    /\ LET ip == pc[t].ip
           r == UndoLink(Loaded(ip))
       IN IF IlockFails(ip) THEN Panic("ilock")
          ELSE /\ icache' = [icache EXCEPT ![ip] = r]
               /\ dinode' = Update(ip, r)
               /\ Iput(t, ip, "user")
               /\ UNCHANGED <<lock, held, panic>>

Step(t) ==
    \/ walk(t) \/ look(t) \/ iput(t) \/ ifree(t) \/ iref(t) \/ opened(t)
    \/ create(t) \/ create2(t) \/ create3(t) \/ create4(t) \/ exists(t) \/ created(t)
    \/ unlink(t) \/ unlink2(t) \/ unlink3(t) \/ unlinkBad(t) \/ unlink4(t)
    \/ link(t) \/ link2(t) \/ link3(t) \/ linkExists(t) \/ link4(t) \/ linkBad(t)
Next ==
    /\ panic = ""
    /\ \E t \in Threads : \/ Step(t)
                           \/ sys_open(t) \/ close(t) \/ sys_create(t)
                           \/ sys_unlink(t) \/ sys_link(t)
Spec == Init /\ [][Next]_vars

-----------------------------------------------------------------------------
(***************************************************************************)
(* Properties.                                                             *)
(***************************************************************************)
\* No assertion of fs.c and sysfile.c fails, and neither table runs out: in
\* particular no name leads to an inode that has been freed ("ilock: no type").
NoFsPanic == panic = ""

\* An inode has one slot, "a place for synchronizing access to inodes used by
\* multiple processes".
OneSlotPerInode ==
    \A s, u \in Slot : icache[s].ref > 0 /\ icache[u].ref > 0
                        /\ icache[s].inum = icache[u].inum => s = u

\* The "i-node cache is write-through": a valid copy is what is on disk, at every
\* point of a call.
WriteThrough ==
    \A s \in Slot : icache[s].valid =>
        LET d == dinode[icache[s].inum] IN d.type = icache[s].type /\ d.nlink = icache[s].nlink

Quiet == \A t \in Threads : At(t, "user")
Entries(i) == {<<d, n>> \in Inum \X Names : dinode[d].ents[n] = i}
Children(i) == {d \in Inum : dinode[d].up = i /\ dinode[d].nlink > 0}
\* When no call is in progress the disk is as a file system check wants it: the
\* link count of an inode is the number of its names and of its subdirectories
\* that have not been removed, and no name leads to a free inode.
LinkCounts ==
    Quiet => \A i \in Inum :
        /\ dinode[i].nlink = Cardinality(Entries(i)) + Cardinality(Children(i))
        /\ dinode[i].type = "free" => dinode[i].nlink = 0

\* "iput() frees if the reference and link counts have fallen to zero": an inode
\* without links has a reference, or ialloc is about to make one.  (It does not
\* hold: iput reads ref in one critical section and counts down in another, so
\* of two threads that put the last two references neither may see one.)
NoOrphan ==
    \A i \in Inum : dinode[i].type # "free" /\ dinode[i].nlink = 0 =>
        Cached(i) # {} \/ \E t \in Threads : At(t, "create3") /\ pc[t].inum = i

\* When no call is in progress, "ip->ref tracks the number of in-memory pointers to
\* the entry" and no inode is locked.
RefsExact ==
    Quiet => \A s \in Slot :
        /\ lock[s] = None
        /\ icache[s].ref = Cardinality({t \in Threads : held[t] = s})
                           + IF icache[s].inum = ROOTINO THEN 1 ELSE 0

\* The slot whose lock thread t is about to take.
Wants(t) ==
    CASE pc[t].at \in {"walk", "opened", "create", "unlink", "link", "link2"} -> pc[t].cur
      [] pc[t].at \in {"create4", "exists", "unlink3", "linkBad"} -> pc[t].ip
      [] pc[t].at = "iput" -> pc[t].put
      [] OTHER -> None
Circle(S) == S # {} /\ \A t \in S : Wants(t) # None /\ lock[Wants(t)] \in S
\* Threads wait for each other's inodes in a circle only if one of them is in the
\* iput of a directory with which create and unlink end, while it has the lock on
\* the inode in it: every other lock is taken from the root downwards.
DeadlockOnlyInIput ==
    \A S \in SUBSET Threads : Circle(S) =>
        \E t \in S : At(t, "iput") /\ pc[t].then \in {"created", "unlink4"}

\* No threads wait for each other.  "The separation also helps avoid deadlock and
\* races during pathname lookup."  (It does not hold: see above.)
NoCircle == \A S \in SUBSET Threads : ~Circle(S)
===============================================================================
