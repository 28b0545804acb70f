-------------------------------- MODULE Blocks --------------------------------
(***************************************************************************)
(* The contents of files (fs.c): the bitmap of free blocks, the blocks of  *)
(* an inode, direct and through the indirect block, and the loops of       *)
(* filewrite and writei, which write a few blocks in each operation of the *)
(* log.                                                                    *)
(*                                                                         *)
(* A block is an array of BSIZE words, of bytes of a file or of addresses  *)
(* of blocks.  A byte is named by its file and its place in it.            *)
(*                                                                         *)
(* Grain of atomicity: an inode is locked while it is read or written, so  *)
(* what others see of these calls are the critical sections of the blocks  *)
(* of the bitmap.  Names and reference counts are the subject of Inodes    *)
(* and Files: here a thread has at most one file open, and a file is       *)
(* removed when nobody has it open.                                        *)
(***************************************************************************)
EXTENDS Integers, Sequences, FiniteSets, FiniteSetsExt

CONSTANTS
    Thread, Inode,
    NBLOCKS,            \* data blocks, from 1
    BSIZE, NDIRECT,
    BPB,                \* bits of a block of the bitmap
    MAXOPBLOCKS,        \* blocks that an operation may write
    Sizes,              \* arguments of read and write
    UINT,               \* offsets are counted modulo UINT
    None

NINDIRECT == BSIZE
MAXFILE == NDIRECT + NINDIRECT
Block == 1 .. NBLOCKS
BBLOCK(b) == (b - 1) \div BPB

ASSUME BlocksAssumption ==
    /\ {NBLOCKS, BSIZE, BPB} \subseteq Nat \ {0} /\ {NDIRECT, MAXOPBLOCKS} \subseteq Nat
    /\ Sizes \subseteq Nat \ {0} /\ UINT \in Nat /\ UINT > MAXFILE * BSIZE
    /\ \A f \in Inode : f \in Nat /\ f > NBLOCKS /\ f + 1 .. f + MAXFILE * BSIZE \cap Inode = {}

VARIABLES
    bitmap,   \* the blocks marked in use
    data,     \* contents of the blocks
    inode,    \* inodes in memory: size and addrs
    dinode,   \* inodes on disk
    lock,     \* inode -> the thread that has it locked
    file,     \* thread -> the file it has open and the offset in it
    at,       \* thread -> where it is in a call
    logged,   \* thread -> blocks that its operation has passed to log_write, but the inode
    length,   \* history: how far each file has been written
    panic
vars == <<bitmap, data, inode, dinode, lock, file, at, logged, length, panic>>

Byte(f, off) == f + off
Zeros == [i \in 0 .. BSIZE - 1 |-> 0]
\* What a free block holds may be anything but zeros; these are bytes and addresses.
Stale == [i \in 0 .. BSIZE - 1 |-> 1]
Empty == [size |-> 0, addrs |-> [i \in 0 .. NDIRECT |-> 0]]
\* n bytes are left of a write, n1 in this operation, of which tot are done; i is the
\* block of the bitmap that balloc looks at, or the entry that itrunc is at.
User == [pc |-> "user", ip |-> None, n |-> 0, n1 |-> 0, tot |-> 0, i |-> 0]

TypeOK ==
    /\ bitmap \subseteq Block /\ data \in [Block -> [0 .. BSIZE - 1 -> Nat]]
    /\ {inode, dinode} \subseteq
         [Inode -> [size : 0 .. MAXFILE * BSIZE, addrs : [0 .. NDIRECT -> Block \cup {0}]]]
    /\ lock \in [Inode -> Thread \cup {None}]
    /\ file \in [Thread -> [ip : Inode, off : 0 .. MAXFILE * BSIZE] \cup {None}]
    /\ at \in [Thread -> [pc : {"user", "balloc", "writei", "filewrite", "itrunc"},
                          ip : Inode \cup {None}, n : Nat, n1 : Nat, tot : Nat, i : Nat]]
    /\ logged \in [Thread -> SUBSET ({"bitmap", "data"} \X (0 .. NBLOCKS))]
    /\ length \in [Inode -> 0 .. MAXFILE * BSIZE]
    /\ panic \in {"", "balloc: out of blocks", "freeing free block"}

Init ==
    /\ bitmap = {} /\ data = [b \in Block |-> Stale]
    /\ inode = [f \in Inode |-> Empty] /\ dinode = inode
    /\ lock = [f \in Inode |-> None]
    /\ file = [t \in Thread |-> None]
    /\ at = [t \in Thread |-> User]
    /\ logged = [t \in Thread |-> {}]
    /\ length = [f \in Inode |-> 0] /\ panic = ""

Goto(t, fr) == at' = [at EXCEPT ![t] = fr]
log_write(t, bs) == logged' = [logged EXCEPT ![t] = @ \cup bs]

-----------------------------------------------------------------------------
(***************************************************************************)
(* Blocks: balloc, bfree, bmap.                                            *)
(***************************************************************************)
\* The address of block bn of a file, 0 if it has none; where bmap looks for it.
Slot(ip, bn) == IF bn < NDIRECT THEN "direct"
                ELSE IF ip.addrs[NDIRECT] = 0 THEN "indirect" ELSE "entry"
bmap(ip, bn) ==
    CASE Slot(ip, bn) = "direct" -> ip.addrs[bn]
      [] Slot(ip, bn) = "indirect" -> 0
      [] Slot(ip, bn) = "entry" -> data[ip.addrs[NDIRECT]][bn - NDIRECT]

\* Mutant: the block is not cleared.
bzeroNot(b) == data
bzero(b) == [data EXCEPT ![b] = Zeros]

\* bmap puts the new block b where it has found none, and keeps the indirect
\* block locked while it allocates an entry of it.
Allocated(t, b) ==
    LET f == at[t].ip
        bn == (file[t].off + at[t].tot) \div BSIZE
        ind == inode[f].addrs[NDIRECT]
        log == {<<"bitmap", BBLOCK(b)>>, <<"data", b>>}
    IN \/ /\ Slot(inode[f], bn) # "entry"
          /\ inode' = [inode EXCEPT ![f].addrs[Min({bn, NDIRECT})] = b]
          /\ data' = bzero(b)
          /\ log_write(t, log)
       \/ /\ Slot(inode[f], bn) = "entry"
          /\ data' = [bzero(b) EXCEPT ![ind][bn - NDIRECT] = b]
          /\ log_write(t, log \cup {<<"data", ind>>})
          /\ UNCHANGED inode

\* A block of the bitmap at a time: the first free block in it, or on to the next.
balloc(t) ==
    /\ at[t].pc = "balloc"
    /\ LET free == {b \in Block \ bitmap : BBLOCK(b) = at[t].i} IN
       \/ /\ free # {}
          /\ bitmap' = bitmap \cup {Min(free)}
          /\ Allocated(t, Min(free))
          /\ Goto(t, [at[t] EXCEPT !.pc = "writei"])
          /\ UNCHANGED panic
       \/ /\ free = {}
          /\ IF at[t].i < BBLOCK(NBLOCKS)
             THEN Goto(t, [at[t] EXCEPT !.i = @ + 1]) /\ UNCHANGED panic
             ELSE panic' = "balloc: out of blocks" /\ UNCHANGED at
          /\ UNCHANGED <<bitmap, data, inode, logged>>
    /\ UNCHANGED <<dinode, lock, file, length>>

bfree(t, b) ==
    /\ bitmap' = bitmap \ {b} /\ data' = [data EXCEPT ![b] = Stale]
    /\ panic' = IF b \in bitmap THEN panic ELSE "freeing free block"
    /\ log_write(t, {<<"bitmap", BBLOCK(b)>>})

-----------------------------------------------------------------------------
(***************************************************************************)
(* filewrite and writei.                                                   *)
(***************************************************************************)
\* Mutant: no blocks are set aside for a write that is not aligned.
maxWithoutSlop == ((MAXOPBLOCKS - 1 - 1) \div 2) * BSIZE
max == ((MAXOPBLOCKS - 1 - 1 - 2) \div 2) * BSIZE

\* The first test of readi and of writei.
OutOfRange(ip, off, n) == off > ip.size \/ (off + n) % UINT < off

\* An operation, with n bytes to go: ilock; writei refuses what does not fit.
filewrite(t, n) ==
    LET f == file[t].ip
        n1 == Min({n, max})
    IN
    /\ lock[f] = None
    /\ IF OutOfRange(inode[f], file[t].off, n1) \/ file[t].off + n1 > MAXFILE * BSIZE
       THEN Goto(t, User) /\ UNCHANGED lock
       ELSE /\ Goto(t, [User EXCEPT !.pc = "writei", !.ip = f, !.n = n, !.n1 = n1])
            /\ lock' = [lock EXCEPT ![f] = t]
    /\ UNCHANGED <<bitmap, data, inode, dinode, file, logged, length, panic>>

sys_write(t) == at[t].pc = "user" /\ file[t] # None /\ \E n \in Sizes : filewrite(t, n)
writeMore(t) == at[t].pc = "filewrite" /\ filewrite(t, at[t].n)

\* A round of the loop of writei, up to the end of a block.
writei(t) ==
    /\ at[t].pc = "writei" /\ at[t].tot < at[t].n1
    /\ LET off == file[t].off + at[t].tot
           b == bmap(inode[at[t].ip], off \div BSIZE)
           m == Min({at[t].n1 - at[t].tot, BSIZE - (off % BSIZE)})
           new == (off % BSIZE) .. (off % BSIZE) + m - 1
       IN IF b = 0
          THEN /\ Goto(t, [at[t] EXCEPT !.pc = "balloc", !.i = 0])
               /\ UNCHANGED <<data, logged>>
          ELSE /\ data' = [data EXCEPT ![b] = [i \in DOMAIN @ |->
                     IF i \in new THEN Byte(at[t].ip, off + i - (off % BSIZE)) ELSE @[i]]]
               /\ log_write(t, {<<"data", b>>})
               /\ Goto(t, [at[t] EXCEPT !.tot = @ + m])
    /\ UNCHANGED <<bitmap, inode, dinode, lock, file, length, panic>>

\* Mutant: the inode on disk is not written.
iupdateNot(f, ip) == UNCHANGED dinode
iupdate(f, ip) == dinode' = [dinode EXCEPT ![f] = ip]

\* The end of writei, and of the operation.
endWrite(t) ==
    /\ at[t].pc = "writei" /\ at[t].tot = at[t].n1
    /\ LET f == at[t].ip
           end == file[t].off + at[t].n1
           ip == [inode[f] EXCEPT !.size = end]
       IN /\ IF end > inode[f].size
             THEN inode' = [inode EXCEPT ![f] = ip] /\ iupdate(f, ip)
             ELSE UNCHANGED <<inode, dinode>>
          /\ length' = [length EXCEPT ![f] = Max({@, end})]
          /\ file' = [file EXCEPT ![t].off = end]
          /\ lock' = [lock EXCEPT ![f] = None]
          /\ logged' = [logged EXCEPT ![t] = {}]
          /\ Goto(t, IF at[t].n = at[t].n1 THEN User
                     ELSE [User EXCEPT !.pc = "filewrite", !.ip = f, !.n = at[t].n - at[t].n1])
    /\ UNCHANGED <<bitmap, data, panic>>

-----------------------------------------------------------------------------
(***************************************************************************)
(* fileread, open, close, and itrunc when a file is removed.               *)
(***************************************************************************)
\* The loop of readi, up to the end of a block in each round.
RECURSIVE Chunks(_, _, _)
Chunks(ip, off, n) ==
    IF n = 0 THEN <<>>
    ELSE LET m == Min({n, BSIZE - (off % BSIZE)})
             bp == data[bmap(ip, off \div BSIZE)]
         IN [k \in 1 .. m |-> bp[(off % BSIZE) + k - 1]] \o Chunks(ip, off + m, n - m)

\* readi: the n bytes at off, or up to the end of the file; nothing on an error.
readi(ip, off, n) ==
    IF OutOfRange(ip, off, n) THEN <<>> ELSE Chunks(ip, off, Min({n, ip.size - off}))

fileread(t, n) ==
    /\ at[t].pc = "user" /\ file[t] # None /\ lock[file[t].ip] = None
    /\ file' = [file EXCEPT ![t].off = @ + Len(readi(inode[file[t].ip], @, n))]
    /\ UNCHANGED <<bitmap, data, inode, dinode, lock, at, logged, length, panic>>

\* An inode that nobody has open has lost its slot: ilock reads it again.
Opened(f) == \E t \in Thread : file[t] # None /\ file[t].ip = f
open(t, f) ==
    /\ at[t].pc = "user" /\ file[t] = None /\ lock[f] = None
    /\ file' = [file EXCEPT ![t] = [ip |-> f, off |-> 0]]
    /\ inode' = IF Opened(f) THEN inode ELSE [inode EXCEPT ![f] = dinode[f]]
    /\ UNCHANGED <<bitmap, data, dinode, lock, at, logged, length, panic>>

close(t) ==
    /\ at[t].pc = "user" /\ file[t] # None
    /\ file' = [file EXCEPT ![t] = None]
    /\ UNCHANGED <<bitmap, data, inode, dinode, lock, at, logged, length, panic>>

\* iput of the last reference to a file that has no name.
iput(t, f) ==
    /\ at[t].pc = "user" /\ ~Opened(f) /\ lock[f] = None /\ dinode[f].size > 0
    /\ inode' = [inode EXCEPT ![f] = dinode[f]]
    /\ lock' = [lock EXCEPT ![f] = t]
    /\ Goto(t, [User EXCEPT !.pc = "itrunc", !.ip = f])
    /\ UNCHANGED <<bitmap, data, dinode, file, logged, length, panic>>

\* The loops of itrunc, a block at a time: the direct blocks, ...
Direct(ip) == {k \in 0 .. NDIRECT - 1 : ip.addrs[k] # 0}
truncDirect(t) ==
    /\ at[t].pc = "itrunc" /\ Direct(inode[at[t].ip]) # {}
    /\ LET f == at[t].ip
           k == Min(Direct(inode[f]))
       IN bfree(t, inode[f].addrs[k]) /\ inode' = [inode EXCEPT ![f].addrs[k] = 0]
    /\ UNCHANGED <<dinode, lock, file, at, length>>

\* ... the entries of the indirect block, ...
Entries(ip, j) == {k \in j .. NINDIRECT - 1 : data[ip.addrs[NDIRECT]][k] # 0}
truncEntry(t) ==
    LET ip == inode[at[t].ip] IN
    /\ at[t].pc = "itrunc" /\ Direct(ip) = {} /\ ip.addrs[NDIRECT] # 0
    /\ Entries(ip, at[t].i) # {}
    /\ LET j == Min(Entries(ip, at[t].i)) IN
       bfree(t, data[ip.addrs[NDIRECT]][j]) /\ Goto(t, [at[t] EXCEPT !.i = j + 1])
    /\ UNCHANGED <<inode, dinode, lock, file, length>>

\* ... and the indirect block itself.
truncIndirect(t) ==
    LET ip == inode[at[t].ip] IN
    /\ at[t].pc = "itrunc" /\ Direct(ip) = {} /\ ip.addrs[NDIRECT] # 0
    /\ Entries(ip, at[t].i) = {}
    /\ bfree(t, ip.addrs[NDIRECT])
    /\ inode' = [inode EXCEPT ![at[t].ip].addrs[NDIRECT] = 0]
    /\ UNCHANGED <<dinode, lock, file, at, length>>

truncEnd(t) ==
    /\ at[t].pc = "itrunc" /\ \A k \in 0 .. NDIRECT : inode[at[t].ip].addrs[k] = 0
    /\ LET f == at[t].ip IN
       /\ inode' = [inode EXCEPT ![f].size = 0]
       /\ iupdate(f, Empty)
       /\ length' = [length EXCEPT ![f] = 0]
       /\ lock' = [lock EXCEPT ![f] = None]
    /\ logged' = [logged EXCEPT ![t] = {}]
    /\ Goto(t, User)
    /\ UNCHANGED <<bitmap, data, file, panic>>

Step(t) ==
    \/ sys_write(t) \/ writeMore(t) \/ writei(t) \/ balloc(t) \/ endWrite(t)
    \/ \E n \in Sizes : fileread(t, n)
    \/ close(t) \/ \E f \in Inode : open(t, f) \/ iput(t, f)
    \/ truncDirect(t) \/ truncEntry(t) \/ truncIndirect(t) \/ truncEnd(t)

Next == panic = "" /\ \E t \in Thread : Step(t)

Spec == Init /\ [][Next]_vars

-----------------------------------------------------------------------------
(***************************************************************************)
(* Properties.                                                             *)
(***************************************************************************)
\* The blocks of a file, as a bag of one for each place they are found in; the
\* entries that itrunc has passed are not counted.
Places(f) ==
    LET ip == inode[f]
        passed == IF lock[f] # None /\ at[lock[f]].pc = "itrunc" THEN at[lock[f]].i ELSE 0
    IN {<<k, ip.addrs[k]>> : k \in {k \in 0 .. NDIRECT : ip.addrs[k] # 0}}
       \cup IF ip.addrs[NDIRECT] = 0 THEN {}
            ELSE {<<NDIRECT + 1 + k, data[ip.addrs[NDIRECT]][k]>> : k \in Entries(ip, passed)}

\* Every block has one use: it is free, or in one place of one file.  So
\* no file overwrites another, nothing is freed twice and nothing lost,
\* whoever allocates while others free.
BlocksAccounted ==
    LET Uses == UNION {{<<f, p[1], p[2]>> : p \in Places(f)} : f \in Inode} IN
    /\ bitmap = {u[3] : u \in Uses}
    /\ Cardinality(Uses) = Cardinality(bitmap)
    /\ panic # "freeing free block"

\* A file holds what has been written to it, and only that, from every offset to
\* the end, in memory while it is open and on disk when it is not, however writes
\* and reads were cut in operations and in blocks and whoever had the blocks
\* before.
ReadsWritten ==
    \A f \in Inode : lock[f] = None =>
        LET ip == IF Opened(f) THEN inode[f] ELSE dinode[f] IN
        /\ \A k \in 0 .. ip.size - 1 : bmap(ip, k \div BSIZE) # 0
        /\ \A off \in 0 .. ip.size :
              readi(ip, off, ip.size) = [k \in 1 .. length[f] - off |-> Byte(f, off + k - 1)]

\* No operation writes more blocks than begin_op has set aside for it, the inode
\* included ("to avoid exceeding the maximum log transaction size").
OperationFits ==
    \A t \in Thread : logged[t] # {} =>
        Cardinality(logged[t] \cup {<<"inode", at[t].ip>>}) <= MAXOPBLOCKS
===============================================================================
