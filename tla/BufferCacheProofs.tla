--------------------------- MODULE BufferCacheProofs ---------------------------
(***************************************************************************)
(* The buffer cache for every number of threads, blocks and buffers: the   *)
(* holder of a buffer is alone with it, it sees the latest contents of its *)
(* block, and no wakeup is lost, whoever is killed or ended meanwhile.     *)
(*                                                                         *)
(* A buffer must not be recycled under a thread that has found it and not  *)
(* yet locked it: its reference count is the number of its users (RefsOK). *)
(* A block has one buffer (OneBufferPerBlock), so what a holder changes is *)
(* the only copy.  The requests are those of holders that wait in iderw    *)
(* (QueueOK), so the disk works on no buffer that somebody changes.  From  *)
(* this follows that a valid or dirty buffer has the latest contents, and  *)
(* that the disk has them for every other block (ContentsOK).              *)
(***************************************************************************)
EXTENDS BufferCache, FiniteSetTheorems, TLAPS

Users(b) == {t \in Clients : pc[t] # "out" /\ cur[t] = b}
Elems(q) == {q[i] : i \in 1 .. Len(q)}
Distinct(q) == \A i, j \in 1 .. Len(q) : q[i] = q[j] => i = j

CacheTypeOK ==
    /\ block \in [Bufs -> Blocks \cup {NoBlock}]
    /\ valid \subseteq Bufs /\ dirty \subseteq Bufs /\ locked \subseteq Bufs
    /\ refcnt \in [Bufs -> Nat] /\ list \in [Bufs -> Bufs]
    /\ pc \in [Clients -> Point] /\ cur \in [Clients -> Bufs]
    /\ want \in [Clients -> Blocks \cup {NoBlock}] /\ dead \subseteq Clients

RefsOK == \A b \in Bufs : refcnt[b] = Cardinality(Users(b))

LocksOK ==
    /\ HolderAlone
    /\ \A t \in Clients : /\ pc[t] \in Locked => cur[t] \in locked
                          /\ pc[t] # "out" => want[t] \in Blocks
                          /\ pc[t] = "locksleep" /\ t \notin dead => cur[t] \in locked

Waits(t) == pc[t] \in {"idesleep", "idecheck"}
QueueOK ==
    /\ idequeue \in Seq(Bufs) /\ Distinct(idequeue)
    /\ active = IF idequeue = <<>> THEN NoBuf ELSE Head(idequeue)
    /\ \A b \in Elems(idequeue) : /\ ~Synced(b)
                                  /\ \E t \in Clients : cur[t] = b /\ Waits(t)
    /\ \A t \in Clients :
          /\ pc[t] = "idesleep" /\ t \notin dead => cur[t] \in Elems(idequeue)
          /\ pc[t] = "idecheck" /\ ~Synced(cur[t]) => cur[t] \in Elems(idequeue)

IInv == CacheTypeOK /\ RefsOK /\ LocksOK /\ OneBufferPerBlock /\ QueueOK

\* The latest contents of the block of b are in b, or about to be written.
InHand(b) == b \in dirty \/ \E t \in Clients : pc[t] = "modified" /\ cur[t] = b
ContentsOK ==
    /\ ReadsLatest
    /\ \A b \in valid \cup dirty : b \in fresh
    /\ \A B \in Blocks \ disk : \E b \in Bufs : block[b] = B /\ InHand(b)
    /\ active # NoBuf /\ active \in dirty => block[active] \in disk

-----------------------------------------------------------------------------
\* Zenon proves the steps that name no other prover.
USE Zenon

\* The queue of requests as a set: a request at the end adds its buffer.
LEMMA AppendElems ==
    ASSUME NEW S, NEW q \in Seq(S), NEW b \in S, Distinct(q), b \notin Elems(q)
    PROVE  /\ Append(q, b) \in Seq(S) /\ Distinct(Append(q, b)) /\ Append(q, b) # <<>>
           /\ Elems(Append(q, b)) = Elems(q) \cup {b}
           /\ Head(Append(q, b)) = IF q = <<>> THEN b ELSE Head(q)
  <1>1. /\ Append(q, b) \in Seq(S) /\ Len(q) \in Nat /\ Len(Append(q, b)) = Len(q) + 1
        /\ \A i \in 1 .. Len(q) : Append(q, b)[i] = q[i]
        /\ Append(q, b)[Len(q) + 1] = b
    BY SMT
  <1>2. Elems(Append(q, b)) = Elems(q) \cup {b}
    BY <1>1, SMT DEF Elems
  <1>3. Distinct(Append(q, b))
    BY <1>1, SMT DEF Distinct, Elems
  <1>4. Head(Append(q, b)) = IF q = <<>> THEN b ELSE Head(q)
    BY <1>1, SMT
  <1>5. Append(q, b) # <<>>
    BY <1>1, SMT
  <1> QED  BY <1>1, <1>2, <1>3, <1>4, <1>5

\* The end of a request takes the first one away.
LEMMA TailElems ==
    ASSUME NEW S, NEW q \in Seq(S), q # <<>>, Distinct(q)
    PROVE  /\ Tail(q) \in Seq(S) /\ Distinct(Tail(q))
           /\ Head(q) \in Elems(q) /\ Head(q) \in S
           /\ Elems(Tail(q)) = Elems(q) \ {Head(q)}
  <1>1. /\ Tail(q) \in Seq(S) /\ Len(q) \in Nat \ {0} /\ Len(Tail(q)) = Len(q) - 1
        /\ \A i \in 1 .. Len(q) - 1 : Tail(q)[i] = q[i + 1]
        /\ Head(q) = q[1] /\ q[1] \in S
    BY SMT
  <1>2. Distinct(Tail(q))
    BY <1>1, SMT DEF Distinct
  <1>3. Head(q) \in Elems(q)
    BY <1>1, SMT DEF Elems
  <1>4. ASSUME NEW x \in Elems(Tail(q)) PROVE x \in Elems(q) \ {Head(q)}
    BY <1>1, SMT DEF Elems, Distinct
  <1>5. ASSUME NEW x \in Elems(q) \ {Head(q)} PROVE x \in Elems(Tail(q))
    <2>1. PICK i \in 1 .. Len(q) : q[i] = x  BY DEF Elems
    <2>2. i - 1 \in 1 .. Len(Tail(q)) /\ Tail(q)[i - 1] = x  BY <1>1, <2>1, SMT
    <2> QED  BY <2>2 DEF Elems
  <1> QED  BY <1>1, <1>2, <1>3, <1>4, <1>5

\* A buffer has finitely many users.
LEMMA UsersFinite ==
    ASSUME NEW b PROVE IsFiniteSet(Users(b)) /\ Cardinality(Users(b)) \in Nat
  <1>1. Users(b) \subseteq Clients  BY DEF Users
  <1>2. IsFiniteSet(Users(b))  BY <1>1, CacheAssumption, FS_Subset
  <1> QED  BY <1>2, FS_CardinalityType

\* A buffer that bget may recycle has no user.
LEMMA UnusedNoUser ==
    ASSUME RefsOK, NEW b \in Bufs, refcnt[b] = 0 PROVE Users(b) = {}
  BY UsersFinite, FS_EmptySet DEF RefsOK

\* The queue that the driver starts with has no requests.
LEMMA EmptyQueue == <<>> \in Seq(Bufs) /\ Elems(<<>>) = {} /\ Distinct(<<>>)
  BY SMT DEF Elems, Distinct

\* A step that moves clients between points inside the cache keeps the counts.
LEMMA SameUsers ==
    ASSUME RefsOK, refcnt' = refcnt, cur' = cur,
           \A t \in Clients : pc'[t] = "out" <=> pc[t] = "out"
    PROVE  RefsOK'
  <1>1. \A b : Users(b)' = Users(b)  BY DEF Users
  <1> QED  BY <1>1 DEF RefsOK

\* A panic changes nothing that the invariant is about.
LEMMA PanicKeeps ==
    ASSUME IInv, NEW msg, Panic(msg) PROVE IInv'
  <1> USE DEF IInv, Panic, bufVars, lockVars, ideVars
  <1>1. CacheTypeOK' /\ LocksOK' /\ OneBufferPerBlock'
    BY DEF CacheTypeOK, LocksOK, HolderAlone, OneBufferPerBlock
  <1>2. RefsOK'
    BY SameUsers
  <1>3. QueueOK'
    BY SMT DEF QueueOK, Waits, Synced, Elems, Distinct
  <1> QED  BY <1>1, <1>2, <1>3

-----------------------------------------------------------------------------
\* bget takes one more reference, to a buffer of the block or to one without users.
LEMMA BgetKeeps ==
    ASSUME IInv, NEW t \in Clients, NEW B \in Blocks, bget(t, B) PROVE IInv'
  <1> USE DEF IInv
  <1>1. CASE Panic("bget: no buffers")
    BY <1>1, PanicKeeps
  <1>2. CASE ~Panic("bget: no buffers")
    <2>0. /\ pc[t] = "out" /\ t \notin dead /\ pc' = [pc EXCEPT ![t] = "acquire"]
          /\ want' = [want EXCEPT ![t] = B]
          /\ UNCHANGED <<locked, list, idequeue, active, dead>>
      BY <1>2 DEF bget, At, Goto, lockVars, ideVars
    <2>1. PICK b \in Bufs :
            /\ cur' = [cur EXCEPT ![t] = b]
            /\ \/ /\ block[b] = B /\ refcnt' = [refcnt EXCEPT ![b] = @ + 1]
                  /\ UNCHANGED <<block, valid, dirty>>
               \/ /\ \A c \in Bufs : block[c] # B
                  /\ refcnt[b] = 0 /\ refcnt' = [refcnt EXCEPT ![b] = 1]
                  /\ block' = [block EXCEPT ![b] = B]
                  /\ valid' = valid \ {b} /\ dirty' = dirty \ {b}
      BY <1>2 DEF bget, CacheTypeOK, IsFirst, IsLast, Cached, Unused
    <2>2. CacheTypeOK'
      BY <2>0, <2>1, SMT DEF CacheTypeOK, Point
    <2>3. /\ Users(b)' = Users(b) \cup {t} /\ t \notin Users(b)
          /\ \A c \in Bufs \ {b} : Users(c)' = Users(c)
      BY <2>0, <2>1, SMT DEF CacheTypeOK, Users
    <2>4. Cardinality(Users(b) \cup {t}) = Cardinality(Users(b)) + 1
      BY <2>3, UsersFinite, FS_AddElement
    <2>5. RefsOK'
      <3>1. refcnt'[b] = refcnt[b] + 1 /\ \A c \in Bufs \ {b} : refcnt'[c] = refcnt[c]
        BY <2>1, SMT DEF CacheTypeOK
      <3>2. refcnt'[b] = Cardinality(Users(b)')
        BY <3>1, <2>3, <2>4 DEF RefsOK
      <3>3. \A c \in Bufs \ {b} : refcnt'[c] = Cardinality(Users(c)')
        BY <3>1, <2>3 DEF RefsOK
      <3> QED  BY <3>2, <3>3 DEF RefsOK
    <2>6. block' # block \/ valid' # valid \/ dirty' # dirty
             => \A u \in Clients : pc[u] # "out" => cur[u] # b
      BY <2>1, UnusedNoUser DEF Users
    <2>7. \A u \in Clients : u # t => pc'[u] = pc[u] /\ cur'[u] = cur[u] /\ want'[u] = want[u]
      BY <2>0, <2>1 DEF CacheTypeOK
    <2>8. pc'[t] = "acquire" /\ cur'[t] = b /\ want'[t] = B /\ block'[b] = B
      BY <2>0, <2>1, ZenonT(60) DEF CacheTypeOK
    <2>9. LocksOK'
      BY <2>0, <2>1, <2>6, <2>7, <2>8, SMT
         DEF CacheTypeOK, LocksOK, HolderAlone, Locked, Using, InIderw
    <2>10. OneBufferPerBlock'
      BY <2>1, SMT DEF CacheTypeOK, OneBufferPerBlock
    <2>11. QueueOK'
      <3>1. \A u \in Clients : Waits(u) => u # t /\ cur'[u] = cur[u] /\ Waits(u)'
                                                /\ (Synced(cur[u])' <=> Synced(cur[u]))
        BY <2>0, <2>1, <2>6, <2>7 DEF Waits, Synced
      <3>2. \A u \in Clients : Waits(u)' => Waits(u) /\ pc'[u] = pc[u]
        BY <2>0, <2>7, <2>8 DEF Waits
      <3>3. idequeue' = idequeue /\ active' = active /\ dead' = dead  BY <2>0, <2>1
      <3>4. ASSUME NEW x \in Elems(idequeue)
            PROVE  ~Synced(x)' /\ \E u \in Clients : cur'[u] = x /\ Waits(u)'
        <4>1. PICK u \in Clients : cur[u] = x /\ Waits(u)  BY DEF QueueOK
        <4>2. ~Synced(cur[u])  BY <4>1 DEF QueueOK
        <4>3. cur'[u] = x /\ Waits(u)' /\ ~Synced(x)'  BY <3>1, <4>1, <4>2
        <4> QED  BY <4>3
      <3>5. ASSUME NEW u \in Clients, Waits(u)'
            PROVE  /\ pc'[u] = "idesleep" /\ u \notin dead' => cur'[u] \in Elems(idequeue)
                   /\ pc'[u] = "idecheck" /\ ~Synced(cur[u])' => cur'[u] \in Elems(idequeue)
        BY <3>1, <3>2, <3>3, <3>5 DEF QueueOK
      <3>6. \A u \in Clients : Waits(u)' => cur'[u] = cur[u]  BY <3>1, <3>2
      <3>7. Elems(idequeue)' = Elems(idequeue) /\ Distinct(idequeue)' = Distinct(idequeue)
        BY <3>3 DEF Elems, Distinct
      <3> QED  BY <3>3, <3>4, <3>5, <3>6, <3>7 DEF QueueOK, Waits
    <2> QED  BY <2>2, <2>5, <2>9, <2>10, <2>11
  <1> QED  BY <1>1, <1>2

\* The steps that move one client from l to m, both inside the cache, without the
\* lock and the disk queue: the queue is as good as before if the client does not
\* stop waiting while its request is queued, or start without one.
LEMMA QueueUnmoved ==
    ASSUME IInv, NEW t \in Clients, pc' = [pc EXCEPT ![t] = pc'[t]],
           UNCHANGED <<idequeue, active, cur, dead>>,
           \A b \in Elems(idequeue) : Synced(b)' <=> Synced(b),
           \A u \in Clients \ {t} : Waits(u) => (Synced(cur[u])' <=> Synced(cur[u])),
           Waits(t) /\ cur[t] \in Elems(idequeue) => Waits(t)',
           Waits(t)' => cur[t] \in Elems(idequeue) \/ (Synced(cur[t])' /\ pc'[t] = "idecheck")
    PROVE  QueueOK'
  <1>1. Elems(idequeue)' = Elems(idequeue) /\ Distinct(idequeue)' /\ idequeue' \in Seq(Bufs)
    BY SMT DEF IInv, QueueOK, Elems, Distinct
  <1>2. \A u \in Clients \ {t} : pc'[u] = pc[u] /\ (Waits(u)' <=> Waits(u))
    BY DEF IInv, CacheTypeOK, Waits
  <1>3. \A b \in Elems(idequeue) : ~Synced(b)' /\ \E u \in Clients : cur'[u] = b /\ Waits(u)'
    BY <1>2, ZenonT(60) DEF IInv, QueueOK
  <1>4. \A u \in Clients :
          /\ pc'[u] = "idesleep" /\ u \notin dead' => cur'[u] \in Elems(idequeue)
          /\ pc'[u] = "idecheck" /\ ~Synced(cur[u])' => cur'[u] \in Elems(idequeue)
    BY <1>2 DEF IInv, QueueOK, Waits
  <1>5. active' = IF idequeue' = <<>> THEN NoBuf ELSE Head(idequeue')
    BY DEF IInv, QueueOK
  <1> QED  BY <1>1, <1>3, <1>4, <1>5 DEF QueueOK, Synced

\* acquiresleep takes a free lock, or sleeps for one that is held.
LEMMA AcquiresleepKeeps ==
    ASSUME IInv, NEW t \in Clients, acquiresleep(t) PROVE IInv'
  <1> USE DEF IInv
  <1>0. /\ pc[t] = "acquire" /\ UNCHANGED <<block, valid, dirty, refcnt, list, idequeue,
                                           active, cur, want, dead>>
        /\ \/ /\ cur[t] \in locked /\ locked' = locked
              /\ pc' = [pc EXCEPT ![t] = "locksleep"]
           \/ /\ cur[t] \notin locked /\ locked' = locked \cup {cur[t]}
              /\ pc' = [pc EXCEPT ![t] = "locked"]
    BY DEF acquiresleep, At, Goto, bufVars, lockVars, ideVars
  <1>1. CacheTypeOK' /\ OneBufferPerBlock'
    BY <1>0 DEF CacheTypeOK, Point, Locked, OneBufferPerBlock
  <1>2. RefsOK'
    BY <1>0, SameUsers DEF CacheTypeOK
  <1>3. LocksOK'
    BY <1>0, SMT DEF CacheTypeOK, LocksOK, HolderAlone, Locked, Using, InIderw
  <1>4. QueueOK'
    BY <1>0, QueueUnmoved DEF CacheTypeOK, Waits, Synced
  <1> QED  BY <1>1, <1>2, <1>3, <1>4

\* A client that has the lock goes from one point to another and keeps it; it may
\* make its buffer dirty while it does not wait for the disk.
LEMMA HolderMoves ==
    ASSUME IInv, NEW t \in Clients, NEW m \in Locked, pc[t] \in Locked,
           pc' = [pc EXCEPT ![t] = m],
           UNCHANGED <<block, valid, refcnt, locked, list, idequeue, active, cur, want, dead>>,
           dirty' = dirty \/ (dirty' = dirty \cup {cur[t]} /\ ~Waits(t)),
           m # "idecheck",
           Waits(t) => m = IF Synced(cur[t]) THEN "using" ELSE "idesleep",
           m = "idesleep" => pc[t] = "idecheck"
    PROVE  IInv'
  <1> USE DEF IInv
  <1>1. CacheTypeOK' /\ OneBufferPerBlock'
    BY DEF CacheTypeOK, Point, OneBufferPerBlock
  <1>2. RefsOK'
    BY SameUsers DEF CacheTypeOK, Locked, Using, InIderw
  <1>3. LocksOK'
    BY ZenonT(60) DEF CacheTypeOK, LocksOK, HolderAlone, Locked, Using, InIderw
  <1>4. \A u \in Clients : Waits(u) /\ u # t => cur[u] # cur[t]
    BY DEF LocksOK, HolderAlone, Waits, Locked, InIderw
  <1>5. QueueOK'
    BY <1>4, QueueUnmoved, SMT DEF CacheTypeOK, QueueOK, Waits, Synced
  <1> QED  BY <1>1, <1>2, <1>3, <1>5

\* releasesleep frees the lock of its only holder and wakes all who sleep for it.
LEMMA ReleasesleepKeeps ==
    ASSUME IInv, NEW t \in Clients, releasesleep(t) PROVE IInv'
  <1> USE DEF IInv
  <1>1. CASE Panic("brelse")
    BY <1>1, PanicKeeps
  <1>2. CASE ~Panic("brelse")
    <2>0. /\ pc[t] = "using" /\ locked' = locked \ {cur[t]}
          /\ pc' = [Woken(cur[t], "locksleep", "acquire") EXCEPT ![t] = "released"]
          /\ UNCHANGED <<block, valid, dirty, refcnt, list, idequeue, active, cur, want, dead>>
      BY <1>2 DEF releasesleep, At, bufVars, ideVars
    <2>1. /\ pc'[t] = "released"
          /\ \A u \in Clients \ {t} :
                pc'[u] = IF pc[u] = "locksleep" /\ cur[u] = cur[t] /\ u \notin dead
                         THEN "acquire" ELSE pc[u]
      BY <2>0 DEF Woken
    <2>2. CacheTypeOK' /\ OneBufferPerBlock'
      BY <2>0 DEF CacheTypeOK, Woken, Point, OneBufferPerBlock
    <2>3. RefsOK'
      BY <2>0, <2>1, SameUsers, SMT
    <2>4. LocksOK'
      BY <2>0, <2>1, SMT DEF LocksOK, HolderAlone, Locked, Using, InIderw
    <2>5. \A u \in Clients : Waits(u)' <=> Waits(u)
      BY <2>0, <2>1, SMTT(30) DEF Waits
    <2>6. QueueOK'
      <3>1. Elems(idequeue)' = Elems(idequeue) /\ Distinct(idequeue)'
        BY <2>0, SMT DEF QueueOK, Elems, Distinct
      <3>2. \A u \in Clients : Waits(u) => pc'[u] = pc[u]
        BY <2>0, <2>1 DEF Waits
      <3>3. \A c \in Elems(idequeue)' : ~Synced(c)' /\ \E u \in Clients : cur'[u] = c /\ Waits(u)'
        BY <2>0, <2>5, <3>1 DEF QueueOK, Synced
      <3>4. \A u \in Clients :
              /\ pc'[u] = "idesleep" /\ u \notin dead' => cur'[u] \in Elems(idequeue)'
              /\ pc'[u] = "idecheck" /\ ~Synced(cur[u])' => cur'[u] \in Elems(idequeue)'
        BY <2>0, <2>5, <3>1, <3>2 DEF QueueOK, Waits, Synced
      <3> QED  BY <2>0, <3>1, <3>3, <3>4 DEF QueueOK
    <2> QED  BY <2>2, <2>3, <2>4, <2>6
  <1> QED  BY <1>1, <1>2

\* brelse gives a reference back, and the buffer stays in the list.
LEMMA BrelseKeeps ==
    ASSUME IInv, NEW t \in Clients, brelse(t) PROVE IInv'
  <1> USE DEF IInv
  <1>0. PICK b \in Bufs : b = cur[t]  BY DEF CacheTypeOK
  <1>1. /\ pc[t] = "released" /\ pc' = [pc EXCEPT ![t] = "out"]
        /\ refcnt' = [refcnt EXCEPT ![b] = @ - 1]
        /\ list' = ToFront(b) \/ list' = list
        /\ want' = [want EXCEPT ![t] = NoBlock]
        /\ UNCHANGED <<block, valid, dirty, locked, idequeue, active, cur, dead>>
    BY <1>0 DEF brelse, At, Goto, lockVars, ideVars
  <1>2. /\ Users(b)' = Users(b) \ {t} /\ t \in Users(b)
        /\ \A c \in Bufs \ {b} : Users(c)' = Users(c)
    BY <1>0, <1>1 DEF CacheTypeOK, Users
  <1>3. Cardinality(Users(b) \ {t}) = Cardinality(Users(b)) - 1
    BY <1>2, UsersFinite, FS_RemoveElement
  <1>4. refcnt'[b] = refcnt[b] - 1 /\ \A c \in Bufs \ {b} : refcnt'[c] = refcnt[c]
    BY <1>0, <1>1 DEF CacheTypeOK
  <1>5. RefsOK'
    <2>1. ASSUME NEW c \in Bufs PROVE refcnt'[c] = Cardinality(Users(c)')
      <3>1. CASE c = b
        BY <1>2, <1>3, <1>4, <3>1 DEF RefsOK
      <3>2. CASE c # b
        BY <1>2, <1>4, <3>2 DEF RefsOK
      <3> QED  BY <3>1, <3>2
    <2> QED  BY <2>1 DEF RefsOK
  <1>6. refcnt' \in [Bufs -> Nat]
    <2>1. refcnt[b] \in Nat \ {0}
      BY <1>0, <1>2, UnusedNoUser DEF CacheTypeOK
    <2> QED  BY <1>1, <2>1, SMT DEF CacheTypeOK
  <1>7. list' \in [Bufs -> Bufs]
    <2>1. ASSUME NEW i \in Bufs PROVE ToFront(b)[i] \in Bufs
      <3>1. i = 1 \/ i - 1 \in Bufs  BY CacheAssumption, SMT DEF Bufs
      <3> QED  BY <1>0, <3>1 DEF ToFront, CacheTypeOK
    <2>2. ToFront(b) = [i \in Bufs |-> ToFront(b)[i]]  BY DEF ToFront
    <2> QED  BY <1>1, <2>1, <2>2 DEF CacheTypeOK
  <1>8. CacheTypeOK' /\ OneBufferPerBlock'
    BY <1>0, <1>1, <1>6, <1>7 DEF CacheTypeOK, Point, OneBufferPerBlock
  <1>9. LocksOK'
    BY <1>1 DEF CacheTypeOK, LocksOK, HolderAlone, Locked, Using, InIderw
  <1>10. QueueOK'
    BY <1>1, QueueUnmoved DEF CacheTypeOK, Waits, Synced
  <1> QED  BY <1>5, <1>8, <1>9, <1>10

\* iderw queues a request: that of the holder, who had none.
LEMMA IderwKeeps ==
    ASSUME IInv, NEW t \in Clients, iderw(t) PROVE IInv'
  <1> USE DEF IInv
  <1>1. CASE Panic("iderw: buf not locked") \/ Panic("iderw: nothing to do")
    BY <1>1, PanicKeeps
  <1>2. CASE ~(Panic("iderw: buf not locked") \/ Panic("iderw: nothing to do"))
    <2> DEFINE b == cur[t]
    <2>0. /\ pc[t] = "iderw" /\ t \notin dead /\ pc' = [pc EXCEPT ![t] = "idesleep"]
          /\ ~Synced(b) /\ idequeue' = Append(idequeue, b)
          /\ active' = IF idequeue = <<>> THEN b ELSE active
          /\ UNCHANGED <<block, valid, dirty, refcnt, locked, list, cur, want, dead>>
      BY <1>2 DEF iderw, At, Goto, Synced, idestart, bufVars, lockVars
    <2>1. CacheTypeOK' /\ OneBufferPerBlock'
      BY <2>0 DEF CacheTypeOK, Point, Locked, InIderw, OneBufferPerBlock
    <2>2. RefsOK'
      BY <2>0, SameUsers DEF CacheTypeOK
    <2>3. LocksOK'
      BY <2>0, ZenonT(60) DEF CacheTypeOK, LocksOK, HolderAlone, Locked, Using, InIderw
    <2>4. b \in Bufs /\ b \notin Elems(idequeue)
      BY <2>0, ZenonT(80) DEF CacheTypeOK, LocksOK, HolderAlone, QueueOK, Waits, Locked, InIderw
    <2>5. /\ idequeue' \in Seq(Bufs) /\ Distinct(idequeue') /\ idequeue' # <<>>
          /\ Elems(idequeue') = Elems(idequeue) \cup {b}
          /\ Head(idequeue') = IF idequeue = <<>> THEN b ELSE Head(idequeue)
      BY <2>0, <2>4, AppendElems, SMT DEF QueueOK
    <2>6. \A u \in Clients : u # t => pc'[u] = pc[u]
      BY <2>0 DEF CacheTypeOK
    <2>7. pc'[t] = "idesleep"
      BY <2>0 DEF CacheTypeOK
    <2>8. \A u \in Clients : Waits(u) => Waits(u)'
      BY <2>6, <2>7 DEF Waits
    <2>9. \A c \in Elems(idequeue') : ~Synced(c)' /\ \E u \in Clients : cur'[u] = c /\ Waits(u)'
      BY <2>0, <2>5, <2>7, <2>8 DEF QueueOK, Waits, Synced
    <2>10. QueueOK'
      BY <2>0, <2>5, <2>6, <2>7, <2>9, ZenonT(60) DEF QueueOK, Waits, Synced
    <2> QED  BY <2>1, <2>2, <2>3, <2>10
  <1> QED  BY <1>1, <1>2

\* What the interrupt handler finds: the request at the head, which the disk had.
LEMMA HeadOfQueue ==
    ASSUME QueueOK, active # NoBuf
    PROVE  /\ idequeue # <<>> /\ active = Head(idequeue)
           /\ Head(idequeue) \in Bufs /\ Head(idequeue) \in Elems(idequeue)
           /\ Tail(idequeue) \in Seq(Bufs) /\ Distinct(Tail(idequeue))
           /\ Elems(Tail(idequeue)) = Elems(idequeue) \ {Head(idequeue)}
  <1>1. idequeue # <<>> /\ active = Head(idequeue)
    BY DEF QueueOK
  <1> QED  BY <1>1, TailElems DEF QueueOK

\* ideintr answers the first request and wakes the holder, who will find its buffer
\* synced; the others keep waiting with theirs queued.
LEMMA IdeintrKeeps ==
    ASSUME IInv, ideintr PROVE IInv'
  <1> USE DEF IInv
  <1>1. PICK b \in Bufs :
          /\ b = Head(idequeue) /\ b \in Elems(idequeue) /\ idequeue' = Tail(idequeue)
          /\ valid' = valid \cup {b} /\ dirty' = dirty \ {b}
          /\ pc' = Woken(b, "idesleep", "idecheck")
    BY HeadOfQueue DEF ideintr
  <1>2. /\ UNCHANGED <<block, refcnt, locked, list, cur, want, dead>>
        /\ active' = IF idequeue' = <<>> THEN NoBuf ELSE Head(idequeue')
    BY DEF ideintr, StartNext, Idle, idestart, lockVars
  <1>3. \A u \in Clients :
          pc'[u] = IF pc[u] = "idesleep" /\ cur[u] = b /\ u \notin dead
                   THEN "idecheck" ELSE pc[u]
    BY <1>1 DEF Woken
  <1>4. CacheTypeOK' /\ OneBufferPerBlock'
    BY <1>1, <1>2 DEF CacheTypeOK, Woken, Point, Locked, InIderw, OneBufferPerBlock
  <1>5. RefsOK'
    BY <1>2, <1>3, SameUsers
  <1>6. LocksOK'
    BY <1>2, <1>3, ZenonT(60) DEF LocksOK, HolderAlone, Locked, Using, InIderw
  <1>7. QueueOK'
    <2>1. /\ idequeue' \in Seq(Bufs) /\ Distinct(idequeue')
          /\ Elems(idequeue') = Elems(idequeue) \ {b}
      BY <1>1, HeadOfQueue DEF ideintr
    <2>2. \A u \in Clients : Waits(u)' <=> Waits(u)
      BY <1>3 DEF Waits
    <2>3. Synced(b)' /\ \A c : c # b => (Synced(c)' <=> Synced(c))
      BY <1>1, SMTT(30) DEF Synced
    <2>4. \A c \in Elems(idequeue') : ~Synced(c)' /\ \E u \in Clients : cur'[u] = c /\ Waits(u)'
      BY <1>2, <2>1, <2>2, <2>3 DEF QueueOK
    <2>5. \A u \in Clients :
            /\ pc'[u] = "idesleep" /\ u \notin dead' => cur'[u] \in Elems(idequeue')
            /\ pc'[u] = "idecheck" /\ ~Synced(cur[u])' => cur'[u] \in Elems(idequeue')
      BY <1>1, <1>2, <1>3, <2>1, <2>3 DEF QueueOK, Synced
    <2> QED  BY <1>2, <2>1, <2>4, <2>5 DEF QueueOK
  <1> QED  BY <1>4, <1>5, <1>6, <1>7

\* kill wakes a sleeper early: it finds its lock held, or its request still queued.
LEMMA KillKeeps ==
    ASSUME IInv, NEW t \in Clients, kill(t) PROVE IInv'
  <1> USE DEF IInv
  <1>0. /\ \/ pc[t] = "locksleep" /\ pc' = [pc EXCEPT ![t] = "acquire"]
           \/ pc[t] = "idesleep" /\ t \notin dead /\ pc' = [pc EXCEPT ![t] = "idecheck"]
        /\ UNCHANGED <<block, valid, dirty, refcnt, locked, list, idequeue, active, cur,
                       want, dead>>
    BY DEF kill, At, Goto, bufVars, lockVars, ideVars
  <1>1. CacheTypeOK' /\ OneBufferPerBlock'
    BY <1>0 DEF CacheTypeOK, Point, Locked, InIderw, OneBufferPerBlock
  <1>2. RefsOK'
    BY <1>0, SameUsers DEF CacheTypeOK
  <1>3. LocksOK'
    BY <1>0, SMT DEF CacheTypeOK, LocksOK, HolderAlone, Locked, Using, InIderw
  <1>4. QueueOK'
    <2>1. /\ pc' = [pc EXCEPT ![t] = pc'[t]] /\ \A b : Synced(b)' <=> Synced(b)
          /\ \A u \in Clients : Synced(cur[u])' <=> Synced(cur[u])
      BY <1>0 DEF CacheTypeOK, Synced
    <2>2. CASE pc[t] = "locksleep" /\ pc'[t] = "acquire"
      BY <1>0, <2>1, <2>2, QueueUnmoved DEF Waits
    <2>3. CASE pc[t] = "idesleep" /\ pc'[t] = "idecheck" /\ t \notin dead
      <3>1. cur[t] \in Elems(idequeue)  BY <2>3 DEF QueueOK
      <3> QED  BY <1>0, <2>1, <2>3, <3>1, QueueUnmoved DEF Waits
    <2> QED  BY <1>0, <2>2, <2>3 DEF CacheTypeOK
  <1> QED  BY <1>1, <1>2, <1>3, <1>4

\* exit ends a thread where it stands, with its reference, its lock and its request.
LEMMA ExitKeeps ==
    ASSUME IInv, NEW t \in Clients, exit(t) PROVE IInv'
  <1> USE DEF IInv
  <1>0. /\ dead' = dead \cup {t}
        /\ UNCHANGED <<block, valid, dirty, refcnt, locked, list, idequeue, active, pc, cur, want>>
    BY DEF exit, bufVars, lockVars, ideVars
  <1>1. CacheTypeOK' /\ OneBufferPerBlock'
    BY <1>0 DEF CacheTypeOK, OneBufferPerBlock
  <1>2. RefsOK'
    BY <1>0, SameUsers
  <1>3. LocksOK'
    BY <1>0, SMTT(30) DEF LocksOK, HolderAlone
  <1>4. QueueOK'
    BY <1>0, SMT DEF QueueOK, Waits, Synced, Elems, Distinct
  <1> QED  BY <1>1, <1>2, <1>3, <1>4

\* The steps of a client that has the lock and needs no new invariant.
LEMMA HolderKeeps ==
    ASSUME IInv, NEW t \in Clients,
           bread(t) \/ modify(t) \/ bwrite(t) \/ log_write(t) \/ iderwLoop(t)
    PROVE  IInv'
  <1> USE DEF At, Goto, bufVars, lockVars, ideVars, Waits, Locked, Using, InIderw
  <1>1. CASE bread(t)  BY <1>1, HolderMoves, ZenonT(40) DEF bread
  <1>2. CASE modify(t)  BY <1>2, HolderMoves DEF modify
  <1>3. CASE bwrite(t)  BY <1>3, HolderMoves, PanicKeeps DEF bwrite
  <1>4. CASE log_write(t)  BY <1>4, HolderMoves DEF log_write
  <1>5. CASE iderwLoop(t)  BY <1>5, HolderMoves DEF iderwLoop
  <1> QED  BY <1>1, <1>2, <1>3, <1>4, <1>5

-----------------------------------------------------------------------------
\* The indices of the list that binit builds.
LEMMA FirstIndex ==
    /\ \A k \in Nat \ {0} : 1 \in 1 .. k
    /\ \A n \in Nat : \A i \in 1 .. n : n + 1 - i \in 1 .. n
  BY SMT

\* The invariant holds after binit.
LEMMA InitIInv == Init => IInv
  <1> SUFFICES ASSUME Init PROVE IInv  OBVIOUS
  <1> USE DEF Init, IInv
  <1>1. 1 \in Bufs
    BY FirstIndex, CacheAssumption DEF Bufs
  <1>2. CacheTypeOK
    <2>1. list \in [Bufs -> Bufs]
      BY FirstIndex, CacheAssumption DEF Bufs
    <2>2. cur \in [Clients -> Bufs]
      BY <1>1
    <2> QED  BY <2>1, <2>2 DEF CacheTypeOK, Point
  <1>3. RefsOK
    <2>1. \A b : Users(b) = {}  BY DEF Users
    <2> QED  BY <2>1, FS_EmptySet DEF RefsOK
  <1>4. LocksOK /\ OneBufferPerBlock
    BY DEF LocksOK, HolderAlone, Locked, Using, InIderw, OneBufferPerBlock
  <1>5. QueueOK
    <2>1. idequeue = <<>> /\ active = NoBuf /\ pc = [t \in Clients |-> "out"]
      OBVIOUS
    <2>2. idequeue \in Seq(Bufs) /\ Elems(idequeue) = {} /\ Distinct(idequeue)
      BY <2>1, EmptyQueue
    <2> QED  BY <2>1, <2>2 DEF QueueOK
  <1> QED  BY <1>2, <1>3, <1>4, <1>5

\* Every step keeps the invariant.
LEMMA NextIInv == IInv /\ [Next]_vars => IInv'
  <1> SUFFICES ASSUME IInv, [Next]_vars PROVE IInv'  OBVIOUS
  <1>1. CASE UNCHANGED vars
    BY <1>1, PanicKeeps DEF vars, Panic
  <1>2. CASE ideintr
    BY <1>2, IdeintrKeeps
  <1>3. ASSUME NEW t \in Clients, Finish(t) PROVE IInv'
    BY <1>3, AcquiresleepKeeps, HolderKeeps, IderwKeeps, ReleasesleepKeeps, BrelseKeeps DEF Finish
  <1>4. ASSUME NEW t \in Clients, modify(t) \/ bwrite(t) \/ log_write(t) PROVE IInv'
    BY <1>4, HolderKeeps
  <1>5. ASSUME NEW t \in Clients, kill(t) \/ exit(t) \/ \E B \in Blocks : bget(t, B) PROVE IInv'
    BY <1>5, KillKeeps, ExitKeeps, BgetKeeps
  <1> QED  BY <1>1, <1>2, <1>3, <1>4, <1>5 DEF Next

\* A client that has locked a buffer is alone with it, and it is the one of the
\* block that bget was asked for: for every number of threads, blocks and buffers.
THEOREM HolderIsAlone == Spec => []HolderAlone
  <1>1. IInv => HolderAlone  BY SMTT(30) DEF IInv, LocksOK
  <1> QED  BY InitIInv, NextIInv, <1>1, PTL DEF Spec

\* Nobody sleeps for a free lock or an answered request, and the disk is at work on
\* the first request, whatever kill and exit do to the threads in between.
THEOREM WakeupsArrive == Spec => []NoLostWakeup
  <1>1. IInv => NoLostWakeup  BY DEF IInv, LocksOK, QueueOK, NoLostWakeup, Elems
  <1> QED  BY InitIInv, NextIInv, <1>1, PTL DEF Spec

-----------------------------------------------------------------------------
(***************************************************************************)
(* The contents.                                                           *)
(***************************************************************************)
\* The steps that leave contents and requests alone: a client starts to use its
\* buffer only if it is valid, and one that has changed it does not move.
LEMMA ContentsUnmoved ==
    ASSUME ContentsOK, UNCHANGED <<block, valid, dirty, fresh, disk, active, cur>>,
           \A t \in Clients : /\ pc'[t] \in Using => pc[t] \in Using \/ cur[t] \in valid
                              /\ pc[t] = "modified" => pc'[t] = "modified"
    PROVE  ContentsOK'
  BY SMT DEF ContentsOK, ReadsLatest, InHand

\* bget finds no buffer in hand to recycle.
LEMMA BgetContents ==
    ASSUME IInv, ContentsOK, NEW t \in Clients, NEW B \in Blocks, bget(t, B)
    PROVE  ContentsOK'
  <1> USE DEF IInv
  <1>1. CASE Panic("bget: no buffers")
    BY <1>1, ContentsUnmoved DEF Panic, bufVars, ideVars
  <1>2. CASE ~Panic("bget: no buffers")
    <2>0. /\ pc[t] = "out" /\ pc' = [pc EXCEPT ![t] = "acquire"]
          /\ UNCHANGED <<idequeue, active, disk>>
      BY <1>2, ZenonT(40) DEF bget, At, Goto, ideVars
    <2>1. PICK b \in Bufs :
            /\ cur' = [cur EXCEPT ![t] = b]
            /\ \/ UNCHANGED <<block, valid, dirty, fresh>>
               \/ /\ refcnt[b] = 0 /\ b \notin dirty
                  /\ block' = [block EXCEPT ![b] = B]
                  /\ valid' = valid \ {b} /\ dirty' = dirty \ {b} /\ fresh' = fresh \ {b}
      BY <1>2 DEF bget, CacheTypeOK, IsFirst, IsLast, Cached, Unused
    <2>2. \A u \in Clients : u # t => pc'[u] = pc[u] /\ cur'[u] = cur[u]
      BY <2>0, <2>1 DEF CacheTypeOK
    <2>3. pc'[t] = "acquire"  BY <2>0, SMTT(30) DEF CacheTypeOK
    <2>4. CASE UNCHANGED <<block, valid, dirty, fresh>>
      BY <2>0, <2>2, <2>3, <2>4, SMTT(30) DEF ContentsOK, ReadsLatest, Using, InHand
    <2>5. CASE refcnt[b] = 0 /\ b \notin dirty /\ block' = [block EXCEPT ![b] = B]
               /\ valid' = valid \ {b} /\ dirty' = dirty \ {b} /\ fresh' = fresh \ {b}
      <3>1. \A u \in Clients : pc[u] # "out" => cur[u] # b
        BY <2>5, UnusedNoUser DEF Users
      <3>2. \A c \in Bufs : InHand(c) => c # b /\ InHand(c)' /\ block'[c] = block[c]
        BY <2>0, <2>2, <2>5, <3>1 DEF InHand, CacheTypeOK
      <3>3. ReadsLatest'
        BY <2>2, <2>3, <2>5, <3>1 DEF ContentsOK, ReadsLatest, Using
      <3>4. active' # NoBuf /\ active' \in dirty' => block'[active'] \in disk'
        BY <2>0, <2>5 DEF ContentsOK, CacheTypeOK
      <3> QED  BY <2>0, <2>5, <3>2, <3>3, <3>4 DEF ContentsOK
    <2> QED  BY <2>1, <2>4, <2>5, SMTT(30)
  <1> QED  BY <1>1, <1>2, ZenonT(40)

\* What a client changes is the only copy, and the disk is not at work on it.
LEMMA ModifyContents ==
    ASSUME IInv, ContentsOK, NEW t \in Clients, modify(t) PROVE ContentsOK'
  <1> USE DEF IInv
  <1>1. PICK b \in Bufs : b = cur[t]  BY DEF CacheTypeOK
  <1>2. /\ pc[t] = "using" /\ pc' = [pc EXCEPT ![t] = "modified"]
        /\ fresh' = {c \in fresh : block[c] # block[b]} \cup {b}
        /\ disk' = disk \ {block[b]}
        /\ UNCHANGED <<block, valid, dirty, active, cur>>
    BY <1>1, SMTT(30) DEF modify, At, Goto, bufVars, ideVars
  <1>3. \A c \in Bufs : c # b => block[c] # block[b]
    BY <1>1, <1>2, CacheAssumption DEF LocksOK, HolderAlone, OneBufferPerBlock
  <1>4. active # NoBuf => active \in Bufs /\ active # b
    <2>1. active # NoBuf => active \in Bufs /\ active \in Elems(idequeue)
      BY HeadOfQueue
    <2>2. b \notin Elems(idequeue)
      BY <1>1, <1>2, ZenonT(60) DEF QueueOK, LocksOK, HolderAlone, Waits, Locked, Using, InIderw
    <2> QED  BY <2>1, <2>2
  <1>5. \A u \in Clients : pc'[u] = IF u = t THEN "modified" ELSE pc[u]
    BY <1>2 DEF CacheTypeOK
  <1>6. \A c \in fresh \cap Bufs : c \in fresh'
    BY <1>2, <1>3
  <1>7. ReadsLatest'
    BY <1>1, <1>2, <1>5, <1>6 DEF ContentsOK, ReadsLatest, CacheTypeOK, Using
  <1>8. \A c \in valid' \cup dirty' : c \in fresh'
    BY <1>2, <1>6 DEF ContentsOK, CacheTypeOK
  <1>9. \A c \in Bufs : (InHand(c) => InHand(c)') /\ InHand(b)'
    BY <1>1, <1>2, <1>5 DEF InHand
  <1>10. \A D \in Blocks \ disk' : \E c \in Bufs : block'[c] = D /\ InHand(c)'
    BY <1>2, <1>9 DEF ContentsOK
  <1>11. active' # NoBuf /\ active' \in dirty' => block'[active'] \in disk'
    BY <1>2, <1>3, <1>4, SMTT(30) DEF ContentsOK
  <1> QED  BY <1>7, <1>8, <1>10, <1>11 DEF ContentsOK

\* A client that marks its buffer dirty has the latest contents in it, and the disk
\* is not at work on it.
LEMMA DirtyContents ==
    ASSUME IInv, ContentsOK, NEW t \in Clients, pc[t] \in Using, NEW m,
           m \in {"iderw", "using"}, pc' = [pc EXCEPT ![t] = m], dirty' = dirty \cup {cur[t]},
           UNCHANGED <<block, valid, fresh, disk, active, cur>>
    PROVE  ContentsOK'
  <1> USE DEF IInv
  <1>1. PICK b \in Bufs : b = cur[t]  BY DEF CacheTypeOK
  <1>2. active # NoBuf => active # b
    <2>1. active # NoBuf => active \in Elems(idequeue)
      BY HeadOfQueue
    <2>2. b \notin Elems(idequeue)
      BY <1>1, ZenonT(60) DEF QueueOK, LocksOK, HolderAlone, Waits, Locked, Using, InIderw
    <2> QED  BY <2>1, <2>2
  <1>3. \A u \in Clients : pc'[u] = IF u = t THEN m ELSE pc[u]
    BY DEF CacheTypeOK
  <1>4. ReadsLatest' /\ b \in fresh
    BY <1>1, <1>3 DEF ContentsOK, ReadsLatest, Using
  <1>5. \A c \in Bufs : InHand(c) => InHand(c)'
    BY <1>1, <1>3 DEF InHand
  <1> QED  BY <1>1, <1>2, <1>4, <1>5 DEF ContentsOK

\* The disk is given the latest contents with every write.
LEMMA StartContents ==
    ASSUME ContentsOK, NEW b, idestart(b)
    PROVE  /\ active' = b /\ disk \subseteq disk'
           /\ b \in dirty => block[b] \in disk'
  BY DEF ContentsOK, idestart

\* iderw hands over a request of a client that has stopped to use its buffer.
LEMMA IderwContents ==
    ASSUME IInv, ContentsOK, NEW t \in Clients, iderw(t) PROVE ContentsOK'
  <1>1. CASE Panic("iderw: buf not locked") \/ Panic("iderw: nothing to do")
    BY <1>1, ContentsUnmoved DEF Panic, bufVars, ideVars
  <1>2. CASE ~(Panic("iderw: buf not locked") \/ Panic("iderw: nothing to do"))
    <2>1. /\ pc[t] = "iderw" /\ pc' = [pc EXCEPT ![t] = "idesleep"]
          /\ idestart(cur[t]) \/ UNCHANGED <<active, disk>>
          /\ UNCHANGED <<block, valid, dirty, fresh, cur>>
      BY <1>2 DEF iderw, At, Goto, bufVars
    <2>2. /\ disk \subseteq disk'
          /\ active' # NoBuf /\ active' \in dirty' => block'[active'] \in disk'
      BY <2>1, StartContents DEF ContentsOK
    <2>3. \A u \in Clients : pc'[u] = IF u = t THEN "idesleep" ELSE pc[u]
      BY <2>1 DEF IInv, CacheTypeOK
    <2>4. ReadsLatest' /\ \A c \in Bufs : InHand(c) => InHand(c)'
      BY <2>1, <2>3, SMT DEF ContentsOK, ReadsLatest, InHand, Using
    <2> QED  BY <2>1, <2>2, <2>4 DEF ContentsOK
  <1> QED  BY <1>1, <1>2, ZenonT(40)

\* A request that is answered leaves the latest contents in the buffer: those that
\* were written, or those that the disk alone had.
LEMMA IdeintrContents ==
    ASSUME IInv, ContentsOK, ideintr, ~DiskErrors PROVE ContentsOK'
  <1> USE DEF IInv
  <1>1. PICK b \in Bufs :
          /\ b = Head(idequeue) /\ b = active /\ b \in Elems(idequeue)
          /\ valid' = valid \cup {b} /\ dirty' = dirty \ {b}
          /\ fresh' = IF b \in dirty THEN fresh
                      ELSE IF block[b] \in disk THEN fresh \cup {b} ELSE fresh \ {b}
          /\ pc' = Woken(b, "idesleep", "idecheck")
    BY HeadOfQueue DEF ideintr
  <1>2. UNCHANGED <<block, cur>>
    BY DEF ideintr
  <1>3. \A u \in Clients : pc'[u] # pc[u] => pc[u] = "idesleep" /\ pc'[u] = "idecheck"
    BY <1>1 DEF Woken
  <1>4. PICK t \in Clients : cur[t] = b /\ Waits(t)
    BY <1>1 DEF QueueOK
  <1>5. \A u \in Clients : pc[u] \in Using => cur[u] # b
    BY <1>4 DEF LocksOK, HolderAlone, Waits, Locked, Using, InIderw
  <1>6. block[b] \in Blocks
    BY <1>4 DEF LocksOK, HolderAlone, Waits
  <1>7. block[b] \in disk
    <2>1. CASE b \in dirty
      BY <1>1, <2>1, SMT DEF ContentsOK, NoBuf, Bufs
    <2>2. CASE b \notin dirty
      <3>1. ~InHand(b)
        BY <1>5, <2>2 DEF InHand, Using
      <3>2. \A c \in Bufs : block[c] = block[b] => c = b
        BY <1>6, CacheAssumption DEF OneBufferPerBlock
      <3> QED  BY <1>6, <3>1, <3>2 DEF ContentsOK
    <2> QED  BY <2>1, <2>2
  <1>8. fresh \subseteq fresh' /\ b \in fresh'
    BY <1>1, <1>7, SMTT(30) DEF ContentsOK
  <1>9. ReadsLatest' /\ \A c \in valid' \cup dirty' : c \in fresh'
    BY <1>1, <1>2, <1>3, <1>8 DEF ContentsOK, ReadsLatest, Using
  <1>10. /\ disk \subseteq disk'
         /\ active' # NoBuf /\ active' \in dirty => block[active'] \in disk'
    BY StartContents DEF ideintr, StartNext, Idle
  <1>11. \A D \in Blocks \ disk' : \E c \in Bufs : block'[c] = D /\ InHand(c)'
    <2>1. \A c \in Bufs : InHand(c) /\ c # b => InHand(c)'
      BY <1>1, <1>2, <1>3 DEF InHand
    <2> QED  BY <1>2, <1>7, <1>10, <2>1 DEF ContentsOK
  <1> QED  BY <1>1, <1>2, <1>9, <1>10, <1>11 DEF ContentsOK

\* Every step keeps the contents, as long as no read fails.
LEMMA NextContents ==
    ASSUME ~DiskErrors PROVE IInv /\ ContentsOK /\ [Next]_vars => ContentsOK'
  <1> SUFFICES ASSUME IInv, ContentsOK, [Next]_vars PROVE ContentsOK'  OBVIOUS
  <1>1. CASE UNCHANGED vars
    BY <1>1, ContentsUnmoved DEF vars, bufVars, ideVars
  <1>2. CASE ideintr
    BY <1>2, IdeintrContents
  <1>3. ASSUME NEW t \in Clients, \E B \in Blocks : bget(t, B) PROVE ContentsOK'
    BY <1>3, BgetContents
  <1>4. ASSUME NEW t \in Clients, iderw(t) \/ modify(t) PROVE ContentsOK'
    BY <1>4, IderwContents, ModifyContents
  <1>5. ASSUME NEW t \in Clients, bwrite(t) \/ log_write(t) PROVE ContentsOK'
    <2>1. CASE Panic("bwrite")
      BY <2>1, ContentsUnmoved DEF Panic, bufVars, ideVars
    <2>2. CASE ~Panic("bwrite")
      BY <1>5, <2>2, DirtyContents, SMTT(30) DEF bwrite, log_write, At, Goto, Using, ideVars
    <2> QED  BY <2>1, <2>2
  <1>6. ASSUME NEW t \in Clients,
               acquiresleep(t) \/ bread(t) \/ iderwLoop(t) \/ brelse(t) \/ kill(t)
        PROVE  ContentsOK'
    <2>1. /\ UNCHANGED <<block, valid, dirty, fresh, disk, active, cur>>
          /\ \A u \in Clients \ {t} : pc'[u] = pc[u]
          /\ pc[t] # "modified" /\ (pc'[t] \in Using => cur[t] \in valid)
      BY <1>6, SMTT(30) DEF IInv, CacheTypeOK, acquiresleep, bread, iderwLoop, brelse, kill, At, Goto,
                  Synced, Using, bufVars, ideVars
    <2> QED  BY <2>1, ContentsUnmoved, SMTT(30)
  <1>7. ASSUME NEW t \in Clients, releasesleep(t) \/ exit(t) PROVE ContentsOK'
    <2>1. /\ UNCHANGED <<block, valid, dirty, fresh, disk, active, cur>>
          /\ \A u \in Clients : /\ pc'[u] \in Using => pc[u] \in Using
                                /\ pc[u] = "modified" => pc'[u] = "modified"
      BY <1>7 DEF releasesleep, exit, Panic, At, Woken, Using, bufVars, ideVars
    <2> QED  BY <2>1, ContentsUnmoved, SMTT(30)
  <1> QED  BY <1>1, <1>2, <1>3, <1>4, <1>5, <1>6, <1>7 DEF Next, Finish

\* bread returns what the last client left in the block, and iderw does not return
\* before the disk has answered, if the disk has no errors: for every number of
\* threads, blocks and buffers, and whatever kill and exit do.
THEOREM LatestRead == ASSUME ~DiskErrors PROVE Spec => []ReadsLatest
  <1>1. Init => IInv /\ ContentsOK
    BY InitIInv DEF Init, ContentsOK, ReadsLatest, Using
  <1>2. (IInv /\ ContentsOK) /\ [Next]_vars => (IInv /\ ContentsOK)'
    BY NextIInv, NextContents
  <1>3. ContentsOK => ReadsLatest  BY DEF ContentsOK
  <1> QED  BY <1>1, <1>2, <1>3, PTL DEF Spec

\* Nor are the latest contents of a block ever in no place but a buffer that bget
\* may recycle.
THEOREM ContentsSurvive == ASSUME ~DiskErrors PROVE Spec => []NothingLost
  <1>1. Init => IInv /\ ContentsOK
    BY InitIInv DEF Init, ContentsOK, ReadsLatest, Using
  <1>2. (IInv /\ ContentsOK) /\ [Next]_vars => (IInv /\ ContentsOK)'
    BY NextIInv, NextContents
  <1>3. ContentsOK => NothingLost
    BY SMT DEF ContentsOK, ReadsLatest, NothingLost, InHand, Using, Locked
  <1> QED  BY <1>1, <1>2, <1>3, PTL DEF Spec

=============================================================================
