-------------------------- MODULE TournamentTreeProofs --------------------------
(***************************************************************************)
(* One thread at a time is in the critical section of a tournament tree,   *)
(* for every depth, any number of threads, trees and mutexes, and whatever *)
(* other processes allocate.                                               *)
(*                                                                         *)
(* The winner owns the mutex of the root.  That alone is not inductive:    *)
(* the mutex of the root is the one that the array of the tree says, so    *)
(* the array must not change under a thread that competes, which it does   *)
(* only between free and live (UsersOK, BuilderAlone), and it must have    *)
(* its entries when the tree is live (SizeOK).                             *)
(***************************************************************************)
EXTENDS TournamentTree, TLAPS

Competing == {"lock", "waiting", "won", "crit", "unlock"}
Building == {"alloc", "bad", "dealloc"}

TreeTypeOK ==
    /\ owner \in [Mutexes -> IDs \cup {NoID}] /\ waiters \in [Mutexes -> SUBSET IDs]
    /\ status \in [Trees -> Status] /\ tree \in [Trees -> Seq(Mutexes)]
    /\ pc \in [IDs -> Point] /\ cur \in [IDs -> Trees]

UsersOK ==
    \A i \in IDs :
        /\ pc[i] \in Competing => status[cur[i]] = "live"
        /\ pc[i] \in {"alloc", "bad"} => status[cur[i]] = "building"
        /\ pc[i] = "dealloc" => status[cur[i]] = "unbuilding"

BuilderAlone ==
    \A i, j \in IDs : {pc[i], pc[j]} \subseteq Building /\ cur[i] = cur[j] => i = j

SizeOK == \A T \in Trees : status[T] \in {"live", "unbuilding"} => Len(tree[T]) = size

\* A thread in the critical section owns the root.
WinnerOK == \A i \in IDs : pc[i] \in {"won", "crit"} => owner[tree[cur[i]][1]] = i

IInv == TreeTypeOK /\ UsersOK /\ BuilderAlone /\ SizeOK /\ WinnerOK

-----------------------------------------------------------------------------
\* Zenon proves the steps that name no other prover.
USE Zenon

\* The first elements of a sequence.
LEMMA FrontIs ==
    ASSUME NEW S, NEW s \in Seq(S), NEW n \in Nat, n <= Len(s)
    PROVE  /\ SubSeq(s, 1, n) \in Seq(S) /\ Len(SubSeq(s, 1, n)) = n
           /\ \A k \in 1 .. n : SubSeq(s, 1, n)[k] = s[k]
  BY SMT

\* The mutexes of a tree that is live, the root's first.
LEMMA RootIsMutex ==
    ASSUME IInv, NEW T \in Trees, status[T] = "live" PROVE tree[T][1] \in Mutexes
<1>1. tree[T] \in Seq(Mutexes) /\ Len(tree[T]) = size
  BY DEF IInv, TreeTypeOK, SizeOK
<1>2. size \in Nat /\ size >= 1
  BY TreeAssumption, SMT DEF size
<1> QED BY <1>1, <1>2, SMT

\* A mutex that is owned changes hands only by its owner.
LEMMA OwnerStays ==
    ASSUME IInv, NEW i \in IDs, NEW j \in IDs, i # j, NEW m, NEW r \in Mutexes, owner[r] = j,
           H!Acquire(i, m) \/ H!Wait(i, m) \/ H!Release(i, m)
    PROVE  owner'[r] = j
<1>1. j # NoID
  BY TreeAssumption, SMT DEF NoID
<1> QED BY <1>1 DEF H!Acquire, H!Wait, H!Release, IInv, TreeTypeOK

\* The mutexes keep their types.
LEMMA MutexTypes ==
    ASSUME IInv, NEW i \in IDs, NEW m, H!Acquire(i, m) \/ H!Wait(i, m) \/ H!Release(i, m)
    PROVE  owner' \in [Mutexes -> IDs \cup {NoID}] /\ waiters' \in [Mutexes -> SUBSET IDs]
<1> USE DEF IInv, TreeTypeOK
<1>1. CASE H!Acquire(i, m)
  BY <1>1 DEF H!Acquire
<1>2. CASE H!Wait(i, m)
  <2>1. CASE m \in Mutexes  BY <1>2, <2>1 DEF H!Wait
  <2>2. CASE m \notin Mutexes  BY <1>2, <2>2 DEF H!Wait
  <2> QED BY <2>1, <2>2
<1>3. CASE H!Release(i, m)
  <2>1. CASE m \in Mutexes  BY <1>3, <2>1, ZenonT(40) DEF H!Release
  <2>2. CASE m \notin Mutexes  BY <1>3, <2>2, ZenonT(80) DEF H!Release
  <2> QED BY <2>1, <2>2
<1> QED BY <1>1, <1>2, <1>3

\* Allocation and release of trees: nobody competes for them meanwhile.
LEMMA allocOK ==
    ASSUME IInv, NEW i \in IDs, NEW T \in Trees, trnmnt_tree_alloc(i, T) PROVE IInv'
<1> USE DEF IInv, trnmnt_tree_alloc, Goto, kernel
<1>1. TreeTypeOK'  BY SMT DEF TreeTypeOK, Status, Point
<1>2. UsersOK'  BY DEF TreeTypeOK, UsersOK, Competing
<1>3. BuilderAlone'  BY SMT DEF TreeTypeOK, UsersOK, BuilderAlone, Building
<1>4. SizeOK'  BY DEF TreeTypeOK, SizeOK
<1>5. WinnerOK'  BY DEF TreeTypeOK, UsersOK, WinnerOK, Competing
<1> QED BY <1>1, <1>2, <1>3, <1>4, <1>5

\* A step of the loops that build and free a tree: it is the thread's own.
LEMMA BuilderStep ==
    ASSUME IInv, NEW i \in IDs, pc[i] \in Building,
           NEW q \in Seq(Mutexes), NEW s \in Status, NEW l \in Building \cup {"idle"},
           UNCHANGED <<owner, waiters, cur>>, tree' = [tree EXCEPT ![cur[i]] = q],
           status' = [status EXCEPT ![cur[i]] = s], pc' = [pc EXCEPT ![i] = l],
           l \in {"alloc", "bad"} => s = "building", l = "dealloc" => s = "unbuilding",
           s \in {"live", "unbuilding"} => Len(q) = size
    PROVE  IInv'
<1> USE DEF IInv
<1> DEFINE T == cur[i]
<1>0. T \in Trees /\ \A j \in IDs \ {i} : cur[j] = T => pc[j] = "idle"
  BY DEF TreeTypeOK, UsersOK, BuilderAlone, Point, Competing, Building
<1>1. TreeTypeOK'  BY <1>0 DEF TreeTypeOK, Point, Building
<1>2. UsersOK'  BY <1>0 DEF TreeTypeOK, UsersOK, Competing, Building
<1>3. BuilderAlone'  BY <1>0 DEF TreeTypeOK, BuilderAlone, Building
<1>4. SizeOK'  BY <1>0 DEF TreeTypeOK, SizeOK
<1>5. WinnerOK'  BY <1>0 DEF TreeTypeOK, WinnerOK, Building
<1> QED BY <1>1, <1>2, <1>3, <1>4, <1>5

\* The loop of trnmnt_tree_alloc.
LEMMA allocLoopOK ==
    ASSUME IInv, NEW i \in IDs, allocLoop(i) PROVE IInv'
<1> DEFINE T == cur[i]
<1>1. pc[i] = "alloc" /\ T \in Trees /\ status[T] = "building" /\ tree[T] \in Seq(Mutexes)
      /\ UNCHANGED <<owner, waiters, cur>>
  BY DEF allocLoop, IInv, TreeTypeOK, UsersOK
<1>2. /\ status = [status EXCEPT ![T] = status[T]] /\ tree = [tree EXCEPT ![T] = tree[T]]
      /\ pc = [pc EXCEPT ![i] = "alloc"]
  BY <1>1 DEF IInv, TreeTypeOK
<1>3. CASE Len(tree[T]) = size /\ status' = [status EXCEPT ![T] = "live"]
           /\ pc' = [pc EXCEPT ![i] = "idle"] /\ tree' = tree
  <2>1. "live" \in Status /\ "idle" \in Building \cup {"idle"} /\ pc[i] \in Building
    BY <1>1 DEF Status, Building
  <2> QED BY <1>1, <1>2, <1>3, <2>1, BuilderStep
<1>4. ASSUME NEW m \in Mutexes, tree' = [tree EXCEPT ![T] = Append(tree[T], m)],
             status' = status, pc' = pc
      PROVE  IInv'
  <2>1. status[T] \in Status /\ "alloc" \in Building /\ Append(tree[T], m) \in Seq(Mutexes)
    BY <1>1, SMT DEF Status, Building
  <2> QED BY <1>1, <1>2, <1>4, <2>1, BuilderStep
<1>5. CASE pc' = [pc EXCEPT ![i] = "bad"] /\ status' = status /\ tree' = tree
  <2>1. status[T] \in Status /\ {"alloc", "bad"} \subseteq Building
    BY <1>1 DEF Status, Building
  <2> QED BY <1>1, <1>2, <1>5, <2>1, BuilderStep
<1> QED BY <1>1, <1>3, <1>4, <1>5 DEF allocLoop, Goto

\* The loops that give the mutexes back.
LEMMA freeLoopOK ==
    ASSUME IInv, NEW i \in IDs, NEW l \in {"bad", "dealloc"}, freeLoop(i, l) PROVE IInv'
<1> DEFINE T == cur[i]
<1>1. /\ pc[i] = l /\ l \in Building /\ T \in Trees /\ status[T] \in Status
      /\ tree[T] \in Seq(Mutexes) /\ UNCHANGED <<owner, waiters, cur>>
      /\ l = "bad" => status[T] = "building"
      /\ l = "dealloc" => status[T] = "unbuilding" /\ Len(tree[T]) = size
  BY DEF freeLoop, IInv, TreeTypeOK, UsersOK, SizeOK, Building
<1>2. /\ status = [status EXCEPT ![T] = status[T]] /\ tree = [tree EXCEPT ![T] = tree[T]]
      /\ pc = [pc EXCEPT ![i] = l]
  BY <1>1 DEF IInv, TreeTypeOK
<1>3. CASE status' = [status EXCEPT ![T] = "free"] /\ tree' = [tree EXCEPT ![T] = <<>>]
           /\ pc' = [pc EXCEPT ![i] = "idle"]
  <2>1. "free" \in Status /\ "idle" \in Building \cup {"idle"} /\ <<>> \in Seq(Mutexes)
    BY SMT DEF Status
  <2> QED BY <1>1, <1>3, <2>1, BuilderStep
<1>4. CASE status' = status /\ pc' = pc /\ tree' = tree
  BY <1>1, <1>2, <1>4, BuilderStep, SMT
<1>5. CASE l = "dealloc" /\ status' = [status EXCEPT ![T] = "live"]
           /\ pc' = [pc EXCEPT ![i] = "idle"] /\ tree' = tree
  <2>1. "live" \in Status /\ "idle" \in Building \cup {"idle"}
    BY DEF Status
  <2> QED BY <1>1, <1>2, <1>5, <2>1, BuilderStep
<1> QED BY <1>3, <1>4, <1>5 DEF freeLoop, Goto

\* trnmnt_tree_dealloc begins when nobody competes.
LEMMA deallocOK ==
    ASSUME IInv, NEW i \in IDs, NEW T \in Trees, trnmnt_tree_dealloc(i, T) PROVE IInv'
<1> USE DEF IInv, trnmnt_tree_dealloc, Goto, kernel
<1>0. \A j \in IDs : cur[j] = T => pc[j] = "idle"
  BY DEF InUse
<1>1. TreeTypeOK'  BY DEF TreeTypeOK, Status, Point
<1>2. UsersOK'  BY <1>0 DEF TreeTypeOK, UsersOK, Competing
<1>3. BuilderAlone'  BY <1>0 DEF TreeTypeOK, BuilderAlone, Building
<1>4. SizeOK'  BY DEF TreeTypeOK, SizeOK
<1>5. WinnerOK'  BY <1>0 DEF TreeTypeOK, WinnerOK
<1> QED BY <1>1, <1>2, <1>3, <1>4, <1>5

-----------------------------------------------------------------------------
\* Competing for a tree: the array stays as it is, and a thread that climbs from
\* the root owns the root.
LEMMA acquireOK ==
    ASSUME IInv, NEW i \in IDs, NEW T \in Trees, trnmnt_tree_acquire(i, T) PROVE IInv'
<1> USE DEF IInv, trnmnt_tree_acquire, Goto, kernel
<1>1. TreeTypeOK'  BY DEF TreeTypeOK, Point
<1>2. UsersOK'  BY DEF TreeTypeOK, UsersOK, Competing
<1>3. BuilderAlone'  BY DEF TreeTypeOK, BuilderAlone, Building
<1>4. SizeOK'  BY DEF SizeOK
<1>5. WinnerOK'  BY DEF TreeTypeOK, WinnerOK
<1> QED BY <1>1, <1>2, <1>3, <1>4, <1>5

\* A step of a thread that competes, which may take or release a mutex.
LEMMA CompetitorStep ==
    ASSUME IInv, NEW i \in IDs, pc[i] \in Competing, NEW l \in Competing \cup {"idle"}, NEW m,
           UNCHANGED <<status, tree, cur>>, pc' = [pc EXCEPT ![i] = l],
           \/ UNCHANGED <<owner, waiters>>
           \/ H!Acquire(i, m) \/ H!Wait(i, m) \/ H!Release(i, m),
           l \in {"won", "crit"} => owner'[tree[cur[i]][1]] = i
    PROVE  IInv'
<1> USE DEF IInv
<1>1. TreeTypeOK'  BY MutexTypes DEF TreeTypeOK, Point, Competing
<1>2. UsersOK'  BY DEF TreeTypeOK, UsersOK, Competing
<1>3. BuilderAlone'  BY DEF TreeTypeOK, BuilderAlone, Building, Competing
<1>4. SizeOK'  BY DEF SizeOK
<1>5. ASSUME NEW j \in IDs, pc'[j] \in {"won", "crit"} PROVE owner'[tree'[cur'[j]][1]] = j
  <2>1. CASE j = i  BY <1>5, <2>1 DEF TreeTypeOK
  <2>2. CASE j # i
    <3>1. pc[j] \in {"won", "crit"}  BY <1>5, <2>2 DEF TreeTypeOK
    <3>2. cur[j] \in Trees /\ status[cur[j]] = "live" /\ owner[tree[cur[j]][1]] = j
      BY <3>1 DEF TreeTypeOK, UsersOK, WinnerOK, Competing
    <3>3. tree[cur[j]][1] \in Mutexes  BY <3>2, RootIsMutex
    <3> QED BY <2>2, <3>2, <3>3, OwnerStays, SMT
  <2> QED BY <2>1, <2>2
<1> QED BY <1>1, <1>2, <1>3, <1>4, <1>5 DEF WinnerOK

\* acquire_helper: the last mutex on the way is that of the root.
LEMMA acquire_helperOK ==
    ASSUME IInv, NEW i \in IDs, acquire_helper(i) PROVE IInv'
<1> DEFINE T == cur[i]
<1>1. pc[i] \in Competing /\ T \in Trees /\ status[T] = "live"
  BY DEF acquire_helper, IInv, TreeTypeOK, UsersOK, Competing
<1>2. tree[T][1] \in Mutexes
  BY <1>1, RootIsMutex
<1>3. AtRoot(i) => Node(i) = tree[T][1]
  BY SMT DEF AtRoot, Node
<1>4. ASSUME Climb(i),
             H!Acquire(i, Node(i)) \/ (owner[Node(i)] = i /\ UNCHANGED <<owner, waiters>>)
      PROVE  IInv'
  <2>1. AtRoot(i) => owner'[tree[T][1]] = i
    BY <1>2, <1>3, <1>4 DEF H!Acquire, IInv, TreeTypeOK
  <2>2. UNCHANGED <<status, tree, cur>>
        /\ pc' = [pc EXCEPT ![i] = IF AtRoot(i) THEN "won" ELSE "lock"]
    BY <1>4 DEF Climb, Goto
  <2>3. (IF AtRoot(i) THEN "won" ELSE "lock") \in Competing \cup {"idle"}
    BY DEF Competing
  <2> QED BY <1>1, <1>4, <2>1, <2>2, <2>3, CompetitorStep
<1>5. CASE H!Wait(i, Node(i)) /\ Goto(i, "waiting") /\ UNCHANGED <<status, tree, cur>>
  <2>1. "waiting" \in Competing \cup {"idle"}  BY DEF Competing
  <2> QED BY <1>1, <1>5, <2>1, CompetitorStep DEF Goto
<1> QED BY <1>4, <1>5 DEF acquire_helper

\* The winner enters and leaves with the root.
LEMMA critOK ==
    ASSUME IInv, NEW i \in IDs, won(i) \/ trnmnt_tree_release(i) PROVE IInv'
<1> DEFINE T == cur[i]
<1>1. UNCHANGED <<owner, waiters, status, tree, cur>> /\ {"won", "crit", "unlock"} \subseteq Competing
  BY DEF won, trnmnt_tree_release, kernel, Competing
<1>2. CASE won(i)
  <2>1. owner[tree[T][1]] = i  BY <1>2 DEF won, IInv, WinnerOK
  <2> QED BY <1>1, <1>2, <2>1, CompetitorStep DEF won, Goto
<1>3. CASE trnmnt_tree_release(i)
  BY <1>1, <1>3, CompetitorStep DEF trnmnt_tree_release, Goto
<1> QED BY <1>2, <1>3

\* release_helper releases what the thread owns.
LEMMA release_helperOK ==
    ASSUME IInv, NEW i \in IDs, release_helper(i) PROVE IInv'
<1> DEFINE m == Node(i)
           l == IF owner[m] = i /\ ~AtLeaf(i) THEN "unlock" ELSE "idle"
<1>1. pc[i] \in Competing /\ l \in Competing \cup {"idle"} /\ l \notin {"won", "crit"}
  BY DEF release_helper, Competing
<1>2. UNCHANGED <<status, tree, cur>> /\ pc' = [pc EXCEPT ![i] = l]
      /\ (UNCHANGED <<owner, waiters>> \/ H!Release(i, m))
  BY DEF release_helper, Goto, unlock
<1> QED BY <1>1, <1>2, CompetitorStep

-----------------------------------------------------------------------------
\* The inductive invariant.
LEMMA TreeInvariant == Spec => []IInv
<1>1. Init => IInv
  BY SMT DEF Init, H!Init, IInv, TreeTypeOK, UsersOK, BuilderAlone, SizeOK, WinnerOK, Status, Point,
     Competing, Building
<1>2. IInv /\ [Next]_vars => IInv'
  <2> SUFFICES ASSUME IInv, [Next]_vars PROVE IInv'
    OBVIOUS
  <2>1. ASSUME NEW i \in IDs, Step(i) PROVE IInv'
    BY <2>1, allocLoopOK, freeLoopOK, acquire_helperOK, critOK, release_helperOK DEF Step
  <2>2. ASSUME NEW i \in IDs, NEW T \in Trees, Call(i, T) PROVE IInv'
    BY <2>2, allocOK, deallocOK, acquireOK DEF Call
  <2>3. CASE otherAlloc \/ otherDealloc \/ UNCHANGED vars
    BY <2>3, SMT DEF otherAlloc, otherDealloc, vars, IInv, TreeTypeOK, UsersOK, BuilderAlone, SizeOK,
       WinnerOK
  <2> QED BY <2>1, <2>2, <2>3 DEF Next
<1> QED BY <1>1, <1>2, PTL DEF Spec

\* trnmnt_tree_acquire returns to one thread at a time, whatever the depth of the
\* tree and the number of threads.
THEOREM TreeExclusionHolds == Spec => []TreeExclusion
<1>1. IInv => TreeExclusion
  BY DEF IInv, WinnerOK, TreeExclusion
<1> QED BY <1>1, TreeInvariant, PTL

-----------------------------------------------------------------------------
(***************************************************************************)
(* The calls succeed and no mutex is lost.  A mutex of a tree is freed     *)
(* when it has no owner, and has none when nobody competes for the tree    *)
(* (OwnedOK), because a thread that releases gives back exactly what it    *)
(* has locked on its way (OwnsOK, PathsOK): for that the trees and the     *)
(* nodes of a tree must not share a mutex (ApartOK).                       *)
(***************************************************************************)
Entries(T) == freed[T] + 1 .. Len(tree[T])
PathNode(i, k) == tree[cur[i]][path[i][k] + 1]

ArrayTypeOK ==
    /\ path \in [IDs -> Seq(Nodes)] /\ freed \in [Trees -> Nat]
    /\ allocated \subseteq Mutexes /\ others \subseteq allocated
    /\ failed \in BOOLEAN

FreedOK ==
    /\ \A T \in Trees : /\ freed[T] <= Len(tree[T])
                        /\ status[T] = "free" => tree[T] = <<>>
                        /\ status[T] \in {"free", "live"} => freed[T] = 0
    /\ \A i \in IDs : pc[i] = "alloc" => freed[cur[i]] = 0

ApartOK ==
    \A T, U \in Trees : \A j \in Entries(T), k \in Entries(U) :
        tree[T][j] = tree[U][k] => T = U /\ j = k

PathsOK ==
    \A i \in IDs : pc[i] \in Competing =>
        /\ Len(path[i]) > 0
        /\ \A j, k \in 1 .. Len(path[i]) : j < k => path[i][k] < path[i][j]

OwnsOK ==
    \A i \in IDs : \A k \in 1 .. Len(path[i]) :
        (\/ pc[i] \in {"won", "crit", "unlock"}
         \/ pc[i] \in {"lock", "waiting"} /\ k < Len(path[i]))
        => owner[PathNode(i, k)] = i

OwnedOK ==
    \A m \in Mutexes : owner[m] # NoID =>
        /\ pc[owner[m]] \in Competing
        /\ \E k \in 1 .. Len(path[owner[m]]) : m = PathNode(owner[m], k)

WaitersOK ==
    \A m \in Mutexes : \A w \in waiters[m] : pc[w] = "waiting" /\ m = Node(w) /\ owner[m] # w

ArraysOK == ArrayTypeOK /\ FreedOK /\ ApartOK /\ MutexesAccounted
OwnersOK == PathsOK /\ OwnsOK /\ OwnedOK /\ WaitersOK

\* The nodes on the way of a thread that competes are entries of its tree.
LEMMA NodesAre ==
    ASSUME IInv, ArraysOK, OwnersOK, NEW i \in IDs, pc[i] \in Competing,
           NEW k \in 1 .. Len(path[i])
    PROVE  /\ cur[i] \in Trees /\ status[cur[i]] = "live"
           /\ path[i][k] \in 0 .. size - 1 /\ path[i][k] + 1 \in Entries(cur[i])
           /\ PathNode(i, k) \in Mutexes
<1>1. cur[i] \in Trees /\ status[cur[i]] = "live"
  BY DEF IInv, TreeTypeOK, UsersOK
<1>2. tree[cur[i]] \in Seq(Mutexes) /\ Len(tree[cur[i]]) = size /\ freed[cur[i]] = 0
  BY <1>1 DEF IInv, TreeTypeOK, SizeOK, ArraysOK, FreedOK
<1>3. path[i][k] \in 0 .. size - 1
  <2>1. path[i][k] \in Nodes  BY SMT DEF ArraysOK, ArrayTypeOK
  <2> QED BY <2>1 DEF Nodes
<1>4. size \in Nat
  BY TreeAssumption, SMT DEF size
<1>5. path[i][k] + 1 \in 1 .. size /\ 1 .. size = 0 + 1 .. size
  BY <1>3, <1>4, SMT
<1> QED BY <1>1, <1>2, <1>3, <1>5, SMT DEF Entries, PathNode

\* Two nodes with the same mutex are the same node.
LEMMA NodesApart ==
    ASSUME IInv, ArraysOK, OwnersOK, NEW i \in IDs, pc[i] \in Competing,
           NEW k \in 1 .. Len(path[i]), NEW j \in 1 .. Len(path[i]),
           PathNode(i, j) = PathNode(i, k)
    PROVE  j = k
<1>1. /\ cur[i] \in Trees /\ path[i][k] \in 0 .. size - 1 /\ path[i][k] + 1 \in Entries(cur[i])
      /\ path[i][j] \in 0 .. size - 1 /\ path[i][j] + 1 \in Entries(cur[i])
  BY NodesAre
<1>2. path[i][j] + 1 = path[i][k] + 1
  BY <1>1, SMT DEF PathNode, ArraysOK, ApartOK
<1>3. path[i][j] = path[i][k]
  BY <1>1, <1>2, TreeAssumption, SMT DEF size
<1>4. ~(j < k) /\ ~(k < j)
  BY <1>1, <1>3, TreeAssumption, SMT DEF OwnersOK, PathsOK, size
<1> QED BY <1>4, SMT

\* The mutexes that are not part of a live tree have no owner.
LEMMA OwnerIsLive ==
    ASSUME IInv, ArraysOK, OwnersOK, NEW m \in Mutexes, NEW T \in Trees, NEW j \in Entries(T),
           m = tree[T][j], status[T] # "live"
    PROVE  owner[m] = NoID
<1> SUFFICES ASSUME owner[m] # NoID PROVE FALSE
  OBVIOUS
<1>1. PICK i \in IDs : i = owner[m]
  BY DEF IInv, TreeTypeOK
<1>2. PICK k \in 1 .. Len(path[i]) : m = PathNode(i, k)
  BY <1>1 DEF OwnersOK, OwnedOK
<1>3. pc[i] \in Competing
  BY <1>1 DEF OwnersOK, OwnedOK
<1>4. cur[i] \in Trees /\ status[cur[i]] = "live" /\ path[i][k] + 1 \in Entries(cur[i])
  BY <1>2, <1>3, NodesAre
<1>5. cur[i] = T
  <2>1. tree[cur[i]][path[i][k] + 1] = tree[T][j]  BY <1>2 DEF PathNode
  <2>2. ApartOK  BY DEF ArraysOK
  <2> QED BY <1>4, <2>1, <2>2, SMT DEF ApartOK
<1> QED BY <1>4, <1>5

\* Steps of others than the competitors: they leave the live trees alone.
LEMMA OwnersSame ==
    ASSUME OwnersOK, UNCHANGED <<owner, waiters, path>>, IInv,
           \A j \in IDs : pc[j] \in Competing =>
               pc'[j] = pc[j] /\ cur'[j] = cur[j] /\ tree'[cur[j]] = tree[cur[j]],
           \A j \in IDs : pc[j] \notin Competing => pc'[j] \notin Competing
    PROVE  OwnersOK'
<1>1. \A j \in IDs : pc'[j] \in Competing =>
          /\ pc[j] \in Competing /\ pc'[j] = pc[j]
          /\ \A k : PathNode(j, k)' = PathNode(j, k)
  BY DEF PathNode
<1>2. PathsOK'
  BY <1>1 DEF OwnersOK, PathsOK
<1>3. OwnsOK'
  <2> SUFFICES ASSUME NEW i \in IDs, NEW k \in 1 .. Len(path'[i]),
                      \/ pc'[i] \in {"won", "crit", "unlock"}
                      \/ pc'[i] \in {"lock", "waiting"} /\ k < Len(path'[i])
               PROVE  owner'[PathNode(i, k)'] = i
    BY DEF OwnsOK, PathNode
  <2>1. pc'[i] \in Competing  BY DEF Competing
  <2> QED BY <1>1, <2>1, SMT DEF OwnersOK, OwnsOK
<1>4. OwnedOK'
  <2> SUFFICES ASSUME NEW m \in Mutexes, owner[m] # NoID
               PROVE  /\ pc'[owner[m]] \in Competing
                      /\ \E k \in 1 .. Len(path[owner[m]]) : m = PathNode(owner[m], k)'
    BY DEF OwnedOK, PathNode
  <2>1. owner[m] \in IDs  BY SMT DEF IInv, TreeTypeOK
  <2>2. pc[owner[m]] \in Competing  BY SMTT(30) DEF OwnersOK, OwnedOK
  <2> QED BY <2>1, <2>2, SMT DEF OwnersOK, OwnedOK, PathNode
<1>5. WaitersOK'
  <2> SUFFICES ASSUME NEW m \in Mutexes, NEW w \in waiters[m]
               PROVE  pc'[w] = "waiting" /\ m = Node(w)' /\ owner[m] # w
    BY DEF WaitersOK
  <2>1. w \in IDs /\ pc[w] = "waiting" /\ m = Node(w) /\ owner[m] # w
    BY DEF OwnersOK, WaitersOK, IInv, TreeTypeOK
  <2>2. pc[w] \in Competing  BY <2>1 DEF Competing
  <2> QED BY <2>1, <2>2 DEF Node, index
<1> QED BY <1>2, <1>3, <1>4, <1>5 DEF OwnersOK

-----------------------------------------------------------------------------
\* A tree that nobody has yet, or that nobody uses any more.
LEMMA allocArrays ==
    ASSUME IInv, ArraysOK, OwnersOK, NEW i \in IDs, NEW T \in Trees,
           trnmnt_tree_alloc(i, T) \/ trnmnt_tree_dealloc(i, T), UNCHANGED others
    PROVE  ArraysOK' /\ OwnersOK' /\ failed' = failed
<1>1. /\ UNCHANGED <<owner, waiters, path, freed, allocated, failed>>
      /\ pc[i] = "idle" /\ cur' = [cur EXCEPT ![i] = T] /\ status[T] \in {"free", "live"}
  BY DEF trnmnt_tree_alloc, trnmnt_tree_dealloc, kernel
<1>2. tree' = tree
  BY SMT DEF trnmnt_tree_alloc, trnmnt_tree_dealloc, ArraysOK, FreedOK, IInv, TreeTypeOK
<1>3. /\ \A j \in IDs \ {i} : pc'[j] = pc[j] /\ cur'[j] = cur[j]
      /\ pc'[i] \in {"alloc", "dealloc"} /\ cur'[i] = T
  BY <1>1 DEF trnmnt_tree_alloc, trnmnt_tree_dealloc, Goto, IInv, TreeTypeOK
<1>4. /\ \A U \in Trees \ {T} : status'[U] = status[U]
      /\ status'[T] \in {"building", "unbuilding"}
  BY SMT DEF trnmnt_tree_alloc, trnmnt_tree_dealloc, IInv, TreeTypeOK
<1>5. ArrayTypeOK' /\ ApartOK' /\ MutexesAccounted'
  BY <1>1, <1>2, SMT DEF ArraysOK, ArrayTypeOK, ApartOK, Entries, MutexesAccounted, Holds
<1>6. FreedOK'
  BY <1>1, <1>2, <1>3, <1>4, SMT DEF ArraysOK, FreedOK
<1>7. OwnersOK'
  BY <1>1, <1>2, <1>3, OwnersSame DEF Competing
<1> QED BY <1>1, <1>5, <1>6, <1>7 DEF ArraysOK

\* The entries of the trees are the mutexes that are not the others'.
LEMMA EntriesAre ==
    ASSUME IInv, ArraysOK, NEW T \in Trees, NEW j \in Entries(T)
    PROVE  /\ j \in 1 .. Len(tree[T]) /\ tree[T][j] \in Mutexes
           /\ tree[T][j] \in allocated \ others
<1>1. j \in 1 .. Len(tree[T])
  <2>1. freed[T] \in Nat /\ Len(tree[T]) \in Nat
    BY SMT DEF ArraysOK, ArrayTypeOK, IInv, TreeTypeOK
  <2> QED BY <2>1, SMT DEF Entries
<1>2. tree[T][j] \in Mutexes
  BY <1>1, SMT DEF IInv, TreeTypeOK
<1>3. Holds(T, tree[T][j])
  BY DEF Holds, Entries
<1> QED BY <1>1, <1>2, <1>3 DEF ArraysOK, MutexesAccounted

\* What a mutex is accounted by, in terms of the entries.
LEMMA AccountedAs ==
    /\ MutexesAccounted <=>
          \A m \in Mutexes : m \in allocated \ others
                             <=> \E T \in Trees : \E j \in Entries(T) : tree[T][j] = m
    /\ MutexesAccounted' <=>
          \A m \in Mutexes : m \in allocated' \ others'
                             <=> \E T \in Trees : \E j \in Entries(T)' : tree'[T][j] = m
BY DEF MutexesAccounted, Holds, Entries

\* A round of the loop that builds a tree takes a mutex that nobody has.
LEMMA allocLoopArrays ==
    ASSUME IInv, ArraysOK, OwnersOK, NEW i \in IDs, allocLoop(i), UNCHANGED others
    PROVE  ArraysOK' /\ OwnersOK' /\ failed' = failed
<1>t. PICK T \in Trees : T = cur[i]
  BY DEF IInv, TreeTypeOK
<1>0. /\ pc[i] = "alloc" /\ cur[i] = T /\ status[T] = "building" /\ freed[T] = 0
      /\ tree[T] \in Seq(Mutexes)
      /\ UNCHANGED <<freed, owner, waiters, tid, cur, path, failed>>
  BY <1>t DEF allocLoop, IInv, TreeTypeOK, UsersOK, ArraysOK, FreedOK
<1>1. \A j \in IDs : pc'[j] = pc[j] \/ (j = i /\ pc'[j] \in {"idle", "bad"})
  BY <1>0 DEF allocLoop, Goto, IInv, TreeTypeOK
<1>2. \A U \in Trees : tree'[U] = tree[U] \/ U = T
  BY <1>0 DEF allocLoop, IInv, TreeTypeOK
<1>3. OwnersOK'
  <2>1. \A j \in IDs : pc[j] \in Competing => cur[j] \in Trees /\ cur[j] # T
    BY <1>0 DEF IInv, TreeTypeOK, UsersOK
  <2>2. \A j \in IDs : pc[j] \in Competing => tree'[cur[j]] = tree[cur[j]]
    BY <1>2, <2>1
  <2>3. "alloc" \notin Competing /\ "idle" \notin Competing /\ "bad" \notin Competing
    BY DEF Competing
  <2> QED BY <1>0, <1>1, <2>2, <2>3, OwnersSame
<1>4. CASE /\ UNCHANGED <<allocated, tree>>
           /\ \A U \in Trees : status'[U] = status[U] \/ (U = T /\ status'[U] = "live")
  <2>1. ArrayTypeOK' /\ ApartOK'
    BY <1>0, <1>4, SMT DEF ArraysOK, ArrayTypeOK, ApartOK, Entries
  <2>3. MutexesAccounted'
    BY <1>0, <1>4, SMT DEF ArraysOK, MutexesAccounted, Holds
  <2>2. FreedOK'
    BY <1>0, <1>1, <1>4 DEF ArraysOK, FreedOK
  <2> QED BY <1>0, <1>3, <2>1, <2>2, <2>3 DEF ArraysOK
<1>5. ASSUME NEW m \in Mutexes, m \notin allocated, allocated' = allocated \cup {m},
             tree' = [tree EXCEPT ![T] = Append(tree[T], m)], UNCHANGED <<status, pc>>
      PROVE  ArraysOK' /\ OwnersOK' /\ failed' = failed
  <2>1. PICK n \in Nat : n = Len(tree[T])
    BY <1>0, SMT
  <2>2. /\ \A U \in Trees \ {T} : tree'[U] = tree[U]
        /\ Len(tree'[T]) = n + 1 /\ tree'[T][n + 1] = m
        /\ \A j \in 1 .. n : tree'[T][j] = tree[T][j]
    BY <1>0, <1>5, <2>1, SMT DEF IInv, TreeTypeOK
  <2>3. /\ \A U \in Trees \ {T} : Entries(U)' = Entries(U)
        /\ Entries(T) = 1 .. n /\ Entries(T)' = 1 .. n + 1
    BY <1>0, <2>1, <2>2, SMTT(30) DEF Entries
  <2>4. \A U \in Trees : \A j \in Entries(U)' :
            \/ j \in Entries(U) /\ tree'[U][j] = tree[U][j] /\ tree[U][j] # m
               /\ tree[U][j] \in allocated \ others
            \/ U = T /\ j = n + 1 /\ tree'[U][j] = m
    <3> SUFFICES ASSUME NEW U \in Trees, NEW j \in Entries(U)'
                 PROVE  \/ j \in Entries(U) /\ tree'[U][j] = tree[U][j] /\ tree[U][j] # m
                           /\ tree[U][j] \in allocated \ others
                        \/ U = T /\ j = n + 1 /\ tree'[U][j] = m
      OBVIOUS
    <3>1. (j \in Entries(U) /\ tree'[U][j] = tree[U][j]) \/ (U = T /\ j = n + 1)
      <4>1. CASE U # T  BY <2>2, <2>3, <4>1
      <4>2. CASE U = T
        <5>1. j \in 1 .. n \/ j = n + 1  BY <2>3, <4>2, SMT
        <5> QED BY <2>2, <2>3, <4>2, <5>1
      <4> QED BY <4>1, <4>2
    <3> QED BY <1>5, <2>2, <3>1, EntriesAre
  <2>5. ArrayTypeOK'
    BY <1>0, <1>5 DEF ArraysOK, ArrayTypeOK
  <2>6. ApartOK'
    <3>1. \A U, V \in Trees : \A j \in Entries(U)', k \in Entries(V)' :
              tree'[U][j] = tree'[V][k] => U = V /\ j = k
      BY <2>4, SMT DEF ArraysOK, ApartOK
    <3> QED BY <3>1 DEF ApartOK
  <2>7. MutexesAccounted'
    <3>1. \A x \in Mutexes : x \in allocated' \ others'
              => \E U \in Trees : \E j \in Entries(U)' : tree'[U][j] = x
      <4> SUFFICES ASSUME NEW x \in Mutexes, x \in allocated' \ others'
                   PROVE  \E U \in Trees : \E j \in Entries(U)' : tree'[U][j] = x
        OBVIOUS
      <4>1. CASE x = m
        <5>1. n + 1 \in Entries(T)'  BY <2>1, <2>3, SMT
        <5> QED BY <1>0, <2>2, <4>1, <5>1
      <4>2. CASE x # m
        <5>1. x \in allocated \ others  BY <1>5, <4>2
        <5>2. PICK U \in Trees : \E j \in Entries(U) : tree[U][j] = x
          BY <5>1, AccountedAs DEF ArraysOK
        <5>3. \A j \in Entries(U) : j \in Entries(U)' /\ tree'[U][j] = tree[U][j]
          <6>1. CASE U # T  BY <2>2, <2>3, <6>1
          <6>2. CASE U = T
            <7>1. 1 .. n \subseteq 1 .. n + 1  BY SMT
            <7> QED BY <2>2, <2>3, <6>2, <7>1
          <6> QED BY <6>1, <6>2
        <5> QED BY <5>2, <5>3
      <4> QED BY <4>1, <4>2
    <3>2. \A x \in Mutexes : (\E U \in Trees : \E j \in Entries(U)' : tree'[U][j] = x)
              => x \in allocated' \ others'
      <4>1. others \subseteq allocated  BY DEF ArraysOK, ArrayTypeOK
      <4> QED BY <1>5, <2>4, <4>1
    <3> QED BY <3>1, <3>2, AccountedAs
  <2>8. FreedOK'
    BY <1>0, <1>5, <2>1, <2>2, SMT DEF ArraysOK, FreedOK
  <2> QED BY <1>0, <1>3, <2>5, <2>6, <2>7, <2>8 DEF ArraysOK
<1> QED
  <2>1. \/ /\ UNCHANGED <<allocated, tree>>
           /\ \A U \in Trees : status'[U] = status[U] \/ (U = T /\ status'[U] = "live")
        \/ \E m \in Mutexes : /\ m \notin allocated /\ allocated' = allocated \cup {m}
                              /\ tree' = [tree EXCEPT ![T] = Append(tree[T], m)]
                              /\ UNCHANGED <<status, pc>>
    BY <1>0 DEF allocLoop, FirstFree, IInv, TreeTypeOK
  <2> QED BY <1>4, <1>5, <2>1

\* A round of the loops that free a tree gives back a mutex of the tree's own, which
\* has no owner: kthread_mutex_dealloc succeeds.
LEMMA freeLoopArrays ==
    ASSUME IInv, ArraysOK, OwnersOK, NEW i \in IDs, NEW l \in {"bad", "dealloc"},
           freeLoop(i, l), UNCHANGED others
    PROVE  ArraysOK' /\ OwnersOK' /\ failed' = failed
<1>t. PICK T \in Trees : T = cur[i]
  BY DEF IInv, TreeTypeOK
<1>0. /\ pc[i] = l /\ cur[i] = T /\ status[T] \in {"building", "unbuilding"}
      /\ tree[T] \in Seq(Mutexes) /\ freed[T] \in Nat /\ freed[T] <= Len(tree[T])
      /\ UNCHANGED <<owner, waiters, tid, cur, path>>
  BY <1>t, SMTT(30) DEF freeLoop, IInv, TreeTypeOK, UsersOK, ArraysOK, FreedOK, ArrayTypeOK
<1>1. PICK n \in Nat : n = Len(tree[T])
  BY <1>0, SMT
<1>2. CASE Done(T)
  <2>1. /\ UNCHANGED <<allocated, failed>>
        /\ status' = [status EXCEPT ![T] = "free"] /\ tree' = [tree EXCEPT ![T] = <<>>]
        /\ freed' = [freed EXCEPT ![T] = 0] /\ pc' = [pc EXCEPT ![i] = "idle"]
    BY <1>0, <1>2 DEF freeLoop, Goto
  <2>2. /\ \A U \in Trees \ {T} : /\ tree'[U] = tree[U] /\ freed'[U] = freed[U]
                                  /\ status'[U] = status[U]
        /\ tree'[T] = <<>> /\ freed'[T] = 0 /\ status'[T] = "free"
        /\ \A j \in IDs \ {i} : pc'[j] = pc[j]
        /\ pc'[i] = "idle"
    BY <2>1 DEF IInv, TreeTypeOK, ArraysOK, ArrayTypeOK
  <2>3. /\ \A U \in Trees \ {T} : Entries(U)' = Entries(U)
        /\ Entries(T)' = {}
    BY <2>2, SMT DEF Entries
  <2>4. Entries(T) = {}
    BY <1>0, <1>1, <1>2, SMT DEF Entries, Done
  <2>5. ArrayTypeOK'
    BY <1>0, <2>1 DEF ArraysOK, ArrayTypeOK
  <2>6. ApartOK'
    BY <2>2, <2>3, SMT DEF ArraysOK, ApartOK
  <2>7. MutexesAccounted'
    <3>1. \A m : (\E U \in Trees : \E j \in Entries(U)' : tree'[U][j] = m)
                 <=> \E U \in Trees : \E j \in Entries(U) : tree[U][j] = m
      BY <2>2, <2>3, <2>4, SMT
    <3> QED BY <2>1, <3>1, AccountedAs DEF ArraysOK
  <2>8. FreedOK'
    <3>1. \A j \in IDs : pc'[j] = "alloc" => pc[j] = "alloc" /\ cur[j] \in Trees \ {T}
      BY <1>0, <2>2, SMT DEF IInv, TreeTypeOK, BuilderAlone, Building
    <3>2. freed'[T] <= Len(tree'[T])
      BY <2>2, SMT
    <3> QED BY <1>0, <2>2, <3>1, <3>2, SMTT(30) DEF ArraysOK, FreedOK
  <2>9. OwnersOK'
    <3>1. \A j \in IDs : pc[j] \in Competing => j # i /\ cur[j] \in Trees \ {T}
      BY <1>0 DEF IInv, TreeTypeOK, UsersOK, Competing
    <3>2. "idle" \notin Competing  BY DEF Competing
    <3> QED BY <1>0, <2>2, <3>1, <3>2, OwnersSame
  <2> QED BY <2>1, <2>5, <2>6, <2>7, <2>8, <2>9 DEF ArraysOK
<1>3. CASE ~Done(T)
  <2>0. freed[T] + 1 \in Entries(T) /\ freed[T] + 1 <= n
    BY <1>0, <1>1, <1>3, SMT DEF Entries, Done
  <2>1. PICK m \in Mutexes : m = tree[T][freed[T] + 1]
    BY <2>0, EntriesAre
  <2>2. m \in allocated \ others
    BY <2>0, <2>1, EntriesAre
  <2>3. owner[m] = NoID
    BY <1>0, <2>0, <2>1, OwnerIsLive
  <2>4. /\ allocated' = allocated \ {m} /\ failed' = failed
        /\ freed' = [freed EXCEPT ![T] = freed[T] + 1] /\ UNCHANGED <<status, pc, tree>>
    <3>1. failed' = (failed \/ FALSE) /\ allocated' = allocated \ {m}
          /\ freed' = [freed EXCEPT ![T] = freed[T] + 1] /\ UNCHANGED <<status, pc, tree>>
      BY <1>0, <1>3, <2>1, <2>2, <2>3 DEF freeLoop
    <3>2. failed' = failed  BY <3>1 DEF ArraysOK, ArrayTypeOK
    <3> QED BY <3>1, <3>2, SMTT(30)
  <2>5. /\ \A U \in Trees \ {T} : Entries(U)' = Entries(U)
        /\ Entries(T)' = Entries(T) \ {freed[T] + 1}
        /\ \A U \in Trees \ {T} : freed'[U] = freed[U]
        /\ freed'[T] = freed[T] + 1
    <3>1. freed'[T] = freed[T] + 1 /\ \A U \in Trees \ {T} : freed'[U] = freed[U]
      BY <2>4 DEF ArraysOK, ArrayTypeOK
    <3>2. Entries(T)' = freed[T] + 1 + 1 .. n /\ Entries(T) = freed[T] + 1 .. n
      BY <1>1, <2>4, <3>1 DEF Entries
    <3>3. freed[T] + 1 + 1 .. n = (freed[T] + 1 .. n) \ {freed[T] + 1}
      BY <1>0, SMT
    <3> QED BY <2>4, <3>1, <3>2, <3>3 DEF Entries
  <2>6. ArrayTypeOK'
    BY <1>0, <2>2, <2>4, SMT DEF ArraysOK, ArrayTypeOK
  <2>7. ApartOK'
    BY <2>4, <2>5, SMT DEF ArraysOK, ApartOK
  <2>8. MutexesAccounted'
    <3>1. ASSUME NEW x \in Mutexes
          PROVE  (\E U \in Trees : \E j \in Entries(U)' : tree'[U][j] = x)
                 <=> x # m /\ \E U \in Trees : \E j \in Entries(U) : tree[U][j] = x
      <4>1. ASSUME NEW U \in Trees, NEW j \in Entries(U)', tree'[U][j] = x
            PROVE  x # m /\ j \in Entries(U) /\ tree[U][j] = x
        <5>1. j \in Entries(U) /\ tree[U][j] = x /\ ~(U = T /\ j = freed[T] + 1)
          BY <2>4, <2>5, <4>1
        <5> QED BY <2>0, <2>1, <5>1, SMT DEF ArraysOK, ApartOK
      <4>2. ASSUME x # m, NEW U \in Trees, NEW j \in Entries(U), tree[U][j] = x
            PROVE  j \in Entries(U)' /\ tree'[U][j] = x
        BY <2>1, <2>4, <2>5, <4>2
      <4> QED BY <4>1, <4>2
    <3> QED BY <2>4, <3>1, AccountedAs DEF ArraysOK
  <2>9. FreedOK'
    <3>1. \A j \in IDs : pc[j] = "alloc" => cur[j] \in Trees \ {T}
      BY <1>0 DEF IInv, TreeTypeOK, BuilderAlone, Building
    <3>2. freed'[T] <= Len(tree'[T])
      BY <1>1, <2>0, <2>4, <2>5, SMTT(30)
    <3> QED BY <1>0, <2>4, <2>5, <3>1, <3>2 DEF ArraysOK, FreedOK
  <2>10. OwnersOK'
    BY <1>0, <2>4, OwnersSame
  <2> QED BY <2>4, <2>6, <2>7, <2>8, <2>9, <2>10, SMTT(30) DEF ArraysOK
<1> QED BY <1>2, <1>3

\* The mutexes of other processes are not those of the trees.
LEMMA otherArrays ==
    ASSUME IInv, ArraysOK, OwnersOK, otherAlloc \/ otherDealloc
    PROVE  ArraysOK' /\ OwnersOK' /\ failed' = failed
<1>1. UNCHANGED <<owner, waiters, freed, status, tree, tid, pc, cur, path, failed>>
  BY DEF otherAlloc, otherDealloc
<1>2. allocated' \ others' = allocated \ others /\ others' \subseteq allocated'
      /\ allocated' \subseteq Mutexes
  BY DEF otherAlloc, otherDealloc, FirstFree, ArraysOK, ArrayTypeOK
<1>3. ArrayTypeOK' /\ FreedOK' /\ ApartOK'
  BY <1>1, <1>2, SMT DEF ArraysOK, ArrayTypeOK, FreedOK, ApartOK, Entries
<1>4. MutexesAccounted'
  BY <1>1, <1>2 DEF ArraysOK, MutexesAccounted, Holds
<1>5. OwnersOK'
  BY <1>1, OwnersSame
<1> QED BY <1>1, <1>3, <1>4, <1>5 DEF ArraysOK

-----------------------------------------------------------------------------
\* Who competes leaves the arrays alone.
LEMMA ArraysSame ==
    ASSUME ArraysOK, UNCHANGED <<freed, allocated, others, status, tree, failed>>,
           path' \in [IDs -> Seq(Nodes)],
           \A j \in IDs : pc'[j] = "alloc" => pc[j] = "alloc" /\ cur'[j] = cur[j]
    PROVE  ArraysOK'
<1>1. ArrayTypeOK' /\ FreedOK' /\ ApartOK'
  BY SMT DEF ArraysOK, ArrayTypeOK, FreedOK, ApartOK, Entries
<1>2. MutexesAccounted'
  BY SMT DEF ArraysOK, MutexesAccounted, Holds
<1> QED BY <1>1, <1>2 DEF ArraysOK

\* The leaf, and the nodes above it, are nodes of the tree.
LEMMA NodesInTree ==
    /\ \A i \in IDs : Leaf(i) \in Nodes
    /\ \A n \in Nodes : n # 0 => Parent(n) \in Nodes /\ Parent(n) < n
    /\ \A n \in Nodes : n \in Nat
<1>1. size \in Nat /\ size >= 1 /\ size + 1 = 2^depth
  BY TreeAssumption, SMT DEF size
<1>2. ASSUME NEW i \in IDs PROVE Leaf(i) \in Nodes
  <2>1. i \in 0 .. size  BY TreeAssumption DEF size
  <2> QED BY <1>1, <2>1, SMT DEF Leaf, Nodes
<1>3. ASSUME NEW n \in Nodes, n # 0 PROVE Parent(n) \in Nodes /\ Parent(n) < n
  BY <1>1, <1>3, SMT DEF Parent, Nodes
<1>4. \A n \in Nodes : n \in Nat
  BY <1>1, SMT DEF Nodes
<1> QED BY <1>2, <1>3, <1>4

\* trnmnt_tree_acquire starts at the leaf with nothing.
LEMMA acquireOwners ==
    ASSUME IInv, ArraysOK, OwnersOK, NEW i \in IDs, NEW T \in Trees,
           trnmnt_tree_acquire(i, T), UNCHANGED others
    PROVE  ArraysOK' /\ OwnersOK' /\ failed' = failed
<1>1. /\ UNCHANGED <<freed, owner, waiters, allocated, status, tree, failed>>
      /\ pc[i] = "idle" /\ pc[i] \notin Competing
  BY DEF trnmnt_tree_acquire, kernel, Competing
<1>2. /\ \A j \in IDs \ {i} : pc'[j] = pc[j] /\ cur'[j] = cur[j] /\ path'[j] = path[j]
      /\ pc'[i] = "lock" /\ path'[i] = <<Leaf(i)>>
  BY DEF trnmnt_tree_acquire, Goto, IInv, TreeTypeOK, ArraysOK, ArrayTypeOK
<1>3. path' \in [IDs -> Seq(Nodes)]
  BY NodesInTree, SMTT(30) DEF trnmnt_tree_acquire, ArraysOK, ArrayTypeOK
<1>4. ArraysOK'
  BY <1>1, <1>2, <1>3, ArraysSame, ZenonT(80)
<1>5. \A j \in IDs \ {i} : \A k : PathNode(j, k)' = PathNode(j, k)
  BY <1>1, <1>2, ZenonT(40) DEF PathNode
<1>6. PathsOK'
  <2>1. Len(path'[i]) = 1  BY <1>2, SMT
  <2>2. \A j, k \in 1 .. 1 : ~(j < k)  BY SMT
  <2>3. /\ Len(path'[i]) > 0
        /\ \A j, k \in 1 .. Len(path'[i]) : j < k => path'[i][k] < path'[i][j]
    BY <2>1, <2>2, SMT
  <2> QED BY <1>2, <2>3, SMTT(30) DEF OwnersOK, PathsOK
<1>7. OwnsOK'
  <2> SUFFICES ASSUME NEW j \in IDs, NEW k \in 1 .. Len(path'[j]),
                      \/ pc'[j] \in {"won", "crit", "unlock"}
                      \/ pc'[j] \in {"lock", "waiting"} /\ k < Len(path'[j])
               PROVE  owner'[PathNode(j, k)'] = j
    BY DEF OwnsOK, PathNode
  <2>1. j # i
    <3>1. Len(path'[i]) = 1  BY <1>2, SMT
    <3>2. j = i => k \in 1 .. 1 /\ k < 1  BY <1>2, <3>1
    <3> QED BY <3>2, SMT
  <2> QED BY <1>1, <1>2, <1>5, <2>1, SMT DEF OwnersOK, OwnsOK
<1>8. OwnedOK'
  <2> SUFFICES ASSUME NEW m \in Mutexes, owner[m] # NoID
               PROVE  /\ pc'[owner[m]] \in Competing
                      /\ \E k \in 1 .. Len(path'[owner[m]]) : m = PathNode(owner[m], k)'
    BY <1>1 DEF OwnedOK, PathNode
  <2>1. PICK j \in IDs : j = owner[m]  BY DEF IInv, TreeTypeOK
  <2>2. pc[j] \in Competing /\ \E k \in 1 .. Len(path[j]) : m = PathNode(j, k)
    BY <2>1 DEF OwnersOK, OwnedOK
  <2>3. j # i  BY <1>1, <2>2, SMTT(30)
  <2>4. pc'[j] \in Competing /\ \E k \in 1 .. Len(path'[j]) : m = PathNode(j, k)'
    BY <1>2, <1>5, <2>2, <2>3, SMTT(30)
  <2> QED BY <1>1, <2>1, <2>4, ZenonT(40) DEF PathNode
<1>9. WaitersOK'
  <2> SUFFICES ASSUME NEW m \in Mutexes, NEW w \in waiters[m]
               PROVE  pc'[w] = "waiting" /\ m = Node(w)' /\ owner[m] # w
    BY <1>1 DEF WaitersOK
  <2>1. w \in IDs /\ pc[w] = "waiting" /\ m = Node(w) /\ owner[m] # w
    BY SMTT(30) DEF OwnersOK, WaitersOK, IInv, TreeTypeOK
  <2>2. w # i  BY <1>1, <2>1
  <2> QED BY <1>1, <1>2, <2>1, <2>2, ZenonT(40) DEF Node, index
<1> QED BY <1>1, <1>4, <1>6, <1>7, <1>8, <1>9 DEF OwnersOK

\* The end of the call of a thread that has locked its node: the climb.
LEMMA ClimbOwners ==
    ASSUME IInv, ArraysOK, OwnersOK, NEW i \in IDs, Climb(i), UNCHANGED <<waiters, others>>,
           \/ pc[i] = "lock" /\ owner[Node(i)] = NoID
           \/ pc[i] = "waiting" /\ owner[Node(i)] = i,
           owner' = [owner EXCEPT ![Node(i)] = i]
    PROVE  ArraysOK' /\ OwnersOK' /\ failed' = failed
<1>0. /\ UNCHANGED <<freed, allocated, status, tree, tid, cur, failed>>
      /\ pc[i] \in Competing
  BY DEF Climb, Competing
<1>1. PICK n \in Nat : n = Len(path[i]) /\ n > 0
  BY <1>0, SMTT(30) DEF ArraysOK, ArrayTypeOK, OwnersOK, PathsOK
<1>2. n \in 1 .. n /\ Node(i) = PathNode(i, n) /\ index(i) = path[i][n]
  BY <1>1, SMTT(30) DEF Node, index, PathNode
<1>3. PICK m \in Mutexes : m = Node(i)
  BY <1>0, <1>1, <1>2, NodesAre
<1>4. path[i] \in Seq(Nodes) /\ path[i][n] \in Nodes
  BY <1>1, <1>2, SMT DEF ArraysOK, ArrayTypeOK
<1>5. PICK q \in Seq(Nodes) :
        /\ path' = [path EXCEPT ![i] = q]
        /\ \A k \in 1 .. n : q[k] = path[i][k]
        /\ \/ Len(q) = n /\ pc' = [pc EXCEPT ![i] = "won"]
           \/ Len(q) = n + 1 /\ pc' = [pc EXCEPT ![i] = "lock"] /\ q[n + 1] < path[i][n]
  <2>1. CASE AtRoot(i)
    <3>1. path' = [path EXCEPT ![i] = path[i]] /\ pc' = [pc EXCEPT ![i] = "won"]
      BY <2>1 DEF Climb, Goto
    <3> QED BY <1>1, <1>4, <3>1
  <2>2. CASE ~AtRoot(i)
    <3>1. path' = [path EXCEPT ![i] = Append(path[i], Parent(path[i][n]))]
          /\ pc' = [pc EXCEPT ![i] = "lock"]
      BY <1>2, <2>2 DEF Climb, Goto
    <3>2. Parent(path[i][n]) \in Nodes /\ Parent(path[i][n]) < path[i][n]
      BY <1>2, <1>4, <2>2, NodesInTree DEF AtRoot
    <3>3. /\ Append(path[i], Parent(path[i][n])) \in Seq(Nodes)
          /\ Len(Append(path[i], Parent(path[i][n]))) = n + 1
          /\ Append(path[i], Parent(path[i][n]))[n + 1] = Parent(path[i][n])
          /\ \A k \in 1 .. n : Append(path[i], Parent(path[i][n]))[k] = path[i][k]
      BY <1>1, <1>4, <3>2, SMT
    <3> QED BY <3>1, <3>2, <3>3
  <2> QED BY <2>1, <2>2
<1>6. /\ \A j \in IDs \ {i} : pc'[j] = pc[j] /\ path'[j] = path[j]
      /\ path'[i] = q /\ path' \in [IDs -> Seq(Nodes)]
      /\ \/ Len(q) = n /\ pc'[i] = "won"
         \/ Len(q) = n + 1 /\ pc'[i] = "lock" /\ q[n + 1] < path[i][n]
  BY <1>5, SMTT(30) DEF IInv, TreeTypeOK, ArraysOK, ArrayTypeOK
<1>7. ArraysOK'
  BY <1>0, <1>6, ArraysSame, ZenonT(40)
<1>8. /\ \A j \in IDs \ {i} : \A k : PathNode(j, k)' = PathNode(j, k)
      /\ \A k \in 1 .. n : PathNode(i, k)' = PathNode(i, k)
  BY <1>0, <1>5, <1>6 DEF PathNode
<1>9. /\ owner'[m] = i /\ owner[m] \in {NoID, i}
      /\ \A x \in Mutexes \ {m} : owner'[x] = owner[x]
      /\ NoID \notin IDs
  BY <1>3, TreeAssumption, SMT DEF IInv, TreeTypeOK, NoID
<1>10. PathsOK'
  <2>1. \A k \in 1 .. n : path[i][k] \in Nat /\ path[i][n] <= path[i][k]
    <3>1. \A k \in 1 .. n : path[i][k] \in Nat
      BY <1>1, <1>4, NodesInTree, SMT
    <3>2. \A k \in 1 .. n : k < n => path[i][n] < path[i][k]
      BY <1>0, <1>1, <1>2 DEF OwnersOK, PathsOK
    <3>3. \A k \in 1 .. n : k < n \/ k = n  BY SMT
    <3> QED BY <1>2, <3>1, <3>2, <3>3, SMT
  <2>2. \A j, k \in 1 .. n : j < k => q[k] < q[j]
    BY <1>0, <1>1, <1>5 DEF OwnersOK, PathsOK
  <2>3. \A j, k \in 1 .. Len(q) : j < k => q[k] < q[j]
    <3>1. CASE Len(q) = n  BY <2>2, <3>1
    <3>2. CASE Len(q) = n + 1 /\ q[n + 1] < path[i][n]
      <4> SUFFICES ASSUME NEW j \in 1 .. n + 1, NEW k \in 1 .. n + 1, j < k PROVE q[k] < q[j]
        BY <3>2
      <4>1. j \in 1 .. n /\ (k \in 1 .. n \/ k = n + 1)  BY SMT
      <4>2. q[n + 1] \in Nat
        <5>1. n + 1 \in 1 .. Len(q)  BY <3>2, SMT
        <5>2. q[n + 1] \in Nodes  BY <5>1, SMT
        <5> QED BY <5>2, NodesInTree
      <4>3. CASE k \in 1 .. n  BY <2>2, <4>1, <4>3
      <4>4. CASE k = n + 1
        <5>1. q[j] = path[i][j] /\ path[i][j] \in Nat /\ path[i][n] <= path[i][j]
              /\ path[i][n] \in Nat
          BY <1>2, <1>5, <2>1, <4>1, SMTT(30)
        <5> QED BY <3>2, <4>2, <4>4, <5>1, SMT
      <4> QED BY <4>1, <4>3, <4>4
    <3> QED BY <1>6, <3>1, <3>2
  <2>4. Len(q) > 0  BY <1>1, <1>6, SMT
  <2> QED BY <1>6, <2>3, <2>4, SMTT(30) DEF OwnersOK, PathsOK
<1>11. OwnsOK'
  <2> SUFFICES ASSUME NEW j \in IDs, NEW k \in 1 .. Len(path'[j]),
                      \/ pc'[j] \in {"won", "crit", "unlock"}
                      \/ pc'[j] \in {"lock", "waiting"} /\ k < Len(path'[j])
               PROVE  owner'[PathNode(j, k)'] = j
    BY DEF OwnsOK, PathNode
  <2>1. CASE j = i
    <3>1. k \in 1 .. n
      BY <1>6, <2>1, SMT
    <3>2. PathNode(i, k) \in Mutexes
      BY <1>0, <1>1, <3>1, NodesAre
    <3>3. k < n => owner[PathNode(i, k)] = i
      BY <1>1, <3>1 DEF OwnersOK, OwnsOK
    <3>4. k < n \/ k = n  BY <3>1, SMT
    <3> QED BY <1>2, <1>3, <1>8, <1>9, <2>1, <3>1, <3>2, <3>3, <3>4, SMTT(30)
  <2>2. CASE j # i
    <3>1. owner[PathNode(j, k)] = j
      BY <1>6, <2>2 DEF OwnersOK, OwnsOK
    <3>2. pc[j] \in Competing /\ k \in 1 .. Len(path[j])  BY <1>6, <2>2 DEF Competing
    <3>3. PathNode(j, k) \in Mutexes  BY <3>2, NodesAre, SMTT(30)
    <3> QED BY <1>8, <1>9, <2>2, <3>1, <3>3, SMTT(30)
  <2> QED BY <2>1, <2>2, SMTT(30)
<1>12. OwnedOK'
  <2> SUFFICES ASSUME NEW x \in Mutexes, owner'[x] # NoID
               PROVE  /\ pc'[owner'[x]] \in Competing
                      /\ \E k \in 1 .. Len(path'[owner'[x]]) : x = PathNode(owner[x], k)'
    BY SMTT(30) DEF OwnedOK
  <2>1. 1 .. n \subseteq 1 .. Len(q) /\ pc'[i] \in Competing
    BY <1>6, SMTT(30) DEF Competing
  <2>2. CASE x = m
    <3>1. m = PathNode(i, n)'  BY <1>2, <1>3, <1>8
    <3>2. \E k \in 1 .. Len(path'[i]) : m = PathNode(i, k)'  BY <1>2, <1>6, <2>1, <3>1, SMTT(30)
    <3> QED BY <1>9, <2>1, <2>2, <3>2, ZenonT(40) DEF PathNode
  <2>3. CASE x # m
    <3>1. PICK j \in IDs : j = owner[x] /\ j = owner'[x]
      BY <1>9, <2>3 DEF IInv, TreeTypeOK
    <3>2. pc[j] \in Competing /\ \E k \in 1 .. Len(path[j]) : x = PathNode(j, k)
      BY <1>9, <3>1, ZenonT(40) DEF OwnersOK, OwnedOK
    <3>3. pc'[j] \in Competing /\ \E k \in 1 .. Len(path'[j]) : x = PathNode(j, k)'
      <4>1. CASE j = i
        <5>1. PICK k \in 1 .. n : x = PathNode(i, k)  BY <1>1, <3>2, <4>1
        <5>2. x = PathNode(i, k)' /\ k \in 1 .. Len(path'[i])  BY <1>6, <1>8, <2>1, <5>1, SMTT(30)
        <5> QED BY <2>1, <4>1, <5>2
      <4>2. CASE j # i
        BY <1>6, <1>8, <3>2, <4>2, SMTT(30)
      <4> QED BY <4>1, <4>2
    <3> QED BY <3>1, <3>3 DEF PathNode
  <2> QED BY <2>2, <2>3
<1>13. WaitersOK'
  <2> SUFFICES ASSUME NEW x \in Mutexes, NEW w \in waiters[x]
               PROVE  pc'[w] = "waiting" /\ x = Node(w)' /\ owner'[x] # w
    BY DEF WaitersOK
  <2>1. w \in IDs /\ pc[w] = "waiting" /\ x = Node(w) /\ owner[x] # w
    BY DEF OwnersOK, WaitersOK, IInv, TreeTypeOK
  <2>2. w # i
    <3> SUFFICES ASSUME w = i PROVE FALSE
      OBVIOUS
    <3>1. owner[x] = i  BY <2>1, SMTT(30)
    <3> QED BY <2>1, <3>1
  <2> QED BY <1>0, <1>6, <1>9, <2>1, <2>2, ZenonT(40) DEF Node, index
<1> QED BY <1>0, <1>7, <1>10, <1>11, <1>12, <1>13 DEF OwnersOK

\* acquire_helper locks the node it is at, or waits for it.
LEMMA acquire_helperOwners ==
    ASSUME IInv, ArraysOK, OwnersOK, NEW i \in IDs, acquire_helper(i), UNCHANGED others
    PROVE  ArraysOK' /\ OwnersOK' /\ failed' = failed
<1>1. CASE pc[i] = "lock" /\ H!Acquire(i, Node(i)) /\ Climb(i)
  BY <1>1, ClimbOwners DEF H!Acquire
<1>2. CASE pc[i] = "waiting" /\ owner[Node(i)] = i /\ UNCHANGED <<owner, waiters>> /\ Climb(i)
  <2>1. owner' = [owner EXCEPT ![Node(i)] = i]
    BY <1>2 DEF IInv, TreeTypeOK
  <2> QED BY <1>2, <2>1, ClimbOwners
<1>3. CASE /\ pc[i] = "lock" /\ H!Wait(i, Node(i)) /\ Goto(i, "waiting")
           /\ UNCHANGED <<freed, allocated, status, tree, tid, cur, path, failed>>
  <2>0. /\ pc[i] \in Competing /\ \A j \in IDs \ {i} : pc'[j] = pc[j]
        /\ pc'[i] = "waiting" /\ UNCHANGED owner
    BY <1>3, SMTT(30) DEF Competing, Goto, IInv, TreeTypeOK, H!Wait
  <2>1. ArraysOK'
    <3>1. path' \in [IDs -> Seq(Nodes)]  BY <1>3 DEF ArraysOK, ArrayTypeOK
    <3> QED BY <1>3, <2>0, <3>1, ArraysSame
  <2>2. Node(i) \in Mutexes
    <3>1. Len(path[i]) \in 1 .. Len(path[i])
      BY <2>0, SMT DEF ArraysOK, ArrayTypeOK, OwnersOK, PathsOK
    <3>2. PathNode(i, Len(path[i])) \in Mutexes  BY <2>0, <3>1, NodesAre, SMTT(30)
    <3> QED BY <3>2, SMTT(30) DEF Node, index, PathNode
  <2>3. \A j \in IDs : \A k : PathNode(j, k)' = PathNode(j, k)
    BY <1>3 DEF PathNode
  <2>4. PathsOK'
    BY <1>3, <2>0, SMTT(30) DEF OwnersOK, PathsOK, Competing
  <2>5. OwnsOK'
    BY <1>3, <2>0, <2>3, SMTT(30) DEF OwnersOK, OwnsOK, PathNode
  <2>6. OwnedOK'
    <3>1. \A j \in IDs : pc[j] \in Competing => pc'[j] \in Competing
      BY <2>0 DEF Competing
    <3>2. \A m \in Mutexes : owner[m] # NoID => owner[m] \in IDs
      BY DEF IInv, TreeTypeOK
    <3> QED BY <1>3, <2>0, <3>1, <3>2 DEF OwnersOK, OwnedOK, PathNode
  <2>7. WaitersOK'
    <3> SUFFICES ASSUME NEW m \in Mutexes, NEW w \in waiters'[m]
                 PROVE  pc'[w] = "waiting" /\ m = Node(w)' /\ owner'[m] # w
      BY DEF WaitersOK
    <3>1. (w = i /\ m = Node(i)) \/ w \in waiters[m]
      BY <1>3, <2>2, SMTT(30) DEF H!Wait, IInv, TreeTypeOK
    <3>2. CASE w = i /\ m = Node(i)
      BY <1>3, <2>0, <3>2, ZenonT(80) DEF H!Wait, Node, index
    <3>3. CASE w \in waiters[m]
      <4>1. w \in IDs /\ pc[w] = "waiting" /\ m = Node(w) /\ owner[m] # w
        BY <3>3 DEF OwnersOK, WaitersOK, IInv, TreeTypeOK
      <4> QED BY <1>3, <2>0, <4>1, ZenonT(40) DEF Node, index
    <3> QED BY <3>1, <3>2, <3>3
  <2> QED BY <1>3, <2>1, <2>4, <2>5, <2>6, <2>7 DEF OwnersOK
<1> QED BY <1>1, <1>2, <1>3 DEF acquire_helper

\* In the critical section a thread keeps all the mutexes of its way.
LEMMA critOwners ==
    ASSUME IInv, ArraysOK, OwnersOK, NEW i \in IDs, won(i) \/ trnmnt_tree_release(i),
           UNCHANGED others
    PROVE  ArraysOK' /\ OwnersOK' /\ failed' = failed
<1>0. /\ UNCHANGED <<freed, owner, waiters, allocated, status, tree, cur, path, failed>>
      /\ pc[i] \in {"won", "crit"} /\ pc'[i] \in {"crit", "unlock"}
      /\ \A j \in IDs \ {i} : pc'[j] = pc[j]
  BY SMTT(30) DEF won, trnmnt_tree_release, kernel, Goto, IInv, TreeTypeOK
<1>1. ArraysOK'
  <2>1. path' \in [IDs -> Seq(Nodes)]  BY <1>0, SMTT(30) DEF ArraysOK, ArrayTypeOK
  <2> QED BY <1>0, <2>1, ArraysSame, SMTT(30)
<1>2. \A j \in IDs : \A k : PathNode(j, k)' = PathNode(j, k)
  BY <1>0 DEF PathNode
<1>3. PathsOK'
  BY <1>0, SMTT(30) DEF OwnersOK, PathsOK, Competing
<1>4. OwnsOK'
  BY <1>0, <1>2, SMTT(30) DEF OwnersOK, OwnsOK, PathNode
<1>5. OwnedOK'
  <2>1. \A j \in IDs : pc[j] \in Competing => pc'[j] \in Competing
    BY <1>0 DEF Competing
  <2>2. \A m \in Mutexes : owner[m] # NoID => owner[m] \in IDs
    BY SMTT(30) DEF IInv, TreeTypeOK
  <2> QED BY <1>0, <2>1, <2>2, SMTT(30) DEF OwnersOK, OwnedOK, PathNode
<1>6. WaitersOK'
  <2> SUFFICES ASSUME NEW m \in Mutexes, NEW w \in waiters[m]
               PROVE  pc'[w] = "waiting" /\ m = Node(w)' /\ owner[m] # w
    BY <1>0 DEF WaitersOK
  <2>1. w \in IDs /\ pc[w] = "waiting" /\ m = Node(w) /\ owner[m] # w
    BY DEF OwnersOK, WaitersOK, IInv, TreeTypeOK
  <2> QED BY <1>0, <2>1, ZenonT(80) DEF Node, index
<1> QED BY <1>0, <1>1, <1>3, <1>4, <1>5, <1>6 DEF OwnersOK

\* release_helper unlocks what the thread owns, the last of it at its leaf.
LEMMA release_helperOwners ==
    ASSUME IInv, ArraysOK, OwnersOK, NEW i \in IDs, release_helper(i), UNCHANGED others
    PROVE  ArraysOK' /\ OwnersOK' /\ failed' = failed
<1>0. pc[i] = "unlock" /\ pc[i] \in Competing
      /\ UNCHANGED <<freed, allocated, status, tree, tid, cur>>
  BY DEF release_helper, Competing
<1>1. PICK n \in Nat : n = Len(path[i]) /\ n > 0
  BY <1>0, SMT DEF ArraysOK, ArrayTypeOK, OwnersOK, PathsOK
<1>a. n \in Nat /\ n > 0
  BY <1>1
<1>2. n \in 1 .. n /\ Node(i) = PathNode(i, n)
  BY <1>1, SMT DEF Node, index, PathNode
<1>3. PICK m \in Mutexes : m = Node(i)
  BY <1>0, <1>1, <1>2, NodesAre, SMTT(30)
<1>4. owner[m] = i
  BY <1>0, <1>1, <1>2, <1>3 DEF OwnersOK, OwnsOK
<1>5. /\ H!Release(i, m) /\ UNCHANGED failed
      /\ pc' = [pc EXCEPT ![i] = IF n = 1 THEN "idle" ELSE "unlock"]
      /\ path' = [path EXCEPT ![i] = SubSeq(path[i], 1, n - 1)]
  BY <1>1, <1>3, <1>4 DEF release_helper, unlock, Goto, AtLeaf
<1>6. PICK q \in Seq(Nodes) :
        /\ q = SubSeq(path[i], 1, n - 1) /\ Len(q) = n - 1
        /\ \A k \in 1 .. n - 1 : q[k] = path[i][k]
  <2>1. path[i] \in Seq(Nodes)  BY DEF ArraysOK, ArrayTypeOK
  <2>2. n - 1 \in Nat /\ n - 1 <= Len(path[i])  BY <1>1, SMT
  <2>3. /\ SubSeq(path[i], 1, n - 1) \in Seq(Nodes) /\ Len(SubSeq(path[i], 1, n - 1)) = n - 1
        /\ \A k \in 1 .. n - 1 : SubSeq(path[i], 1, n - 1)[k] = path[i][k]
    BY <2>1, <2>2, FrontIs
  <2> QED  BY <2>3
<1>7. /\ path' \in [IDs -> Seq(Nodes)] /\ path'[i] = q
      /\ \A j \in IDs \ {i} : pc'[j] = pc[j] /\ path'[j] = path[j]
      /\ pc'[i] = IF n = 1 THEN "idle" ELSE "unlock"
  BY <1>5, <1>6 DEF IInv, TreeTypeOK, ArraysOK, ArrayTypeOK
<1>8. ArraysOK'
  BY <1>0, <1>5, <1>7, ArraysSame, SMT
<1>9. /\ \A j \in IDs \ {i} : \A k : PathNode(j, k)' = PathNode(j, k)
      /\ \A k \in 1 .. n - 1 : PathNode(i, k)' = PathNode(i, k)
  BY <1>0, <1>6, <1>7 DEF PathNode
<1>10. \A k \in 1 .. n - 1 : k \in 1 .. n /\ PathNode(i, k) \in Mutexes \ {m}
  <2> SUFFICES ASSUME NEW k \in 1 .. n - 1
               PROVE  k \in 1 .. n /\ PathNode(i, k) \in Mutexes \ {m}
    OBVIOUS
  <2>1. k \in 1 .. n /\ k # n  BY <1>1, SMT
  <2>2. PathNode(i, k) \in Mutexes  BY <1>0, <1>1, <2>1, NodesAre
  <2>3. PathNode(i, k) # m
    BY <1>0, <1>1, <1>2, <1>3, <2>1, NodesApart
  <2> QED BY <2>1, <2>2, <2>3
<1>11. /\ \A x \in Mutexes \ {m} : owner'[x] = owner[x] /\ waiters'[x] = waiters[x]
       /\ waiters'[m] \subseteq waiters[m] /\ owner'[m] \notin waiters'[m]
       /\ owner'[m] = NoID \/ owner'[m] \in waiters[m]
  <2>1. NoID \notin IDs  BY TreeAssumption, SMT DEF NoID
  <2>2. waiters[m] \subseteq IDs  BY DEF IInv, TreeTypeOK
  <2> QED BY <1>5, <2>1, <2>2, SMT DEF H!Release, IInv, TreeTypeOK
<1>12. \A w \in waiters[m] :
          w \in IDs \ {i} /\ pc[w] = "waiting" /\ m = Node(w)
  BY <1>4, <1>0, SMTT(30) DEF OwnersOK, WaitersOK, IInv, TreeTypeOK
<1>13. PathsOK'
  <2>1. n # 1 => Len(q) > 0
    <3>1. n # 1 => n - 1 > 0  BY <1>a, SMT
    <3> QED BY <1>6, <3>1
  <2>2. \A j, k \in 1 .. n - 1 : j < k => q[k] < q[j]
    BY <1>0, <1>1, <1>6, <1>10, ZenonT(40) DEF OwnersOK, PathsOK
  <2>3. pc'[i] \in Competing => n # 1  BY <1>7 DEF Competing
  <2> QED BY <1>6, <1>7, <2>1, <2>2, <2>3, SMTT(30) DEF OwnersOK, PathsOK
<1>14. OwnsOK'
  <2> SUFFICES ASSUME NEW j \in IDs, NEW k \in 1 .. Len(path'[j]),
                      \/ pc'[j] \in {"won", "crit", "unlock"}
                      \/ pc'[j] \in {"lock", "waiting"} /\ k < Len(path'[j])
               PROVE  owner'[PathNode(j, k)'] = j
    BY SMTT(30) DEF OwnsOK, PathNode
  <2>1. CASE j = i
    <3>1. k \in 1 .. n - 1  BY <1>6, <1>7, <2>1, SMTT(30)
    <3>2. owner[PathNode(i, k)] = i
      BY <1>0, <1>1, <1>10, <3>1, SMTT(30) DEF OwnersOK, OwnsOK
    <3> QED BY <1>9, <1>10, <1>11, <2>1, <3>1, <3>2, SMTT(30)
  <2>2. CASE j # i
    <3>1. owner[PathNode(j, k)] = j
      BY <1>7, <2>2 DEF OwnersOK, OwnsOK
    <3>2. pc[j] \in Competing /\ k \in 1 .. Len(path[j])  BY <1>7, <2>2, SMTT(30) DEF Competing
    <3>3. PathNode(j, k) \in Mutexes  BY <3>2, NodesAre
    <3> QED BY <1>4, <1>9, <1>11, <2>2, <3>1, <3>3, SMTT(30)
  <2> QED BY <2>1, <2>2
<1>15. OwnedOK'
  <2> SUFFICES ASSUME NEW x \in Mutexes, owner'[x] # NoID
               PROVE  /\ pc'[owner'[x]] \in Competing
                      /\ \E k \in 1 .. Len(path'[owner'[x]]) : x = PathNode(owner[x], k)'
    BY SMTT(30) DEF OwnedOK
  <2>1. CASE x = m
    <3>1. PICK w \in IDs \ {i} : w = owner'[m] /\ pc[w] = "waiting" /\ m = Node(w)
      BY <1>11, <1>12, <2>1, SMTT(30)
    <3>2. pc[w] \in Competing /\ pc'[w] \in Competing  BY <1>7, <3>1, SMTT(30) DEF Competing
    <3>3. Len(path[w]) \in 1 .. Len(path[w])
      BY <3>1, <3>2, SMTT(30) DEF ArraysOK, ArrayTypeOK, OwnersOK, PathsOK
    <3>4. m = PathNode(w, Len(path[w]))  BY <3>1 DEF Node, index, PathNode
    <3>5. \E k \in 1 .. Len(path'[w]) : m = PathNode(w, k)'
      BY <1>7, <1>9, <3>3, <3>4, SMT
    <3> QED BY <2>1, <3>1, <3>2, <3>5, ZenonT(40) DEF PathNode
  <2>2. CASE x # m
    <3>1. PICK j \in IDs : j = owner[x] /\ j = owner'[x]
      BY <1>11, <2>2, SMTT(30) DEF IInv, TreeTypeOK
    <3>2. pc[j] \in Competing /\ \E k \in 1 .. Len(path[j]) : x = PathNode(j, k)
      BY <1>11, <3>1 DEF OwnersOK, OwnedOK
    <3>3. pc'[j] \in Competing /\ \E k \in 1 .. Len(path'[j]) : x = PathNode(j, k)'
      <4>1. CASE j = i
        <5>1. PICK k \in 1 .. n : x = PathNode(i, k)  BY <1>1, <3>2, <4>1
        <5>2. k # n  BY <1>2, <1>3, <2>2, <5>1
        <5>3. k \in 1 .. n - 1 /\ n # 1
          <6>1. k \in 1 .. n /\ k # n  BY <5>2, SMTT(30)
          <6> QED BY <1>a, <6>1, SMT
        <5>4. pc'[i] \in Competing  BY <1>7, <5>3, SMTT(30) DEF Competing
        <5> QED BY <1>6, <1>7, <1>9, <4>1, <5>1, <5>3, <5>4
      <4>2. CASE j # i
        BY <1>7, <1>9, <3>2, <4>2, ZenonT(80)
      <4> QED BY <4>1, <4>2
    <3> QED BY <3>1, <3>3, ZenonT(60) DEF PathNode
  <2> QED BY <2>1, <2>2
<1>16. WaitersOK'
  <2> SUFFICES ASSUME NEW x \in Mutexes, NEW w \in waiters'[x]
               PROVE  pc'[w] = "waiting" /\ x = Node(w)' /\ owner'[x] # w
    BY DEF WaitersOK
  <2>1. w \in waiters[x]  BY <1>11, SMTT(30)
  <2>2. w \in IDs /\ pc[w] = "waiting" /\ x = Node(w) /\ owner[x] # w
    BY <2>1 DEF OwnersOK, WaitersOK, IInv, TreeTypeOK
  <2>3. w # i  BY <1>0, <2>2, SMTT(30)
  <2>4. owner'[x] # w
    BY <1>11, <2>2
  <2> QED BY <1>0, <1>7, <2>2, <2>3, <2>4, ZenonT(40) DEF Node, index
<1> QED BY <1>5, <1>8, <1>13, <1>14, <1>15, <1>16, SMTT(30) DEF OwnersOK

-----------------------------------------------------------------------------
\* The second invariant, and that no call has failed.
LEMMA AccountInvariant == Spec => [](ArraysOK /\ OwnersOK /\ NoTreeError)
<1>1. Init => ArraysOK /\ OwnersOK /\ NoTreeError
  <2> SUFFICES ASSUME Init PROVE ArraysOK /\ OwnersOK /\ NoTreeError
    OBVIOUS
  <2>1. /\ \A T \in Trees : tree[T] = <<>> /\ freed[T] = 0 /\ status[T] = "free"
        /\ allocated = {} /\ others = {} /\ failed = FALSE
        /\ \A i \in IDs : pc[i] = "idle" /\ path[i] = <<>>
        /\ \A m \in Mutexes : owner[m] = NoID /\ waiters[m] = {}
    BY DEF Init, H!Init
  <2>2. \A T \in Trees : Entries(T) = {}
    BY <2>1, SMT DEF Entries
  <2>3. ArrayTypeOK /\ FreedOK
    <3>1. /\ path \in [IDs -> Seq(Nodes)] /\ freed \in [Trees -> Nat]
          /\ Len(<<>>) = 0
      BY SMT DEF Init
    <3>2. \A T \in Trees : Len(tree[T]) = 0 /\ freed[T] <= Len(tree[T])
      BY <2>1, <3>1, SMT
    <3>3. ArrayTypeOK  BY <2>1, <3>1 DEF ArrayTypeOK
    <3>4. FreedOK  BY <2>1, <3>2 DEF FreedOK
    <3> QED BY <3>3, <3>4
  <2>4. ApartOK /\ MutexesAccounted
    BY <2>1, <2>2, AccountedAs DEF ApartOK
  <2>5. OwnersOK
    BY <2>1 DEF OwnersOK, PathsOK, OwnsOK, OwnedOK, WaitersOK, Competing
  <2> QED BY <2>1, <2>3, <2>4, <2>5 DEF ArraysOK, NoTreeError
<1>2. IInv /\ ArraysOK /\ OwnersOK /\ NoTreeError /\ [Next]_vars
        => (ArraysOK /\ OwnersOK /\ NoTreeError)'
  <2> SUFFICES ASSUME IInv, ArraysOK, OwnersOK, NoTreeError, [Next]_vars
               PROVE  (ArraysOK /\ OwnersOK)' /\ failed' = failed
    BY DEF NoTreeError
  <2>1. ASSUME NEW i \in IDs, Step(i), UNCHANGED others
        PROVE  (ArraysOK /\ OwnersOK)' /\ failed' = failed
    BY <2>1, allocLoopArrays, freeLoopArrays, acquire_helperOwners, critOwners,
       release_helperOwners DEF Step
  <2>2. ASSUME NEW i \in IDs, NEW T \in Trees, Call(i, T), UNCHANGED others
        PROVE  (ArraysOK /\ OwnersOK)' /\ failed' = failed
    BY <2>2, allocArrays, acquireOwners, SMTT(30) DEF Call
  <2>3. CASE UNCHANGED vars
    <3>1. UNCHANGED <<freed, allocated, others, status, tree, failed, owner, waiters, path, pc, cur>>
      BY <2>3 DEF vars
    <3>2. path' \in [IDs -> Seq(Nodes)]  BY <3>1 DEF ArraysOK, ArrayTypeOK
    <3> QED BY <3>1, <3>2, ArraysSame, OwnersSame, ZenonT(40)
  <2> QED BY <2>1, <2>2, <2>3, otherArrays DEF Next
<1> QED BY <1>1, <1>2, TreeInvariant, PTL DEF Spec

\* No mutex is lost or shared, for any number of trees of any depth: those given out
\* are the trees' and the other processes', also after an allocation that failed.
THEOREM MutexesAreAccounted == Spec => []MutexesAccounted
BY AccountInvariant, PTL DEF ArraysOK

\* The calls of threads that use the trees as intended succeed: no unlock and no
\* dealloc of the tree's mutexes returns -1.
THEOREM CallsSucceed == Spec => []NoTreeError
BY AccountInvariant, PTL

\* trnmnt_tree_tid, read in the critical section, is the reader's ID.
THEOREM TidCorrect == Spec => []TidIsWinner
<1> DEFINE TidInv == DOMAIN tid = Trees /\ TidIsWinner
<1>1. Init => TidInv
  BY SMTT(30) DEF Init, TidIsWinner
<1>2. IInv /\ TidInv /\ [Next]_vars => TidInv'
  <2> SUFFICES ASSUME IInv, TidInv, [Next]_vars PROVE TidInv'
    BY SMTT(30)
  <2> USE DEF TidIsWinner, IInv, TreeTypeOK
  <2>1. CASE UNCHANGED <<tid, cur>> /\ \A j \in IDs : pc'[j] = "crit" => pc[j] = "crit"
    BY <2>1, ZenonT(40)
  <2>2. ASSUME NEW i \in IDs, NEW T \in Trees,
               trnmnt_tree_dealloc(i, T) \/ trnmnt_tree_acquire(i, T)
        PROVE  TidInv'
    BY <2>2, ZenonT(60) DEF trnmnt_tree_dealloc, trnmnt_tree_acquire, Goto
  <2>3. ASSUME NEW i \in IDs, NEW T \in Trees, trnmnt_tree_alloc(i, T)
        PROVE  TidInv'
    <3>1. \A j \in IDs : pc[j] = "crit" => cur[j] # T
      BY <2>3 DEF trnmnt_tree_alloc, UsersOK, Competing
    <3> QED BY <2>3, <3>1 DEF trnmnt_tree_alloc, Goto
  <2>4. ASSUME NEW i \in IDs, won(i) \/ trnmnt_tree_release(i) PROVE TidInv'
    <3>1. \A j \in IDs \ {i} : pc[j] = "crit" => cur[j] # cur[i]
      BY <2>4 DEF won, trnmnt_tree_release, WinnerOK
    <3>2. CASE won(i)  BY <3>1, <3>2 DEF won, Goto
    <3>3. CASE trnmnt_tree_release(i)  BY <3>1, <3>3, SMTT(30) DEF trnmnt_tree_release, Goto
    <3> QED BY <2>4, <3>2, <3>3
  <2>5. ASSUME NEW i \in IDs, Step(i) PROVE TidInv'
    <3>1. CASE allocLoop(i)  BY <2>1, <3>1, SMTT(30) DEF allocLoop, Goto
    <3>2. ASSUME NEW l, freeLoop(i, l) PROVE TidInv'  BY <2>1, <3>2, ZenonT(40) DEF freeLoop, Goto
    <3>3. CASE acquire_helper(i)  BY <2>1, <3>3 DEF acquire_helper, Climb, Goto
    <3>4. CASE release_helper(i)  BY <2>1, <3>4, SMTT(30) DEF release_helper, Goto
    <3> QED BY <2>4, <2>5, <3>1, <3>2, <3>3, <3>4, ZenonT(80) DEF Step
  <2>6. CASE otherAlloc \/ otherDealloc \/ UNCHANGED vars
    BY <2>1, <2>6 DEF otherAlloc, otherDealloc, vars
  <2> QED BY <2>2, <2>3, <2>5, <2>6 DEF Next, Call
<1> QED BY <1>1, <1>2, TreeInvariant, PTL DEF Spec
===============================================================================
