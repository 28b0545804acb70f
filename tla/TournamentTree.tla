----------------------------- MODULE TournamentTree -----------------------------
(***************************************************************************)
(* The tournament tree (tournament_tree.c), a user-level lock for up to    *)
(* 2^depth threads made of one kthread mutex per inner node.  The mutexes  *)
(* are those of HandoffMutex, which KMutex implements; here no thread is   *)
(* killed.  A thread is named by the ID it competes with; as in sanity.c,  *)
(* no two threads use the same ID, every ID has a leaf, and a tree is      *)
(* freed when no thread is using it.                                       *)
(*                                                                         *)
(* Grain of atomicity: one system call, or one access to the tree.         *)
(***************************************************************************)
EXTENDS Integers, Sequences, FiniteSets

CONSTANTS
    depth,        \* the depth all the trees are allocated with
    IDs,          \* the threads
    Trees,        \* the trees they use
    MAX_MUTEXES

ASSUME TreeAssumption ==
    /\ depth \in Nat \ {0} /\ 2^depth \in Nat /\ 2^depth >= 2 /\ MAX_MUTEXES \in Nat
    /\ IDs \subseteq 0 .. 2^depth - 1 /\ IDs \subseteq 0 .. 16

Mutexes == 0 .. MAX_MUTEXES - 1
size == 2^depth - 1
Nodes == 0 .. size - 1
NoID == -1
Status == {"free", "building", "live", "unbuilding"}
Point == {"idle", "alloc", "bad", "dealloc", "lock", "waiting", "won", "crit", "unlock"}

VARIABLES
    owner, waiters,   \* the kthread mutexes
    allocated,        \* the ids kthread_mutex_alloc has given out
    others,           \* those among them that other processes have
    status,           \* of the memory of a tree
    tree, tid,        \* struct trnmnt_tree
    freed,            \* the loop variable j: the mutexes of the tree freed so far
    pc, cur, path,    \* per thread: point, tree, nodes from its leaf to where it is
    failed            \* whether a call that must succeed has returned -1

kernel == <<owner, waiters, allocated>>
vars == <<owner, waiters, allocated, others, status, tree, tid, freed, pc, cur, path, failed>>

H == INSTANCE HandoffMutex WITH Clients <- IDs, Nobody <- NoID

TypeOK ==
    /\ owner \in [Mutexes -> IDs \cup {NoID}]
    /\ waiters \in [Mutexes -> SUBSET IDs]
    /\ allocated \subseteq Mutexes /\ others \subseteq allocated
    /\ status \in [Trees -> Status]
    /\ tree \in [Trees -> Seq(Mutexes)]
    /\ tid \in [Trees -> IDs \cup {NoID}] /\ freed \in [Trees -> 0 .. size]
    /\ pc \in [IDs -> Point] /\ cur \in [IDs -> Trees]
    /\ path \in [IDs -> Seq(Nodes)] /\ failed \in BOOLEAN

Init ==
    /\ H!Init /\ allocated = {} /\ others = {}
    /\ status = [T \in Trees |-> "free"] /\ tree = [T \in Trees |-> <<>>]
    /\ tid = [T \in Trees |-> NoID] /\ freed = [T \in Trees |-> 0]
    /\ pc = [i \in IDs |-> "idle"] /\ cur \in [IDs -> Trees]
    /\ path = [i \in IDs |-> <<>>] /\ failed = FALSE

-----------------------------------------------------------------------------
\* The node a thread starts at, the one above a node, and the one it is at.
Leaf(ID) == (size + ID - 1) \div 2
Parent(n) == (n - 1) \div 2
index(i) == path[i][Len(path[i])]

Goto(i, l) == pc' = [pc EXCEPT ![i] = l]
Node(i) == tree[cur[i]][index(i) + 1]
InUse(T) == \E i \in IDs : cur[i] = T /\ pc[i] # "idle"

\* What kthread_mutex_alloc returns: the first free id.
FirstFree(m) == m \notin allocated /\ \A n \in Mutexes \ allocated : m <= n

-----------------------------------------------------------------------------
trnmnt_tree_alloc(i, T) ==
    /\ pc[i] = "idle" /\ status[T] = "free" /\ Goto(i, "alloc")
    /\ status' = [status EXCEPT ![T] = "building"] /\ tree' = [tree EXCEPT ![T] = <<>>]
    /\ \E old \in IDs \cup {NoID} : tid' = [tid EXCEPT ![T] = old]   \* as malloc left it
    /\ cur' = [cur EXCEPT ![i] = T]
    /\ UNCHANGED <<freed, kernel, path, failed>>

\* One round of the loop; it fails when there are no mutexes left.
allocLoop(i) ==
    LET T == cur[i] IN
    /\ pc[i] = "alloc"
    /\ \/ /\ Len(tree[T]) = size
          /\ status' = [status EXCEPT ![T] = "live"]
          /\ Goto(i, "idle")
          /\ UNCHANGED <<allocated, tree>>
       \/ \E m \in Mutexes :
             /\ Len(tree[T]) < size /\ FirstFree(m)
             /\ allocated' = allocated \cup {m} /\ tree' = [tree EXCEPT ![T] = Append(@, m)]
             /\ UNCHANGED <<status, pc>>
       \/ /\ Len(tree[T]) < size /\ Mutexes \subseteq allocated
          /\ Goto(i, "bad")
          /\ UNCHANGED <<allocated, status, tree>>
    /\ UNCHANGED <<freed, owner, waiters, tid, cur, path, failed>>

\* One round of the loops that free the mutexes.  kthread_mutex_dealloc refuses
\* a locked mutex: trnmnt_tree_dealloc then gives up, the loop after "bad" goes
\* on to the next.  (Mutant: the last mutex is not freed.)
DoneEarly(T) == freed[T] + 1 >= Len(tree[T])
Done(T) == freed[T] >= Len(tree[T])
freeLoop(i, l) ==
    LET T == cur[i]
        m == tree[T][freed[T] + 1]
        ok == m \in allocated /\ owner[m] = NoID
    IN
    /\ pc[i] = l
    /\ \/ /\ Done(T)
          /\ status' = [status EXCEPT ![T] = "free"] /\ tree' = [tree EXCEPT ![T] = <<>>]
          /\ freed' = [freed EXCEPT ![T] = 0]
          /\ Goto(i, "idle")
          /\ UNCHANGED <<allocated, failed>>
       \/ /\ ~Done(T)
          /\ allocated' = IF ok THEN allocated \ {m} ELSE allocated
          /\ failed' = (failed \/ ~ok)
          /\ IF ok \/ l = "bad"
             THEN /\ freed' = [freed EXCEPT ![T] = @ + 1]
                  /\ UNCHANGED <<status, pc>>
             ELSE /\ freed' = [freed EXCEPT ![T] = 0]
                  /\ status' = [status EXCEPT ![T] = "live"]
                  /\ Goto(i, "idle")
          /\ UNCHANGED tree
    /\ UNCHANGED <<owner, waiters, tid, cur, path>>

trnmnt_tree_dealloc(i, T) ==
    /\ pc[i] = "idle" /\ status[T] = "live" /\ ~InUse(T)
    /\ status' = [status EXCEPT ![T] = "unbuilding"]
    /\ cur' = [cur EXCEPT ![i] = T]
    /\ Goto(i, "dealloc")
    /\ UNCHANGED <<freed, kernel, tree, tid, path, failed>>

-----------------------------------------------------------------------------
trnmnt_tree_acquire(i, T) ==
    /\ pc[i] = "idle" /\ status[T] = "live"
    /\ cur' = [cur EXCEPT ![i] = T] /\ path' = [path EXCEPT ![i] = <<Leaf(i)>>]
    /\ Goto(i, "lock")
    /\ UNCHANGED <<freed, kernel, status, tree, tid, failed>>

\* kthread_mutex_lock returned 0: on to the parent, or out.
\* (Mutant: the climb ends below the root.)
AtRootEarly(i) == index(i) \in 0 .. 2
AtRoot(i) == index(i) = 0
Climb(i) ==
    /\ Goto(i, IF AtRoot(i) THEN "won" ELSE "lock")
    /\ path' = [path EXCEPT ![i] = IF AtRoot(i) THEN @ ELSE Append(@, Parent(index(i)))]
    /\ UNCHANGED <<freed, allocated, status, tree, tid, cur, failed>>
acquire_helper(i) ==
    \/ pc[i] = "lock" /\ H!Acquire(i, Node(i)) /\ Climb(i)
    \/ /\ pc[i] = "lock" /\ H!Wait(i, Node(i)) /\ Goto(i, "waiting")
       /\ UNCHANGED <<freed, allocated, status, tree, tid, cur, path, failed>>
    \/ /\ pc[i] = "waiting" /\ owner[Node(i)] = i
       /\ UNCHANGED <<owner, waiters>> /\ Climb(i)

won(i) ==
    /\ pc[i] = "won" /\ Goto(i, "crit")
    /\ tid' = [tid EXCEPT ![cur[i]] = i]
    /\ UNCHANGED <<freed, kernel, status, tree, cur, path, failed>>

trnmnt_tree_release(i) ==
    /\ pc[i] = "crit" /\ Goto(i, "unlock")
    /\ tid' = [tid EXCEPT ![cur[i]] = NoID]
    /\ UNCHANGED <<freed, kernel, status, tree, cur, path, failed>>

\* release_helper recurses over the nodes that acquire_helper went through, from
\* the same leaf to the same root, and unlocks as it returns: the root first, the
\* leaf last.
AtLeaf(i) == Len(path[i]) = 1
\* (Mutant: a mutex is unlocked and its waiter is not told.)
unlockOnly(i, m) == owner[m] = i /\ owner' = [owner EXCEPT ![m] = NoID] /\ UNCHANGED waiters
unlock(i, m) == H!Release(i, m)
release_helper(i) ==
    LET m == Node(i) IN
    /\ pc[i] = "unlock"
    /\ IF owner[m] = i
       THEN /\ unlock(i, m)
            /\ Goto(i, IF AtLeaf(i) THEN "idle" ELSE "unlock")
            /\ path' = [path EXCEPT ![i] = SubSeq(@, 1, Len(@) - 1)]
            /\ UNCHANGED failed
       ELSE /\ failed' = TRUE /\ Goto(i, "idle")
            /\ UNCHANGED <<owner, waiters, path>>
    /\ UNCHANGED <<freed, allocated, status, tree, tid, cur>>

\* Other processes allocate and free mutexes of the same table.
otherAlloc ==
    /\ \E m \in Mutexes : FirstFree(m) /\ allocated' = allocated \cup {m}
                                       /\ others' = others \cup {m}
    /\ UNCHANGED <<owner, waiters, freed, status, tree, tid, pc, cur, path, failed>>
otherDealloc ==
    /\ \E m \in others : allocated' = allocated \ {m} /\ others' = others \ {m}
    /\ UNCHANGED <<owner, waiters, freed, status, tree, tid, pc, cur, path, failed>>

Step(i) ==
    \/ allocLoop(i) \/ freeLoop(i, "bad") \/ freeLoop(i, "dealloc")
    \/ acquire_helper(i) \/ won(i) \/ trnmnt_tree_release(i) \/ release_helper(i)
Call(i, T) ==
    trnmnt_tree_alloc(i, T) \/ trnmnt_tree_dealloc(i, T) \/ trnmnt_tree_acquire(i, T)
Next ==
    \/ /\ \E i \in IDs : Step(i) \/ \E T \in Trees : Call(i, T)
       /\ UNCHANGED others
    \/ otherAlloc \/ otherDealloc
Spec == Init /\ [][Next]_vars
\* A thread goes on with the call it is in, and leaves its critical section.
FairSpec == Spec /\ \A i \in IDs : WF_vars(Step(i) /\ UNCHANGED others)

-----------------------------------------------------------------------------
(***************************************************************************)
(* Properties.                                                             *)
(***************************************************************************)
\* At most one thread is between the lock of the root and its unlock.
TreeExclusion ==
    \A i, j \in IDs : i # j /\ cur[i] = cur[j] => ~({pc[i], pc[j]} \subseteq {"won", "crit"})

\* trnmnt_tree_tid, read in the critical section, is the ID of the reader.
TidIsWinner == \A i \in IDs : pc[i] = "crit" => tid[cur[i]] = i

\* The calls of threads that use the trees as intended succeed.
NoTreeError == ~failed

\* No mutex is lost or shared: the ids given out are those of the trees and of
\* other processes, also after an allocation that failed half-way.
Holds(T, m) == \E k \in freed[T] + 1 .. Len(tree[T]) : tree[T][k] = m
MutexesAccounted ==
    \A m \in Mutexes : (m \in allocated \ others) <=> \E T \in Trees : Holds(T, m)

\* Every thread that competes for a tree gets it.
Wins == \A i \in IDs : pc[i] = "lock" ~> pc[i] = "crit"
===============================================================================
