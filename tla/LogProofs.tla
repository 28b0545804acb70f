------------------------------- MODULE LogProofs -------------------------------
(***************************************************************************)
(* The log for every number of threads, blocks and contents, and for every *)
(* size of the log: operations are atomic with respect to crashes (the log *)
(* implements AtomicDisk), and the space that begin_op reserves is enough. *)
(*                                                                         *)
(* Atomicity rests on what the contents are at each point of commit() and  *)
(* recover_from_log (ContentsOK): before the header is written every block *)
(* of the log is in its place, a block outside the log is clean, and until *)
(* the header is erased what is written home is what the log holds.  While *)
(* somebody commits, nobody is in an operation (CommitOK).                 *)
(*                                                                         *)
(* The space is an accounting of reservations (SpaceOK).  An operation has *)
(* MAXOPBLOCKS of them; one is used when it first changes a block, and is  *)
(* given back when the block turns out to be in the log already.           *)
(***************************************************************************)
EXTENDS Log, FiniteSetTheorems, TLAPS

Elems(q) == {q[i] : i \in 1 .. Len(q)}
Distinct(q) == \A i, j \in 1 .. Len(q) : q[i] = q[j] => i = j

Holding == {"log_write", "append"}

LogTypeOK ==
    /\ home \in [Blocks -> Data] /\ cache \in [Blocks -> Data]
    /\ dlog \in [1 .. LOGSIZE -> Data]
    /\ head \in Seq(Blocks) /\ lh \in Seq(Blocks)
    /\ outstanding \in Nat /\ committing \in BOOLEAN
    /\ pc \in [Procs -> Point] /\ buf \in [Procs -> Blocks \cup {NoBlock}]
    /\ mine \in [Procs -> SUBSET Blocks]
    /\ tail \in Nat /\ mode \in Mode

\* One thread commits, at a time without operations; and none runs in recovery.
CommitOK ==
    /\ OutstandingExact
    /\ \A p, q \in Procs : pc[p] \in Commits /\ pc[q] \in Commits => p = q
    /\ \A p \in Procs : pc[p] \in Commits => committing /\ outstanding = 0
    /\ committing => \E p \in Procs : pc[p] \in Commits
    /\ mode # "up" => \A p \in Procs : pc[p] = "out"

\* The threads in an operation: the buffer in hand, the blocks changed so far.
OpsOK ==
    \A p \in Procs :
        /\ pc[p] \in Holding => buf[p] \in mine[p]
        /\ pc[p] \notin Holding => buf[p] = NoBlock
        /\ pc[p] \notin InOp => mine[p] = {}
        /\ IsFiniteSet(mine[p]) /\ Cardinality(mine[p]) <= OpBlocks

\* The elements of the sets S[p], each with its p.
Tagged(S) == UNION {{p} \X S[p] : p \in Procs}

\* The reservations an operation has not used yet, and the blocks it has changed
\* that are not in the log so far.
Unused == [p \in Procs |-> IF pc[p] \in InOp
                           THEN Cardinality(mine[p]) + 1 .. MAXOPBLOCKS ELSE {}]
Pending == [p \in Procs |-> mine[p] \ Elems(lh)]
SpaceOK ==
    /\ IsFiniteSet(Tagged(Unused)) /\ IsFiniteSet(Tagged(mine))
    /\ Cardinality(Tagged(Unused)) + Cardinality(Tagged(mine)) = outstanding * MAXOPBLOCKS
    /\ Len(lh) + Cardinality(Tagged(Unused)) + Cardinality(Tagged(Pending)) <= LOGSIZE
    /\ Distinct(lh) /\ Distinct(head) /\ Len(head) <= LOGSIZE

\* The blocks of the log are in their place on disk, in the log up to n, or home.
Logged(n) == \A i \in 1 .. n : dlog[i] = cache[lh[i]]
Home(n) == \A i \in 1 .. n : home[lh[i]] = dlog[i]
Looping == \/ mode = "install" \/ \E p \in Procs : pc[p] \in {"write_log", "install"}
ContentsOK ==
    /\ tail = 0 \/ (tail < Len(lh) /\ Looping)
    /\ Looping \/ (\E p \in Procs : pc[p] = "write_head") => Len(lh) > 0
    /\ dirty \subseteq Elems(lh)
    /\ \A b \in Blocks : cache[b] # home[b] => b \in dirty \/ \E p \in Procs : buf[p] = b
    /\ mode = "up" => head = <<>> \/ \E p \in Procs : pc[p] \in {"install", "erase"}
    /\ \A p \in Procs :
          /\ pc[p] = "write_log" => Logged(tail)
          /\ pc[p] = "write_head" => Logged(Len(lh))
          /\ pc[p] = "install" => head = lh /\ Logged(Len(lh)) /\ Home(tail)
                                  /\ \A i \in 1 .. tail : lh[i] \notin dirty
          /\ pc[p] = "erase" => head = lh /\ Logged(Len(lh)) /\ Home(Len(lh)) /\ dirty = {}
    /\ mode # "up" => dirty = {}
    /\ mode = "read_head" => lh = <<>>
    /\ mode = "install" => lh = head /\ Home(tail)
    /\ mode = "erase" => lh = head /\ Home(Len(lh))

IInv == LogTypeOK /\ CommitOK /\ OpsOK /\ SpaceOK /\ ContentsOK

\* The operations write so few blocks that the log on disk, which is one block
\* shorter than sb.nlog for its header, has room for them.  (mkfs.c makes nlog =
\* LOGSIZE = 30 and MAXOPBLOCKS is 10, so OpBlocks <= 8.)
RoomOnDisk ==
    /\ OpBlocks < MAXOPBLOCKS
    /\ LOGSIZE + OpBlocks + 2 <= nlog + MAXOPBLOCKS

-----------------------------------------------------------------------------
\* Zenon proves the steps that name no other prover.
USE Zenon

(***************************************************************************)
(* Sets and sequences.                                                     *)
(***************************************************************************)
\* A tag does not change how many there are.
LEMMA TagCardinality ==
    ASSUME NEW p, NEW S, IsFiniteSet(S)
    PROVE  IsFiniteSet({p} \X S) /\ Cardinality({p} \X S) = Cardinality(S)
  <1>1. IsFiniteSet({p}) /\ Cardinality({p}) = 1
    BY FS_Singleton
  <1>2. IsFiniteSet({p} \X S) /\ Cardinality({p} \X S) = Cardinality({p}) * Cardinality(S)
    BY <1>1, FS_Product
  <1>3. Cardinality(S) \in Nat
    BY FS_CardinalityType
  <1> QED  BY <1>1, <1>2, <1>3, SMT

\* A change of one of the sets.
LEMMA TaggedChange ==
    ASSUME NEW S, NEW T, NEW p \in Procs, \A q \in Procs \ {p} : T[q] = S[q],
           IsFiniteSet(Tagged(S)), IsFiniteSet(S[p]), IsFiniteSet(T[p])
    PROVE  /\ IsFiniteSet(Tagged(T))
           /\ Cardinality(Tagged(T))
                = Cardinality(Tagged(S)) - Cardinality(S[p]) + Cardinality(T[p])
  <1> DEFINE R == UNION {{q} \X S[q] : q \in Procs \ {p}}
  <1>1. Tagged(S) = R \cup ({p} \X S[p]) /\ R \cap ({p} \X S[p]) = {}
    BY SMT DEF Tagged
  <1>2. Tagged(T) = R \cup ({p} \X T[p]) /\ R \cap ({p} \X T[p]) = {}
    BY SMT DEF Tagged
  <1> HIDE DEF R
  <1>3. IsFiniteSet(R)
    BY <1>1, FS_Subset
  <1>4. Cardinality({}) = 0
    BY FS_EmptySet
  <1>5. ASSUME NEW W, IsFiniteSet(W), R \cap ({p} \X W) = {}
        PROVE  /\ IsFiniteSet(R \cup ({p} \X W))
               /\ Cardinality(R \cup ({p} \X W)) = Cardinality(R) + Cardinality(W)
    <2>1. IsFiniteSet({p} \X W) /\ Cardinality({p} \X W) = Cardinality(W)
      BY <1>5, TagCardinality
    <2>2. /\ IsFiniteSet(R \cup ({p} \X W))
          /\ Cardinality(R \cup ({p} \X W))
               = Cardinality(R) + Cardinality({p} \X W) - Cardinality(R \cap ({p} \X W))
      BY <1>3, <2>1, FS_Union
    <2>3. Cardinality(R) \in Nat /\ Cardinality(W) \in Nat
      BY <1>3, <1>5, FS_CardinalityType
    <2>4. Cardinality(R \cap ({p} \X W)) = 0
      BY <1>4, <1>5
    <2> QED  BY <2>1, <2>2, <2>3, <2>4, SMT
  <1>6. /\ Cardinality(R) \in Nat /\ Cardinality(S[p]) \in Nat /\ Cardinality(T[p]) \in Nat
    BY <1>3, FS_CardinalityType
  <1> QED  BY <1>1, <1>2, <1>5, <1>6, SMT

\* Smaller sets have not more elements together, and fewer if one is strictly so.
LEMMA TaggedShrinks ==
    ASSUME NEW S, NEW T, \A q \in Procs : T[q] \subseteq S[q], IsFiniteSet(Tagged(S))
    PROVE  /\ IsFiniteSet(Tagged(T)) /\ Cardinality(Tagged(T)) <= Cardinality(Tagged(S))
           /\ \A p \in Procs : \A x : x \in S[p] /\ x \notin T[p]
                 => Cardinality(Tagged(T)) + 1 <= Cardinality(Tagged(S))
  <1>1. Tagged(T) \subseteq Tagged(S)
    BY SMT DEF Tagged
  <1>2. IsFiniteSet(Tagged(T)) /\ Cardinality(Tagged(T)) <= Cardinality(Tagged(S))
    BY <1>1, FS_Subset
  <1>3. ASSUME NEW p \in Procs, NEW x, x \in S[p], x \notin T[p]
        PROVE  Cardinality(Tagged(T)) + 1 <= Cardinality(Tagged(S))
    <2>1. <<p, x>> \in Tagged(S) /\ <<p, x>> \notin Tagged(T)
      BY <1>3, SMT DEF Tagged
    <2>2. Cardinality(Tagged(T)) # Cardinality(Tagged(S))
      BY <1>1, <2>1, FS_Subset
    <2>3. Cardinality(Tagged(T)) \in Nat /\ Cardinality(Tagged(S)) \in Nat
      BY <1>2, FS_CardinalityType
    <2> QED  BY <1>2, <2>2, <2>3, SMT
  <1> QED  BY <1>2, <1>3

\* Sets that are all empty.
LEMMA TaggedEmpty ==
    ASSUME NEW S, \A q \in Procs : S[q] = {}
    PROVE  IsFiniteSet(Tagged(S)) /\ Cardinality(Tagged(S)) = 0
  <1>1. Tagged(S) = {}  BY DEF Tagged
  <1> QED  BY <1>1, FS_EmptySet

\* The log as a set: a block that is not in the log is put at its end.
LEMMA AppendElems ==
    ASSUME NEW q \in Seq(Blocks), NEW b \in Blocks, Distinct(q), b \notin Elems(q)
    PROVE  /\ Append(q, b) \in Seq(Blocks) /\ Distinct(Append(q, b))
           /\ Elems(Append(q, b)) = Elems(q) \cup {b}
           /\ Len(q) \in Nat /\ Len(Append(q, b)) = Len(q) + 1
           /\ \A i \in 1 .. Len(q) : Append(q, b)[i] = q[i]
  <1>1. /\ Append(q, b) \in Seq(Blocks) /\ Len(q) \in Nat /\ Len(Append(q, b)) = Len(q) + 1
        /\ \A i \in 1 .. Len(q) : Append(q, b)[i] = q[i]
        /\ Append(q, b)[Len(q) + 1] = b
    BY SMT
  <1>2. Elems(Append(q, b)) = Elems(q) \cup {b}
    BY <1>1, SMT DEF Elems
  <1>3. Distinct(Append(q, b))
    BY <1>1, SMT DEF Distinct, Elems
  <1> QED  BY <1>1, <1>2, <1>3

\* The empty log.
LEMMA EmptyLog ==
    <<>> \in Seq(Blocks) /\ Len(<<>>) = 0 /\ Elems(<<>>) = {} /\ Distinct(<<>>)
  BY SMT DEF Elems, Distinct

-----------------------------------------------------------------------------
(***************************************************************************)
(* What several steps have in common.                                      *)
(***************************************************************************)
\* The log fits in memory.
LEMMA LogFits ==
    ASSUME LogTypeOK, SpaceOK
    PROVE  /\ Len(lh) \in Nat /\ Len(lh) <= LOGSIZE
           /\ Cardinality(Tagged(Unused)) \in Nat /\ Cardinality(Tagged(mine)) \in Nat
           /\ IsFiniteSet(Tagged(Pending)) /\ Cardinality(Tagged(Pending)) \in Nat
           /\ Len(lh) + Cardinality(Tagged(Unused)) <= LOGSIZE
  <1>1. IsFiniteSet(Tagged(Pending))
    <2>1. \A q \in Procs : Pending[q] \subseteq mine[q]  BY DEF Pending
    <2> QED  BY <2>1, TaggedShrinks DEF SpaceOK
  <1>2. /\ Cardinality(Tagged(Unused)) \in Nat /\ Cardinality(Tagged(mine)) \in Nat
        /\ Cardinality(Tagged(Pending)) \in Nat
    BY <1>1, FS_CardinalityType DEF SpaceOK
  <1>3. Len(lh) \in Nat  BY SMT DEF LogTypeOK
  <1> QED  BY <1>1, <1>2, <1>3, LogAssumption, SMT DEF SpaceOK

\* Threads that go to another point, without the beginning or the end of an
\* operation: the reservations are those of before.
LEMMA SameSpace ==
    ASSUME SpaceOK, UNCHANGED <<lh, outstanding, mine>>,
           Distinct(head'), Len(head') <= LOGSIZE,
           \A p \in Procs : pc'[p] \in InOp <=> pc[p] \in InOp
    PROVE  SpaceOK'
  <1>1. Unused' = Unused  BY DEF Unused
  <1>2. Pending' = Pending  BY DEF Pending, Elems
  <1>3. Tagged(Unused)' = Tagged(Unused) /\ Tagged(mine)' = Tagged(mine)
        /\ Tagged(Pending)' = Tagged(Pending)
    BY <1>1, <1>2 DEF Tagged
  <1>4. Distinct(lh)' /\ Distinct(head)'  BY DEF SpaceOK, Distinct
  <1> QED  BY <1>3, <1>4 DEF SpaceOK

\* The same for the threads that are in an operation and in commit.
LEMMA SameThreads ==
    ASSUME CommitOK, OpsOK, UNCHANGED <<outstanding, committing, mine, buf, mode>>,
           mode = "up",
           \A p \in Procs : /\ pc'[p] \in InOp <=> pc[p] \in InOp
                            /\ pc'[p] \in Holding <=> pc[p] \in Holding
                            /\ pc'[p] \in Commits <=> pc[p] \in Commits
    PROVE  CommitOK' /\ OpsOK'
  <1>1. {p \in Procs : pc'[p] \in InOp} = {p \in Procs : pc[p] \in InOp}
    OBVIOUS
  <1>2. OutstandingExact'
    BY <1>1 DEF CommitOK, OutstandingExact
  <1>3. CommitOK'
    BY <1>2 DEF CommitOK
  <1>4. OpsOK'
    BY DEF OpsOK
  <1> QED  BY <1>3, <1>4

\* When no operation is in progress, nothing is reserved.
LEMMA IdleSpace ==
    ASSUME \A p \in Procs : pc'[p] \notin InOp /\ mine'[p] = {}, outstanding' = 0,
           Distinct(lh'), Len(lh') \in Nat, Len(lh') <= LOGSIZE,
           Distinct(head'), Len(head') <= LOGSIZE
    PROVE  SpaceOK' /\ OutstandingExact'
  <1>1. \A p \in Procs : Unused'[p] = {} /\ Pending'[p] = {}
    BY DEF Unused, Pending
  <1>2. /\ IsFiniteSet(Tagged(Unused')) /\ Cardinality(Tagged(Unused')) = 0
        /\ Cardinality(Tagged(Pending')) = 0
        /\ IsFiniteSet(Tagged(mine')) /\ Cardinality(Tagged(mine')) = 0
    BY <1>1, TaggedEmpty
  <1>3. /\ Tagged(Unused)' = Tagged(Unused') /\ Tagged(mine)' = Tagged(mine')
        /\ Tagged(Pending)' = Tagged(Pending')
    BY DEF Tagged
  <1>4. {p \in Procs : pc'[p] \in InOp} = {}
    OBVIOUS
  <1>5. OutstandingExact'
    BY <1>4, FS_EmptySet DEF OutstandingExact
  <1>6. Distinct(lh)' /\ Distinct(head)'  BY DEF Distinct
  <1>7. SpaceOK'
    BY <1>2, <1>3, <1>6, LogAssumption, SMT DEF SpaceOK
  <1> QED  BY <1>5, <1>7

\* Nobody is in an operation while somebody commits.
LEMMA CommitterAlone ==
    ASSUME LogTypeOK, CommitOK, OpsOK, NEW p \in Procs, pc[p] \in Commits
    PROVE  /\ outstanding = 0 /\ committing
           /\ \A q \in Procs : /\ pc[q] \notin InOp /\ mine[q] = {} /\ buf[q] = NoBlock
                               /\ q # p => pc[q] \notin Commits
  <1>1. outstanding = 0 /\ committing /\ \A q \in Procs : q # p => pc[q] \notin Commits
    BY DEF CommitOK
  <1>2. {q \in Procs : pc[q] \in InOp} = {}
    <2>1. IsFiniteSet({q \in Procs : pc[q] \in InOp})
      BY SetAssumption, FS_Subset
    <2> QED  BY <1>1, <2>1, FS_EmptySet DEF CommitOK, OutstandingExact
  <1>3. \A q \in Procs : pc[q] \notin InOp
    BY <1>2
  <1> QED  BY <1>1, <1>3 DEF OpsOK, InOp, Holding

\* A panic, and the end of a thread, change nothing that the invariant is about.
LEMMA StillKeeps ==
    ASSUME IInv, UNCHANGED <<disk, cache, dirty, lh, outstanding, committing, pc, buf, mine,
                             tail, mode>>
    PROVE  IInv'
  <1> USE DEF IInv, disk
  <1>1. LogTypeOK'
    BY DEF LogTypeOK
  <1>2. CommitOK' /\ OpsOK'
    BY DEF CommitOK, OutstandingExact, OpsOK
  <1>3. SpaceOK'
    BY SameSpace DEF SpaceOK, Distinct
  <1>4. ContentsOK'
    BY SMT DEF ContentsOK, Elems, Logged, Home, Looping
  <1> QED  BY <1>1, <1>2, <1>3, <1>4

\* Steps that touch no block and leave commit() where it is.
InCommit == {"write_log", "write_head", "install", "erase"}
LEMMA SameContents ==
    ASSUME ContentsOK, UNCHANGED <<home, dlog, head, cache, dirty, lh, buf, tail, mode>>,
           \A p \in Procs : pc'[p] = pc[p] \/ (pc'[p] \notin InCommit /\ pc[p] \notin InCommit)
    PROVE  ContentsOK'
  <1>1. Looping' <=> Looping
    BY DEF Looping, InCommit
  <1>2. \A n : (Logged(n)' <=> Logged(n)) /\ (Home(n)' <=> Home(n))
    BY DEF Logged, Home
  <1>3. /\ dirty' \subseteq Elems(lh)'
        /\ \A b \in Blocks : cache'[b] # home'[b] => b \in dirty' \/ \E p \in Procs : buf'[p] = b
        /\ tail' = 0 \/ (tail' < Len(lh') /\ Looping')
        /\ Looping' \/ (\E p \in Procs : pc'[p] = "write_head") => Len(lh') > 0
        /\ mode' = "up" => head' = <<>> \/ \E p \in Procs : pc'[p] \in {"install", "erase"}
    BY <1>1, SMT DEF ContentsOK, Elems, InCommit
  <1>4. \A p \in Procs : pc'[p] \in InCommit => pc'[p] = pc[p]
    OBVIOUS
  <1>5. \A p \in Procs :
          /\ pc'[p] = "write_log" => Logged(tail)'
          /\ pc'[p] = "write_head" => Logged(Len(lh))'
          /\ pc'[p] = "install" => head' = lh' /\ Logged(Len(lh))' /\ Home(tail)'
                                   /\ \A j \in 1 .. tail' : lh'[j] \notin dirty'
          /\ pc'[p] = "erase" => head' = lh' /\ Logged(Len(lh))' /\ Home(Len(lh))' /\ dirty' = {}
    BY <1>4, SMT DEF ContentsOK, InCommit, Logged, Home
  <1>6. /\ mode' # "up" => dirty' = {}
        /\ mode' = "read_head" => lh' = <<>>
        /\ mode' = "install" => lh' = head' /\ Home(tail)'
        /\ mode' = "erase" => lh' = head' /\ Home(Len(lh))'
    BY DEF ContentsOK, Home
  <1> QED  BY <1>3, <1>5, <1>6 DEF ContentsOK

-----------------------------------------------------------------------------
(***************************************************************************)
(* The steps.                                                              *)
(***************************************************************************)
\* begin_op reserves MAXOPBLOCKS blocks, which are free.
LEMMA BeginKeeps ==
    ASSUME IInv, NEW p \in Procs, begin_op(p) PROVE IInv'
  <1> USE DEF IInv
  <1>0. /\ mode = "up" /\ pc[p] \in {"out", "begin"}
        /\ UNCHANGED <<home, dlog, head, cache, dirty, lh, committing, buf, mine, tail, mode>>
    BY DEF begin_op, At, disk
  <1>1. CASE pc' = [pc EXCEPT ![p] = "asleep"] /\ outstanding' = outstanding
    <2>0. \A q \in Procs : pc'[q] = IF q = p THEN "asleep" ELSE pc[q]
      BY <1>1 DEF LogTypeOK
    <2>1. LogTypeOK'
      BY <1>0, <1>1 DEF LogTypeOK, Point
    <2>2. CommitOK' /\ OpsOK'
      BY <1>0, <1>1, <2>0, SameThreads, SMT DEF InOp, Holding, Commits
    <2>3. SpaceOK'
      <3>1. Distinct(head') /\ Len(head') <= LOGSIZE  BY <1>0 DEF SpaceOK
      <3> QED  BY <1>0, <1>1, <2>0, <3>1, SameSpace, SMT DEF InOp
    <2>4. ContentsOK'
      BY <1>0, <2>0, SameContents DEF InCommit
    <2> QED  BY <2>1, <2>2, <2>3, <2>4
  <1>2. CASE /\ ~committing /\ Fits(Len(lh))
             /\ outstanding' = outstanding + 1 /\ pc' = [pc EXCEPT ![p] = "op"]
    <2>0. \A q \in Procs : pc'[q] = IF q = p THEN "op" ELSE pc[q]
      BY <1>2 DEF LogTypeOK
    <2>1. LogTypeOK'
      BY <1>0, <1>2, SMT DEF LogTypeOK, Point, InOp
    <2>2. OutstandingExact'
      <3>1. /\ {q \in Procs : pc'[q] \in InOp} = {q \in Procs : pc[q] \in InOp} \cup {p}
            /\ p \notin {q \in Procs : pc[q] \in InOp}
        BY <1>0, <2>0 DEF InOp
      <3>2. IsFiniteSet({q \in Procs : pc[q] \in InOp})
        BY SetAssumption, FS_Subset
      <3>3. Cardinality({q \in Procs : pc'[q] \in InOp}) = outstanding + 1
        BY <3>1, <3>2, FS_AddElement DEF CommitOK, OutstandingExact
      <3> QED  BY <1>2, <3>3 DEF OutstandingExact
    <2>3. CommitOK'
      BY <1>0, <1>2, <2>0, <2>2, SMT DEF CommitOK, Commits
    <2>4. OpsOK' /\ mine[p] = {}
      BY <1>0, <2>0 DEF OpsOK, InOp, Holding
    <2>5. SpaceOK'
      <3>0. MAXOPBLOCKS \in Nat /\ Cardinality(mine[p]) = 0 /\ outstanding \in Nat
        BY <2>4, LogAssumption, FS_EmptySet DEF LogTypeOK
      <3>1. /\ Unused[p] = {} /\ Unused'[p] = 1 .. MAXOPBLOCKS
            /\ \A q \in Procs \ {p} : Unused'[q] = Unused[q]
        BY <1>0, <2>0, <3>0, SMT DEF Unused, InOp
      <3>2. /\ IsFiniteSet(1 .. MAXOPBLOCKS) /\ Cardinality(1 .. MAXOPBLOCKS) = MAXOPBLOCKS
            /\ IsFiniteSet({}) /\ Cardinality({}) = 0
        BY <3>0, FS_Interval, FS_EmptySet, SMT
      <3>3. /\ IsFiniteSet(Tagged(Unused'))
            /\ Cardinality(Tagged(Unused')) = Cardinality(Tagged(Unused)) - 0 + MAXOPBLOCKS
        <4>1. /\ IsFiniteSet(Unused[p]) /\ Cardinality(Unused[p]) = 0
              /\ IsFiniteSet(Unused'[p]) /\ Cardinality(Unused'[p]) = MAXOPBLOCKS
          BY <3>1, <3>2
        <4>2. PICK S, T : S = Unused /\ T = Unused'  OBVIOUS
        <4>3. /\ IsFiniteSet(Tagged(S)) /\ \A q \in Procs \ {p} : T[q] = S[q]
              /\ IsFiniteSet(S[p]) /\ IsFiniteSet(T[p])
          <5>1. IsFiniteSet(Tagged(Unused))  BY DEF SpaceOK
          <5>2. \A q \in Procs \ {p} : Unused'[q] = Unused[q]  BY <3>1
          <5> QED  BY <4>1, <4>2, <5>1, <5>2
        <4>4. /\ IsFiniteSet(Tagged(T))
              /\ Cardinality(Tagged(T))
                   = Cardinality(Tagged(S)) - Cardinality(S[p]) + Cardinality(T[p])
          BY <4>3, TaggedChange
        <4>5. /\ IsFiniteSet(Tagged(Unused'))
              /\ Cardinality(Tagged(Unused'))
                   = Cardinality(Tagged(Unused)) - Cardinality(Unused[p]) + Cardinality(Unused'[p])
          BY <4>2, <4>4
        <4> QED  BY <4>1, <4>5
      <3>4. /\ Tagged(Unused)' = Tagged(Unused') /\ Tagged(mine)' = Tagged(mine)
            /\ Tagged(Pending)' = Tagged(Pending)
        BY <1>0, SMT DEF Tagged, Pending, Elems
      <3>5. Cardinality(Tagged(Pending)) <= Cardinality(Tagged(mine))
        <4>1. \A q \in Procs : Pending[q] \subseteq mine[q]  BY DEF Pending
        <4> QED  BY <4>1, TaggedShrinks DEF SpaceOK
      <3>6. (outstanding + 1) * MAXOPBLOCKS = outstanding * MAXOPBLOCKS + MAXOPBLOCKS
            /\ outstanding * MAXOPBLOCKS \in Nat
        BY <3>0, SMT
      <3>7. Distinct(lh)' /\ Distinct(head)' /\ Len(head') <= LOGSIZE
        BY <1>0 DEF SpaceOK, Distinct
      <3>8. Cardinality(Tagged(Unused')) + Cardinality(Tagged(mine)) = outstanding' * MAXOPBLOCKS
        BY <1>2, <3>0, <3>3, <3>6, LogFits, SMTT(30) DEF SpaceOK
      <3>9. Len(lh) + Cardinality(Tagged(Unused')) + Cardinality(Tagged(Pending)) <= LOGSIZE
        BY <1>2, <3>0, <3>3, <3>5, <3>6, LogFits, LogAssumption, SMTT(30) DEF SpaceOK, Fits
      <3> QED  BY <1>0, <3>3, <3>4, <3>7, <3>8, <3>9 DEF SpaceOK
    <2>6. ContentsOK'
      BY <1>0, <2>0, SameContents DEF InCommit
    <2> QED  BY <2>1, <2>3, <2>4, <2>5, <2>6
  <1> QED  BY <1>1, <1>2 DEF begin_op, Goto, Reserve

\* Outside of commit() the header on disk is empty.
LEMMA NoCommit ==
    ASSUME IInv, mode = "up", NEW p \in Procs, pc[p] \in InOp
    PROVE  /\ \A q \in Procs : pc[q] \notin Commits
           /\ ~committing /\ tail = 0 /\ head = <<>>
  <1>1. \A q \in Procs : pc[q] \notin Commits
    BY CommitterAlone DEF IInv
  <1>2. ~committing
    BY <1>1 DEF IInv, CommitOK
  <1> QED  BY <1>1, <1>2 DEF IInv, ContentsOK, Looping, Commits

\* There only the buffers matter.
LEMMA QuietContents ==
    ASSUME mode' = "up", \A q \in Procs : pc'[q] \notin InCommit, tail' = 0, head' = <<>>,
           dirty' \subseteq Elems(lh'),
           \A b \in Blocks : cache'[b] # home'[b] => b \in dirty' \/ \E q \in Procs : buf'[q] = b
    PROVE  ContentsOK'
  <1>1. ~Looping'  BY DEF Looping, InCommit
  <1>2. Elems(lh)' = Elems(lh')  BY DEF Elems
  <1> QED  BY <1>1, <1>2 DEF ContentsOK, InCommit

\* The reservations that an operation has left after k blocks.
LEMMA RestCardinality ==
    ASSUME NEW k \in Nat, k <= MAXOPBLOCKS
    PROVE  /\ IsFiniteSet(k + 1 .. MAXOPBLOCKS)
           /\ Cardinality(k + 1 .. MAXOPBLOCKS) = MAXOPBLOCKS - k
  <1>1. k + 1 \in Int /\ MAXOPBLOCKS \in Int /\ MAXOPBLOCKS \in Nat
    BY LogAssumption, SMT
  <1>2. /\ IsFiniteSet(k + 1 .. MAXOPBLOCKS)
        /\ Cardinality(k + 1 .. MAXOPBLOCKS)
             = IF k + 1 > MAXOPBLOCKS THEN 0 ELSE MAXOPBLOCKS - (k + 1) + 1
    BY <1>1, FS_Interval
  <1> QED  BY <1>1, <1>2, SMT

\* A client that changes a block uses a reservation, unless it changed it before.
LEMMA ModifyKeeps ==
    ASSUME IInv, NEW p \in Procs, modify(p) PROVE IInv'
  <1> USE DEF IInv
  <1>0. /\ mode = "up" /\ pc[p] = "op" /\ pc' = [pc EXCEPT ![p] = "log_write"]
        /\ UNCHANGED <<home, dlog, head, dirty, lh, outstanding, committing, tail, mode>>
    BY DEF modify, At, Goto, disk
  <1>1. PICK b \in Blocks, v \in Data :
          /\ Cardinality(mine[p] \cup {b}) <= OpBlocks
          /\ cache' = [cache EXCEPT ![b] = v]
          /\ buf' = [buf EXCEPT ![p] = b]
          /\ mine' = [mine EXCEPT ![p] = @ \cup {b}]
    BY DEF modify
  <1>2. \A q \in Procs : pc'[q] = IF q = p THEN "log_write" ELSE pc[q]
    BY <1>0 DEF LogTypeOK
  <1>3. /\ buf'[p] = b /\ mine'[p] = mine[p] \cup {b}
        /\ \A q \in Procs : q # p => buf'[q] = buf[q] /\ mine'[q] = mine[q]
    BY <1>1 DEF LogTypeOK
  <1>4. LogTypeOK'
    BY <1>0, <1>1 DEF LogTypeOK, Point, InOp
  <1>5. \A q \in Procs : pc[q] \notin Commits /\ ~committing /\ tail = 0 /\ head = <<>>
    BY <1>0, NoCommit DEF InOp
  <1>6. CommitOK'
    <2>1. {q \in Procs : pc'[q] \in InOp} = {q \in Procs : pc[q] \in InOp}
      BY <1>0, <1>2 DEF InOp
    <2>2. OutstandingExact'
      BY <1>0, <2>1 DEF CommitOK, OutstandingExact
    <2>3. \A q \in Procs : pc'[q] \notin Commits
      BY <1>2, <1>5 DEF Commits
    <2> QED  BY <1>0, <1>5, <2>2, <2>3 DEF CommitOK
  <1>7. OpsOK'
    <2>1. IsFiniteSet(mine[p] \cup {b})
      BY FS_AddElement, ZenonT(40) DEF OpsOK
    <2> QED  BY <1>0, <1>1, <1>2, <1>3, <2>1, ZenonT(60) DEF OpsOK, InOp, Holding
  <1>8. SpaceOK'
    <2>1. CASE b \in mine[p]
      <3>1. mine' = mine  BY <1>1, <2>1 DEF LogTypeOK
      <3> QED  BY <1>0, <1>2, <3>1, SameSpace DEF SpaceOK, InOp
    <2>2. CASE b \notin mine[p]
      <3> DEFINE n == Cardinality(mine[p])
      <3>0. /\ n \in Nat /\ IsFiniteSet(mine[p]) /\ IsFiniteSet(mine'[p])
            /\ Cardinality(mine'[p]) = n + 1 /\ n + 1 <= MAXOPBLOCKS
            /\ MAXOPBLOCKS \in Nat
        <4>1. IsFiniteSet(mine[p])  BY DEF OpsOK
        <4>2. /\ IsFiniteSet(mine[p] \cup {b}) /\ Cardinality(mine[p] \cup {b}) = n + 1
              /\ n \in Nat
          BY <2>2, <4>1, FS_AddElement, FS_CardinalityType, ZenonT(40)
        <4>3. IsFiniteSet(mine'[p]) /\ Cardinality(mine'[p]) = n + 1
          BY <1>3, <4>2
        <4>4. n + 1 <= MAXOPBLOCKS /\ MAXOPBLOCKS \in Nat
          <5>1. n + 1 <= OpBlocks  BY <1>1, <4>2
          <5> QED  BY <4>2, <5>1, LogAssumption, SMT
        <4> QED  BY <4>1, <4>2, <4>3, <4>4
      <3>1. /\ Unused[p] = n + 1 .. MAXOPBLOCKS
            /\ Unused'[p] = Cardinality(mine'[p]) + 1 .. MAXOPBLOCKS
            /\ \A q \in Procs \ {p} : Unused'[q] = Unused[q]
        BY <1>0, <1>2, <1>3, ZenonT(60) DEF Unused, InOp
      <3>2. /\ IsFiniteSet(Unused[p]) /\ Cardinality(Unused[p]) = MAXOPBLOCKS - n
            /\ IsFiniteSet(Unused'[p]) /\ Cardinality(Unused'[p]) = MAXOPBLOCKS - n - 1
        <4>1. /\ IsFiniteSet(n + 1 .. MAXOPBLOCKS)
              /\ Cardinality(n + 1 .. MAXOPBLOCKS) = MAXOPBLOCKS - n
          BY <3>0, RestCardinality, SMT
        <4>2. n + 1 \in Nat
          BY <3>0, SMT
        <4>3. /\ IsFiniteSet((n + 1) + 1 .. MAXOPBLOCKS)
              /\ Cardinality((n + 1) + 1 .. MAXOPBLOCKS) = MAXOPBLOCKS - (n + 1)
          BY <3>0, <4>2, RestCardinality
        <4>4. MAXOPBLOCKS - (n + 1) = MAXOPBLOCKS - n - 1
          BY <3>0, SMT
        <4>5. Unused'[p] = (n + 1) + 1 .. MAXOPBLOCKS
          BY <3>0, <3>1
        <4> HIDE DEF n
        <4> QED  BY <3>1, <4>1, <4>3, <4>4, <4>5
      <3>3. /\ IsFiniteSet(Tagged(Unused'))
            /\ Cardinality(Tagged(Unused'))
                 = Cardinality(Tagged(Unused)) - Cardinality(Unused[p]) + Cardinality(Unused'[p])
        <4>1. IsFiniteSet(Tagged(Unused)) /\ \A q \in Procs \ {p} : Unused'[q] = Unused[q]
          BY <3>1 DEF SpaceOK
        <4> QED  BY <3>2, <4>1, TaggedChange, ZenonT(60)
      <3>4. /\ IsFiniteSet(Tagged(mine'))
            /\ Cardinality(Tagged(mine'))
                 = Cardinality(Tagged(mine)) - Cardinality(mine[p]) + Cardinality(mine'[p])
        <4>1. IsFiniteSet(Tagged(mine))  BY DEF SpaceOK
        <4>2. \A q \in Procs \ {p} : mine'[q] = mine[q]  BY <1>3
        <4> QED  BY <3>0, <4>1, <4>2, TaggedChange, ZenonT(60)
      <3>5. /\ IsFiniteSet(Pending[p]) /\ IsFiniteSet(Pending'[p])
            /\ Cardinality(Pending'[p]) <= Cardinality(Pending[p]) + 1
            /\ \A q \in Procs \ {p} : Pending'[q] = Pending[q]
        <4>1. /\ Pending[p] \subseteq mine[p]
              /\ Pending'[p] = Pending[p] \cup {b} \/ Pending'[p] = Pending[p]
              /\ \A q \in Procs \ {p} : Pending'[q] = Pending[q]
          BY <1>0, <1>3, SMT DEF Pending, Elems
        <4>2. IsFiniteSet(Pending[p]) /\ Cardinality(Pending[p]) \in Nat
          BY <3>0, <4>1, FS_Subset, FS_CardinalityType
        <4>3. /\ IsFiniteSet(Pending[p] \cup {b})
              /\ Cardinality(Pending[p] \cup {b}) <= Cardinality(Pending[p]) + 1
          BY <4>2, FS_AddElement, SMTT(30)
        <4> QED  BY <4>1, <4>2, <4>3, SMTT(30)
      <3>6. Cardinality(Tagged(Pending')) <= Cardinality(Tagged(Pending)) + 1
        <4>1. IsFiniteSet(Tagged(Pending)) /\ Cardinality(Tagged(Pending)) \in Nat
          BY LogFits
        <4>2. Cardinality(Tagged(Pending'))
                = Cardinality(Tagged(Pending)) - Cardinality(Pending[p]) + Cardinality(Pending'[p])
          BY <3>5, <4>1, TaggedChange, ZenonT(60)
        <4>3. Cardinality(Pending[p]) \in Nat /\ Cardinality(Pending'[p]) \in Nat
          BY <3>5, FS_CardinalityType
        <4> QED  BY <3>5, <4>1, <4>2, <4>3, SMT
      <3>7. /\ Tagged(Unused)' = Tagged(Unused') /\ Tagged(mine)' = Tagged(mine')
            /\ Tagged(Pending)' = Tagged(Pending')
        BY DEF Tagged
      <3>8. Cardinality(Tagged(Unused')) + Cardinality(Tagged(mine')) = outstanding * MAXOPBLOCKS
        BY <3>0, <3>2, <3>3, <3>4, LogFits, SMTT(30) DEF SpaceOK
      <3>9. Cardinality(Tagged(Pending')) \in Nat
        <4>1. \A q \in Procs : Pending'[q] \subseteq mine'[q]  BY DEF Pending
        <4> QED  BY <3>4, <4>1, TaggedShrinks, FS_CardinalityType
      <3>10. Len(lh) + Cardinality(Tagged(Unused')) + Cardinality(Tagged(Pending')) <= LOGSIZE
        <4>1. Cardinality(Tagged(Unused')) = Cardinality(Tagged(Unused)) - 1
          BY <3>0, <3>2, <3>3, LogFits, SMT
        <4>2. Len(lh) + Cardinality(Tagged(Unused)) + Cardinality(Tagged(Pending)) <= LOGSIZE
          BY DEF SpaceOK
        <4> QED  BY <3>6, <3>9, <4>1, <4>2, LogFits, LogAssumption, SMTT(30)
      <3>11. Distinct(lh)' /\ Distinct(head)' /\ Len(head') <= LOGSIZE
        BY <1>0, ZenonT(60) DEF SpaceOK, Distinct
      <3> QED  BY <1>0, <3>3, <3>4, <3>7, <3>8, <3>10, <3>11 DEF SpaceOK
    <2> QED  BY <2>1, <2>2
  <1>9. ContentsOK'
    <2>1. \A c \in Blocks : cache'[c] # home'[c] => c \in dirty' \/ \E q \in Procs : buf'[q] = c
      <3>1. \A q \in Procs : buf[q] \in Blocks => buf'[q] = buf[q] \/ (q = p /\ buf[q] = NoBlock)
        BY <1>0, <1>3 DEF OpsOK, Holding
      <3>2. \A c \in Blocks : c # b => cache'[c] = cache[c]
        BY <1>1 DEF LogTypeOK
      <3> QED  BY <1>0, <1>3, <3>1, <3>2, SetAssumption, SMTT(30) DEF ContentsOK
    <2>2. \A q \in Procs : pc'[q] \notin InCommit
      BY <1>2, <1>5 DEF InCommit, Commits
    <2>3. dirty' \subseteq Elems(lh')
      BY <1>0 DEF ContentsOK
    <2> QED  BY <1>0, <1>5, <2>1, <2>2, <2>3, QuietContents
  <1> QED  BY <1>4, <1>6, <1>7, <1>8, <1>9

\* log_write only looks at the log.
LEMMA LogWriteKeeps ==
    ASSUME IInv, NEW p \in Procs, log_write(p) PROVE IInv'
  <1> USE DEF IInv
  <1>1. CASE \E msg : Panic(msg)
    BY <1>1, StillKeeps DEF Panic
  <1>2. CASE ~\E msg : Panic(msg)
    <2>0. /\ mode = "up" /\ pc[p] = "log_write" /\ pc' = [pc EXCEPT ![p] = "append"]
          /\ UNCHANGED <<home, dlog, head, cache, dirty, lh, outstanding, committing, buf,
                         mine, tail, mode>>
      BY <1>2 DEF log_write, At, Goto, disk
    <2>1. \A q \in Procs : pc'[q] = IF q = p THEN "append" ELSE pc[q]
      BY <2>0 DEF LogTypeOK
    <2>2. LogTypeOK'
      BY <2>0 DEF LogTypeOK, Point, InOp
    <2>3. CommitOK' /\ OpsOK'
      BY <2>0, <2>1, SameThreads, SMT DEF InOp, Holding, Commits
    <2>4. SpaceOK'
      <3>1. Distinct(head') /\ Len(head') <= LOGSIZE  BY <2>0 DEF SpaceOK
      <3> QED  BY <2>0, <2>1, <3>1, SameSpace DEF InOp
    <2>5. ContentsOK'
      BY <2>0, <2>1, SameContents, SMT DEF InCommit
    <2> QED  BY <2>2, <2>3, <2>4, <2>5
  <1> QED  BY <1>1, <1>2

\* A block that is put in the log is no longer pending for the operation.
LEMMA AppendKeeps ==
    ASSUME IInv, NEW p \in Procs, append(p) PROVE IInv'
  <1> USE DEF IInv
  <1>1. PICK b \in Blocks : b = buf[p] /\ b \in mine[p] /\ pc[p] = "append" /\ mode = "up"
    BY DEF append, At, LogTypeOK, OpsOK, Holding
  <1>2. /\ lh' = IF b \in Elems(lh) THEN lh ELSE Append(lh, b)
        /\ dirty' = dirty \cup {b}
        /\ buf' = [buf EXCEPT ![p] = NoBlock] /\ pc' = [pc EXCEPT ![p] = "op"]
        /\ UNCHANGED <<home, dlog, head, cache, outstanding, committing, mine, tail, mode>>
    BY <1>1 DEF append, Absorb, Pin, Goto, Elems, disk
  <1>3. /\ \A q \in Procs : pc'[q] = IF q = p THEN "op" ELSE pc[q]
        /\ \A q \in Procs : buf'[q] = IF q = p THEN NoBlock ELSE buf[q]
    BY <1>2 DEF LogTypeOK
  <1>4. /\ lh' \in Seq(Blocks) /\ Distinct(lh') /\ Elems(lh') = Elems(lh) \cup {b}
        /\ Len(lh) \in Nat /\ b \notin Elems(lh) => Len(lh') = Len(lh) + 1
    BY <1>2, AppendElems, ZenonT(60) DEF LogTypeOK, SpaceOK
  <1>5. LogTypeOK'
    BY <1>2, <1>4 DEF LogTypeOK, Point, InOp
  <1>6. \A q \in Procs : pc[q] \notin Commits /\ ~committing /\ tail = 0 /\ head = <<>>
    BY <1>1, NoCommit DEF InOp
  <1>7. \A q \in Procs : (pc'[q] \in InOp <=> pc[q] \in InOp) /\ pc'[q] \notin Commits
    BY <1>1, <1>3, <1>6 DEF InOp, Commits
  <1>8. CommitOK'
    <2>1. {q \in Procs : pc'[q] \in InOp} = {q \in Procs : pc[q] \in InOp}
      BY <1>7
    <2>2. OutstandingExact'
      BY <1>2, <2>1, ZenonT(60) DEF CommitOK, OutstandingExact
    <2> QED  BY <1>1, <1>2, <1>6, <1>7, <2>2 DEF CommitOK
  <1>9. OpsOK'
    BY <1>1, <1>2, <1>3, SMT DEF OpsOK, InOp, Holding
  <1>10. SpaceOK'
    <2>1. CASE b \in Elems(lh)
      <3>1. Distinct(head') /\ Len(head') <= LOGSIZE  BY <1>2 DEF SpaceOK
      <3> QED  BY <1>2, <1>7, <2>1, <3>1, SameSpace
    <2>2. CASE b \notin Elems(lh)
      <3>1. \A q \in Procs : Unused'[q] = Unused[q]
        BY <1>2, <1>7 DEF Unused
      <3>2. /\ Tagged(Unused)' = Tagged(Unused) /\ Tagged(mine)' = Tagged(mine)
            /\ Tagged(Pending)' = Tagged(Pending')
        BY <1>2, <3>1 DEF Tagged
      <3>3. /\ \A q \in Procs : Pending'[q] \subseteq Pending[q]
            /\ b \in Pending[p] /\ b \notin Pending'[p]
        <4>1. Elems(lh)' = Elems(lh) \cup {b}  BY <1>4 DEF Elems
        <4> QED  BY <1>1, <1>2, <2>2, <4>1 DEF Pending
      <3>4. Cardinality(Tagged(Pending')) + 1 <= Cardinality(Tagged(Pending))
            /\ Cardinality(Tagged(Pending')) \in Nat
        BY <3>3, LogFits, TaggedShrinks, FS_CardinalityType
      <3>5. Len(lh') + Cardinality(Tagged(Unused)) + Cardinality(Tagged(Pending')) <= LOGSIZE
        <4>1. Len(lh) + Cardinality(Tagged(Unused)) + Cardinality(Tagged(Pending)) <= LOGSIZE
          BY DEF SpaceOK
        <4>2. Len(lh') = Len(lh) + 1  BY <1>4, <2>2, SMT
        <4> QED  BY <3>4, <4>1, <4>2, LogFits, LogAssumption, SMTT(30)
      <3>6. Distinct(lh)' /\ Distinct(head)' /\ Len(head') <= LOGSIZE
        BY <1>2, <1>4, ZenonT(60) DEF SpaceOK, Distinct
      <3> QED  BY <1>2, <3>2, <3>5, <3>6 DEF SpaceOK
    <2> QED  BY <2>1, <2>2
  <1>11. ContentsOK'
    <2>1. dirty' \subseteq Elems(lh')
      BY <1>2, <1>4 DEF ContentsOK
    <2>2. \A c \in Blocks : cache'[c] # home'[c] => c \in dirty' \/ \E q \in Procs : buf'[q] = c
      BY <1>1, <1>2, <1>3, ZenonT(60) DEF ContentsOK
    <2>3. \A q \in Procs : pc'[q] \notin InCommit
      BY <1>7 DEF InCommit, Commits
    <2> QED  BY <1>1, <1>2, <1>6, <2>1, <2>2, <2>3, QuietContents
  <1> QED  BY <1>5, <1>8, <1>9, <1>10, <1>11

\* The end of an operation gives back its reservations and nothing else.
LEMMA EndSpace ==
    ASSUME IInv, NEW p \in Procs, pc[p] = "op", outstanding' = outstanding - 1,
           mine' = [mine EXCEPT ![p] = {}], UNCHANGED <<lh, head>>,
           \A q \in Procs : pc'[q] \in InOp <=> q # p /\ pc[q] \in InOp
    PROVE  SpaceOK' /\ OutstandingExact'
  <1> USE DEF IInv
  <1> DEFINE n == Cardinality(mine[p])
  <1>0. /\ n \in Nat /\ IsFiniteSet(mine[p]) /\ n <= MAXOPBLOCKS /\ MAXOPBLOCKS \in Nat
        /\ outstanding \in Nat
    <2>1. IsFiniteSet(mine[p]) /\ n <= OpBlocks  BY DEF OpsOK
    <2>2. n \in Nat  BY <2>1, FS_CardinalityType
    <2> QED  BY <2>1, <2>2, LogAssumption, SMT DEF LogTypeOK
  <1>1. mine'[p] = {} /\ \A q \in Procs \ {p} : mine'[q] = mine[q]
    BY DEF LogTypeOK
  <1>2. /\ Unused[p] = n + 1 .. MAXOPBLOCKS /\ Unused'[p] = {}
        /\ \A q \in Procs \ {p} : Unused'[q] = Unused[q]
    BY <1>1 DEF Unused, InOp
  <1>3. /\ IsFiniteSet(Unused[p]) /\ Cardinality(Unused[p]) = MAXOPBLOCKS - n
        /\ IsFiniteSet(Unused'[p]) /\ Cardinality(Unused'[p]) = 0
        /\ IsFiniteSet(mine'[p]) /\ Cardinality(mine'[p]) = 0
    <2>1. /\ IsFiniteSet(n + 1 .. MAXOPBLOCKS)
          /\ Cardinality(n + 1 .. MAXOPBLOCKS) = MAXOPBLOCKS - n
      BY <1>0, RestCardinality
    <2> HIDE DEF n
    <2> QED  BY <1>1, <1>2, <2>1, FS_EmptySet
  <1>4. /\ IsFiniteSet(Tagged(Unused'))
        /\ Cardinality(Tagged(Unused'))
             = Cardinality(Tagged(Unused)) - Cardinality(Unused[p]) + Cardinality(Unused'[p])
    <2>0. PICK S, T : S = Unused /\ T = Unused'  OBVIOUS
    <2>1. /\ IsFiniteSet(Tagged(S)) /\ \A q \in Procs \ {p} : T[q] = S[q]
          /\ IsFiniteSet(S[p]) /\ IsFiniteSet(T[p])
      BY <2>0, <1>2, <1>3 DEF SpaceOK
    <2>2. /\ IsFiniteSet(Tagged(T))
          /\ Cardinality(Tagged(T)) = Cardinality(Tagged(S)) - Cardinality(S[p]) + Cardinality(T[p])
      BY <2>1, TaggedChange
    <2> QED  BY <2>0, <2>2
  <1>5. /\ IsFiniteSet(Tagged(mine'))
        /\ Cardinality(Tagged(mine'))
             = Cardinality(Tagged(mine)) - Cardinality(mine[p]) + Cardinality(mine'[p])
    <2>0. PICK S, T : S = mine /\ T = mine'  OBVIOUS
    <2>1. /\ IsFiniteSet(Tagged(S)) /\ \A q \in Procs \ {p} : T[q] = S[q]
          /\ IsFiniteSet(S[p]) /\ IsFiniteSet(T[p])
      BY <2>0, <1>0, <1>1, <1>3 DEF SpaceOK
    <2>2. /\ IsFiniteSet(Tagged(T))
          /\ Cardinality(Tagged(T)) = Cardinality(Tagged(S)) - Cardinality(S[p]) + Cardinality(T[p])
      BY <2>1, TaggedChange
    <2> QED  BY <2>0, <2>2
  <1>6. Cardinality(Tagged(Pending')) <= Cardinality(Tagged(Pending))
        /\ Cardinality(Tagged(Pending')) \in Nat
    <2>1. \A q \in Procs : Pending'[q] \subseteq Pending[q]
      BY <1>1 DEF Pending, Elems
    <2> QED  BY <2>1, LogFits, TaggedShrinks, FS_CardinalityType
  <1>7. outstanding \in Nat \ {0}
        /\ Cardinality({q \in Procs : pc'[q] \in InOp}) = outstanding - 1
    <2>1. /\ {q \in Procs : pc'[q] \in InOp} = {q \in Procs : pc[q] \in InOp} \ {p}
          /\ p \in {q \in Procs : pc[q] \in InOp}
      BY DEF InOp
    <2>2. IsFiniteSet({q \in Procs : pc[q] \in InOp})
      BY SetAssumption, FS_Subset
    <2>3. Cardinality({q \in Procs : pc[q] \in InOp} \ {p}) = outstanding - 1
      BY <2>1, <2>2, FS_RemoveElement DEF CommitOK, OutstandingExact
    <2>4. IsFiniteSet({q \in Procs : pc[q] \in InOp} \ {p})
      BY <2>2, FS_RemoveElement
    <2>5. outstanding - 1 \in Nat
      BY <2>3, <2>4, FS_CardinalityType
    <2>6. Cardinality({q \in Procs : pc'[q] \in InOp}) = outstanding - 1  BY <2>1, <2>3
    <2>7. outstanding \in Nat \ {0}  BY <1>0, <2>5, SMT
    <2> QED  BY <2>6, <2>7
  <1>8. (outstanding - 1) * MAXOPBLOCKS = outstanding * MAXOPBLOCKS - MAXOPBLOCKS
    BY <1>0, SMT
  <1>9. Cardinality(Tagged(Unused')) + Cardinality(Tagged(mine')) = outstanding' * MAXOPBLOCKS
    <2>1. Cardinality(Tagged(Unused)) + Cardinality(Tagged(mine)) = outstanding * MAXOPBLOCKS
      BY DEF SpaceOK
    <2>2. outstanding' * MAXOPBLOCKS = outstanding * MAXOPBLOCKS - MAXOPBLOCKS  BY <1>8
    <2>3. outstanding * MAXOPBLOCKS \in Nat  BY <1>0, SMT
    <2>4. PICK u \in Nat, m \in Nat, k \in Nat, s \in Nat :
            /\ u = Cardinality(Tagged(Unused)) /\ m = Cardinality(Tagged(mine)) /\ k = n
            /\ s = outstanding * MAXOPBLOCKS
      BY <1>0, <2>3, LogFits
    <2>5. u - (MAXOPBLOCKS - k) + 0 + (m - k + 0) = s - MAXOPBLOCKS
      BY <1>0, <2>1, <2>4, SMT
    <2> QED  BY <1>3, <1>4, <1>5, <2>2, <2>4, <2>5
  <1>10. Len(lh) + Cardinality(Tagged(Unused')) + Cardinality(Tagged(Pending')) <= LOGSIZE
    <2>1. Len(lh) + Cardinality(Tagged(Unused)) + Cardinality(Tagged(Pending)) <= LOGSIZE
      BY DEF SpaceOK
    <2>2. PICK u \in Nat, l \in Nat, f \in Nat, g \in Nat, k \in Nat :
            /\ u = Cardinality(Tagged(Unused)) /\ l = Len(lh) /\ k = n
            /\ f = Cardinality(Tagged(Pending)) /\ g = Cardinality(Tagged(Pending'))
      BY <1>0, <1>6, LogFits
    <2>3. /\ l + u + f <= LOGSIZE /\ g <= f /\ k <= MAXOPBLOCKS
          /\ MAXOPBLOCKS \in Nat /\ LOGSIZE \in Nat
      BY <1>0, <1>6, <2>1, <2>2, LogAssumption
    <2>4. l + (u - (MAXOPBLOCKS - k) + 0) + g <= LOGSIZE  BY <2>3, SMT
    <2> QED  BY <1>3, <1>4, <2>2, <2>4
  <1>11. /\ Tagged(Unused)' = Tagged(Unused') /\ Tagged(mine)' = Tagged(mine')
         /\ Tagged(Pending)' = Tagged(Pending')
    BY DEF Tagged
  <1>12. Distinct(lh)' /\ Distinct(head)' /\ Len(head') <= LOGSIZE
    BY DEF SpaceOK, Distinct
  <1>13. SpaceOK'
    BY <1>4, <1>5, <1>9, <1>10, <1>11, <1>12 DEF SpaceOK
  <1>14. OutstandingExact'
    BY <1>7 DEF OutstandingExact
  <1> QED  BY <1>13, <1>14

\* end_op: the last operation starts the commit, with no other in progress.
LEMMA EndKeeps ==
    ASSUME IInv, NEW p \in Procs, end_op(p) PROVE IInv'
  <1> USE DEF IInv
  <1>1. CASE \E msg : Panic(msg)
    BY <1>1, StillKeeps DEF Panic
  <1>2. CASE ~\E msg : Panic(msg)
    <2>0. /\ mode = "up" /\ pc[p] = "op" /\ outstanding' = outstanding - 1
          /\ mine' = [mine EXCEPT ![p] = {}]
          /\ UNCHANGED <<home, dlog, head, cache, dirty, lh, buf, tail, mode>>
      BY <1>2 DEF end_op, At, disk
    <2>1. \A q \in Procs : pc[q] \notin Commits /\ ~committing /\ tail = 0 /\ head = <<>>
      BY <2>0, NoCommit DEF InOp
    <2>2. PICK l \in {"out", "write_log", "done"} :
            /\ outstanding = 1 => /\ l # "out" /\ committing' = TRUE
                                  /\ l = "write_log" => Len(lh) > 0
            /\ outstanding # 1 => l = "out" /\ committing' = committing
            /\ pc' \in [Procs -> Point] /\ pc'[p] = l
            /\ \A q \in Procs \ {p} : \/ pc'[q] = pc[q]
                                      \/ pc[q] = "asleep" /\ pc'[q] = "begin"
      BY <1>2, <2>0, ZenonT(60) DEF end_op, Goto, Wakeup, LogTypeOK, Point, Commits
    <2>3. \A q \in Procs : pc'[q] \in InOp <=> q # p /\ pc[q] \in InOp
      BY <2>0, <2>2 DEF InOp
    <2>4. SpaceOK' /\ OutstandingExact'
      BY <2>0, <2>3, EndSpace
    <2>5. /\ mine'[p] = {} /\ \A q \in Procs \ {p} : mine'[q] = mine[q]
          /\ IsFiniteSet({}) /\ Cardinality({}) = 0
      BY <2>0, FS_EmptySet DEF LogTypeOK
    <2>6. LogTypeOK'
      <3>1. outstanding' \in Nat
        <4>1. IsFiniteSet({q \in Procs : pc'[q] \in InOp})  BY SetAssumption, FS_Subset
        <4> QED  BY <2>4, <4>1, FS_CardinalityType DEF OutstandingExact
      <3> QED  BY <2>0, <2>2, <3>1, ZenonT(80) DEF LogTypeOK
    <2>7. CommitOK'
      BY <2>0, <2>1, <2>2, <2>4, SMTT(30) DEF CommitOK, Commits
    <2>8. OpsOK'
      BY <2>0, <2>2, <2>5, LogAssumption, SMT DEF OpsOK, InOp, Holding
    <2>9. ContentsOK'
      <3>1. CASE l # "write_log"
        BY <2>0, <2>1, <2>2, <3>1, SameContents DEF InCommit, Commits
      <3>2. CASE l = "write_log"
        <4>1. Looping' /\ Len(lh') > 0 /\ tail' = 0 /\ head' = <<>>
          BY <2>0, <2>1, <2>2, <3>2 DEF Looping
        <4>2. \A q \in Procs \ {p} : pc'[q] \notin InCommit
          BY <2>1, <2>2 DEF InCommit, Commits
        <4>3. Logged(tail)'
          BY <4>1, SMT DEF Logged
        <4>4. dirty' \subseteq Elems(lh)'
          BY <2>0, SMT DEF ContentsOK, Elems
        <4> QED  BY <2>0, <2>2, <3>2, <4>1, <4>2, <4>3, <4>4, ZenonT(40) DEF ContentsOK, InCommit
      <3> QED  BY <3>1, <3>2
    <2> QED  BY <2>4, <2>6, <2>7, <2>8, <2>9
  <1> QED  BY <1>1, <1>2

\* One round of write_log puts one more block in its place in the log.
LEMMA WriteLogKeeps ==
    ASSUME IInv, NEW p \in Procs, write_log(p) PROVE IInv'
  <1> USE DEF IInv
  <1>0. /\ mode = "up" /\ pc[p] = "write_log"
        /\ dlog' = [dlog EXCEPT ![tail + 1] = cache[lh[tail + 1]]]
        /\ UNCHANGED <<home, head, cache, dirty, lh, outstanding, committing, buf, mine, mode>>
    BY DEF write_log, At
  <1>1. /\ tail \in Nat /\ Len(lh) \in Nat /\ tail < Len(lh) /\ Len(lh) <= LOGSIZE
        /\ tail + 1 \in 1 .. Len(lh) /\ tail + 1 \in 1 .. LOGSIZE
    <2>1. tail \in Nat /\ Len(lh) \in Nat /\ Len(lh) <= LOGSIZE /\ LOGSIZE \in Nat
      BY LogFits, LogAssumption DEF LogTypeOK
    <2>2. tail < Len(lh)
      BY <1>0, <2>1 DEF ContentsOK, Looping
    <2> QED  BY <2>1, <2>2, SMT
  <1>2. PICK l \in {"write_log", "write_head"} :
          /\ pc' = [pc EXCEPT ![p] = l]
          /\ IF tail + 1 = Len(lh) THEN l = "write_head" /\ tail' = 0
                                   ELSE l = "write_log" /\ tail' = tail + 1
    BY ZenonT(80) DEF write_log, Tail1, Loop, Goto
  <1>3. \A q \in Procs : pc'[q] = IF q = p THEN l ELSE pc[q]
    BY <1>2 DEF LogTypeOK
  <1>4. LogTypeOK'
    BY <1>0, <1>1, <1>2, SMT DEF LogTypeOK, Point, Commits
  <1>5. CommitOK' /\ OpsOK'
    BY <1>0, <1>3, SameThreads DEF InOp, Holding, Commits
  <1>6. SpaceOK'
    <2>1. Distinct(head') /\ Len(head') <= LOGSIZE  BY <1>0 DEF SpaceOK
    <2> QED  BY <1>0, <1>3, <2>1, SameSpace, ZenonT(40) DEF InOp
  <1>7. \A q \in Procs \ {p} : pc'[q] \notin InCommit
    BY <1>0, <1>3, CommitterAlone DEF Commits, InCommit
  <1>8. \A j \in 1 .. tail + 1 : dlog'[j] = cache[lh[j]]
    BY <1>0, <1>1, SMT DEF ContentsOK, Logged, LogTypeOK
  <1>9. ContentsOK'
    <2>1. head = <<>>
      BY <1>0, CommitterAlone DEF ContentsOK, Commits
    <2>2. /\ l = "write_log" => Logged(tail)' /\ Looping'
          /\ l = "write_head" => Logged(Len(lh))'
      <3>1. CASE l = "write_log"
        <4>1. tail' = tail + 1  BY <3>1, <1>2
        <4>2. Logged(tail)'  BY <1>0, <1>8, <4>1, ZenonT(40) DEF Logged
        <4>3. Looping'  BY <1>0, <1>3, <3>1 DEF Looping
        <4> QED  BY <3>1, <4>2, <4>3
      <3>2. CASE l = "write_head"
        <4>1. tail + 1 = Len(lh)  BY <3>2, <1>2
        <4>2. Logged(Len(lh))'  BY <1>0, <1>8, <4>1 DEF Logged
        <4> QED  BY <3>2, <4>2
      <3> QED  BY <3>1, <3>2
    <2>3. dirty' \subseteq Elems(lh)'
      BY <1>0, SMT DEF ContentsOK, Elems
    <2>4. tail' = 0 \/ (tail' < Len(lh') /\ Looping')
      BY <1>0, <1>1, <1>2, <2>2, SMT
    <2>5. Len(lh') > 0
      BY <1>0, <1>1, SMT
    <2> QED  BY <1>0, <1>3, <1>7, <2>1, <2>2, <2>3, <2>4, <2>5, ZenonT(80) DEF ContentsOK, InCommit
  <1> QED  BY <1>4, <1>5, <1>6, <1>9

\* write_head finds every block of the log in its place.
LEMMA WriteHeadKeeps ==
    ASSUME IInv, NEW p \in Procs, write_head(p) PROVE IInv'
  <1> USE DEF IInv
  <1>0. /\ mode = "up" /\ pc[p] = "write_head" /\ head' = lh
        /\ pc' = [pc EXCEPT ![p] = "install"]
        /\ UNCHANGED <<home, dlog, cache, dirty, lh, outstanding, committing, buf, mine, tail, mode>>
    BY DEF write_head, At, Goto
  <1>1. \A q \in Procs : pc'[q] = IF q = p THEN "install" ELSE pc[q]
    BY <1>0 DEF LogTypeOK
  <1>2. LogTypeOK'
    BY <1>0 DEF LogTypeOK, Point, Commits
  <1>3. CommitOK' /\ OpsOK'
    BY <1>0, <1>1, SameThreads, SMT DEF InOp, Holding, Commits
  <1>4. SpaceOK'
    <2>1. Distinct(head') /\ Len(head') <= LOGSIZE  BY <1>0, LogFits DEF SpaceOK
    <2> QED  BY <1>0, <1>1, <2>1, SameSpace, SMT DEF InOp
  <1>5. \A q \in Procs \ {p} : pc'[q] \notin InCommit /\ pc[q] \notin InCommit
    BY <1>0, <1>1, CommitterAlone, ZenonT(60) DEF Commits, InCommit
  <1>6. ContentsOK'
    <2>1. tail = 0 /\ Len(lh) > 0 /\ Logged(Len(lh))
      BY <1>0, <1>5, ZenonT(80) DEF ContentsOK, Looping, InCommit
    <2>2. Logged(Len(lh))' /\ Home(tail)' /\ Looping'
      BY <1>0, <1>1, <2>1, SMTT(30) DEF Logged, Home, Looping
    <2>3. dirty' \subseteq Elems(lh)'
      BY <1>0, SMT DEF ContentsOK, Elems
    <2> QED  BY <1>0, <1>1, <1>5, <2>1, <2>2, <2>3, SMT DEF ContentsOK, InCommit
  <1> QED  BY <1>2, <1>3, <1>4, <1>6

\* A round of the loop in install_trans, in commit() or in recovery.
LEMMA InstallRound ==
    ASSUME IInv, Looping, Home(tail), InstallOne, UNCHANGED <<dlog, lh>>
    PROVE  /\ tail + 1 \in 1 .. Len(lh) /\ lh[tail + 1] \in Blocks
           /\ home' \in [Blocks -> Data] /\ cache' \in [Blocks -> Data] /\ tail' \in Nat
           /\ \A b \in Blocks : cache'[b] # home'[b] => cache[b] # home[b] /\ b # lh[tail + 1]
           /\ \A i \in 1 .. tail + 1 : home'[lh[i]] = dlog[i]
           /\ \A b \in Blocks : cache'[b] = IF b = lh[tail + 1] THEN dlog[tail + 1] ELSE cache[b]
           /\ dirty' = dirty \ {lh[tail + 1]}
           /\ \/ tail + 1 = Len(lh) /\ tail' = 0
              \/ tail + 1 # Len(lh) /\ tail' = tail + 1 /\ tail' < Len(lh)
  <1> USE DEF IInv
  <1>1. tail \in Nat /\ Len(lh) \in Nat /\ Len(lh) <= LOGSIZE /\ LOGSIZE \in Nat
    BY LogFits, LogAssumption DEF LogTypeOK
  <1>2. Len(lh) > 0 /\ (tail = 0 \/ tail < Len(lh))
    BY DEF ContentsOK
  <1>3. tail + 1 \in 1 .. Len(lh) /\ tail + 1 \in 1 .. LOGSIZE
    BY <1>1, <1>2, SMT
  <1>4. PICK b \in Blocks : b = lh[tail + 1]
    BY <1>3, SMT DEF LogTypeOK
  <1>5. /\ home' = [home EXCEPT ![b] = dlog[tail + 1]]
        /\ cache' = [cache EXCEPT ![b] = dlog[tail + 1]]
        /\ dirty' = dirty \ {b}
        /\ dlog[tail + 1] \in Data
    BY <1>3, <1>4 DEF InstallOne, LogTypeOK
  <1>6. /\ home' \in [Blocks -> Data] /\ cache' \in [Blocks -> Data]
        /\ home'[b] = dlog[tail + 1] /\ cache'[b] = dlog[tail + 1]
        /\ \A c \in Blocks \ {b} : home'[c] = home[c] /\ cache'[c] = cache[c]
    BY <1>5 DEF LogTypeOK
  <1>7. ASSUME NEW i \in 1 .. tail + 1 PROVE home'[lh[i]] = dlog[i]
    <2>1. CASE i = tail + 1  BY <2>1, <1>4, <1>6
    <2>2. CASE i # tail + 1
      <3>1. i \in 1 .. tail /\ i \in 1 .. Len(lh)  BY <1>1, <1>3, <2>2, SMTT(30)
      <3>2. lh[i] \in Blocks \ {b}
        BY <1>3, <1>4, <2>2, <3>1, SMT DEF SpaceOK, Distinct, LogTypeOK
      <3> QED  BY <1>6, <3>1, <3>2 DEF Home
    <2> QED  BY <2>1, <2>2
  <1>8. /\ tail' \in Nat
        /\ \/ tail + 1 = Len(lh) /\ tail' = 0
           \/ tail + 1 # Len(lh) /\ tail' = tail + 1 /\ tail' < Len(lh)
    BY <1>1, <1>3, SMT DEF InstallOne, Tail1
  <1> QED  BY <1>3, <1>4, <1>5, <1>6, <1>7, <1>8

\* install_trans in commit() writes home what the buffers hold.
LEMMA InstallKeeps ==
    ASSUME IInv, NEW p \in Procs, install_trans(p) PROVE IInv'
  <1> USE DEF IInv
  <1>0. /\ mode = "up" /\ pc[p] = "install" /\ InstallOne
        /\ UNCHANGED <<dlog, head, lh, outstanding, committing, buf, mine, mode>>
    BY DEF install_trans, At
  <1>1. /\ Looping /\ Home(tail) /\ head = lh /\ Logged(Len(lh))
        /\ \A i \in 1 .. tail : lh[i] \notin dirty
    BY <1>0 DEF Looping, ContentsOK
  <1>2. PICK l \in {"install", "erase"} :
          /\ pc' = [pc EXCEPT ![p] = l]
          /\ l = IF tail + 1 = Len(lh) THEN "erase" ELSE "install"
    BY ZenonT(40) DEF install_trans, Loop, Goto
  <1>3. \A q \in Procs : pc'[q] = IF q = p THEN l ELSE pc[q]
    BY <1>2 DEF LogTypeOK
  <1>4. /\ tail + 1 \in 1 .. Len(lh) /\ lh[tail + 1] \in Blocks
        /\ home' \in [Blocks -> Data] /\ cache' \in [Blocks -> Data] /\ tail' \in Nat
        /\ \A b \in Blocks : cache'[b] # home'[b] => cache[b] # home[b] /\ b # lh[tail + 1]
        /\ \A i \in 1 .. tail + 1 : home'[lh[i]] = dlog[i]
        /\ \A b \in Blocks : cache'[b] = IF b = lh[tail + 1] THEN dlog[tail + 1] ELSE cache[b]
        /\ dirty' = dirty \ {lh[tail + 1]}
        /\ \/ tail + 1 = Len(lh) /\ tail' = 0
           \/ tail + 1 # Len(lh) /\ tail' = tail + 1 /\ tail' < Len(lh)
    BY <1>0, <1>1, InstallRound
  <1>5. LogTypeOK'
    BY <1>0, <1>2, <1>4 DEF LogTypeOK, Point, Commits
  <1>6. CommitOK' /\ OpsOK'
    BY <1>0, <1>3, SameThreads DEF InOp, Holding, Commits
  <1>7. SpaceOK'
    <2>1. Distinct(head') /\ Len(head') <= LOGSIZE  BY <1>0 DEF SpaceOK
    <2> QED  BY <1>0, <1>3, <2>1, SameSpace DEF InOp
  <1>8. \A q \in Procs \ {p} : pc'[q] \notin InCommit
    BY <1>0, <1>3, CommitterAlone DEF Commits, InCommit
  <1>9. cache' = cache
    <2>1. dlog[tail + 1] = cache[lh[tail + 1]]  BY <1>1, <1>4 DEF Logged
    <2> QED  BY <1>4, <2>1, SMT DEF LogTypeOK
  <1>10. ContentsOK'
    <2>1. Logged(Len(lh))'  BY <1>0, <1>1, <1>9, ZenonT(80) DEF Logged
    <2>2. /\ \A i \in 1 .. tail + 1 : lh[i] \notin dirty'
          /\ dirty' \subseteq Elems(lh)'
      BY <1>0, <1>1, <1>4, SMTT(30) DEF LogTypeOK, ContentsOK, Elems
    <2>3. \A b \in Blocks : cache'[b] # home'[b] => b \in dirty' \/ \E q \in Procs : buf'[q] = b
      BY <1>0, <1>4 DEF ContentsOK
    <2>4. CASE tail + 1 = Len(lh)
      <3>1. l = "erase" /\ tail' = 0  BY <1>2, <1>4, <2>4
      <3>2. dirty' = {}  BY <1>0, <2>2, <2>4, SMT DEF Elems
      <3>3. Home(Len(lh))'  BY <1>0, <1>4, <2>4 DEF Home
      <3>4. ~Looping'  BY <1>0, <1>3, <1>8, <3>1 DEF Looping, InCommit
      <3> QED  BY <1>0, <1>1, <1>3, <1>8, <2>1, <2>2, <2>3, <3>1, <3>2, <3>3, <3>4, ZenonT(60)
               DEF ContentsOK, InCommit
    <2>5. CASE tail + 1 # Len(lh)
      <3>1. l = "install" /\ tail' = tail + 1 /\ tail' < Len(lh)  BY <1>2, <1>4, <2>5, ZenonT(40)
      <3>2. Home(tail)'  BY <1>0, <1>4, <3>1 DEF Home
      <3>3. Looping'  BY <1>0, <1>3, <3>1 DEF Looping
      <3>4. Len(lh') > 0  BY <1>0, <1>1 DEF ContentsOK
      <3>5. \A i \in 1 .. tail' : lh'[i] \notin dirty'  BY <1>0, <2>2, <3>1
      <3> QED  BY <1>0, <1>1, <1>3, <1>8, <2>1, <2>2, <2>3, <3>1, <3>2, <3>3, <3>4, <3>5, ZenonT(80)
               DEF ContentsOK, InCommit
    <2> QED  BY <2>4, <2>5
  <1> QED  BY <1>5, <1>6, <1>7, <1>10

\* The transaction is erased from the log when everything is home.
LEMMA EraseKeeps ==
    ASSUME IInv, NEW p \in Procs, erase(p) PROVE IInv'
  <1> USE DEF IInv
  <1>0. /\ mode = "up" /\ pc[p] = "erase" /\ lh' = <<>> /\ head' = <<>>
        /\ pc' = [pc EXCEPT ![p] = "done"]
        /\ UNCHANGED <<home, dlog, cache, dirty, outstanding, committing, buf, mine, tail, mode>>
    BY DEF erase, At, Goto
  <1>1. \A q \in Procs : pc'[q] = IF q = p THEN "done" ELSE pc[q]
    BY <1>0 DEF LogTypeOK
  <1>2. /\ outstanding = 0
        /\ \A q \in Procs : /\ pc[q] \notin InOp /\ mine[q] = {}
                            /\ q # p => pc[q] \notin Commits
    BY <1>0, CommitterAlone DEF Commits
  <1>3. LogTypeOK'
    BY <1>0, EmptyLog DEF LogTypeOK, Point, Commits
  <1>4. CommitOK' /\ OpsOK'
    BY <1>0, <1>1, SameThreads, SMT DEF InOp, Holding, Commits
  <1>5. SpaceOK'
    <2>1. \A q \in Procs : pc'[q] \notin InOp /\ mine'[q] = {}
      BY <1>0, <1>1, <1>2, SMT DEF InOp
    <2>2. outstanding' = 0  BY <1>0, <1>2
    <2>3. /\ Distinct(lh') /\ Len(lh') \in Nat /\ Len(lh') <= LOGSIZE
          /\ Distinct(head') /\ Len(head') <= LOGSIZE
      BY <1>0, EmptyLog, LogAssumption, SMT
    <2> QED  BY <2>1, <2>2, <2>3, IdleSpace
  <1>6. ContentsOK'
    <2>1. dirty = {} /\ tail = 0
      BY <1>0, <1>2 DEF ContentsOK, Looping, Commits
    <2>2. \A q \in Procs : pc'[q] \notin InCommit
      BY <1>1, <1>2 DEF Commits, InCommit
    <2>3. ~Looping'  BY <1>0, <2>2 DEF Looping, InCommit
    <2> QED  BY <1>0, <2>1, <2>2, <2>3 DEF ContentsOK, InCommit
  <1> QED  BY <1>3, <1>4, <1>5, <1>6

\* The end of commit: the threads that wait for it are woken.
LEMMA CommittedKeeps ==
    ASSUME IInv, NEW p \in Procs, committed(p) PROVE IInv'
  <1> USE DEF IInv
  <1>0. /\ mode = "up" /\ pc[p] = "done" /\ committing' = FALSE
        /\ UNCHANGED <<home, dlog, head, cache, dirty, lh, outstanding, buf, mine, tail, mode>>
    BY DEF committed, At, disk
  <1>1. /\ pc' \in [Procs -> Point] /\ pc'[p] = "out"
        /\ \A q \in Procs \ {p} : pc'[q] = pc[q] \/ (pc[q] = "asleep" /\ pc'[q] = "begin")
    BY DEF committed, Wakeup, LogTypeOK, Point
  <1>2. \A q \in Procs : pc[q] \notin InOp /\ (q # p => pc[q] \notin Commits)
    BY <1>0, CommitterAlone DEF Commits
  <1>3. \A q \in Procs : pc'[q] \notin InOp /\ pc'[q] \notin Commits
    BY <1>1, <1>2 DEF InOp, Commits
  <1>4. LogTypeOK'
    BY <1>0, <1>1, ZenonT(40) DEF LogTypeOK
  <1>5. CommitOK'
    <2>1. {q \in Procs : pc'[q] \in InOp} = {q \in Procs : pc[q] \in InOp}
      BY <1>2, <1>3
    <2>2. OutstandingExact'
      BY <1>0, <2>1 DEF CommitOK, OutstandingExact
    <2> QED  BY <1>0, <1>3, <2>2 DEF CommitOK
  <1>6. OpsOK'
    BY <1>0, <1>2, <1>3 DEF OpsOK, InOp, Holding
  <1>7. SpaceOK'
    <2>1. Distinct(head') /\ Len(head') <= LOGSIZE  BY <1>0 DEF SpaceOK
    <2> QED  BY <1>0, <1>2, <1>3, <2>1, SameSpace
  <1>8. ContentsOK'
    <2>1. \A q \in Procs :
            pc'[q] = pc[q] \/ (pc'[q] \notin InCommit /\ pc[q] \notin InCommit)
      BY <1>0, <1>1 DEF InCommit
    <2> QED  BY <1>0, <2>1, SameContents
  <1> QED  BY <1>4, <1>5, <1>6, <1>7, <1>8

\* A crash leaves what is on disk.
LEMMA CrashKeeps ==
    ASSUME IInv, crash PROVE IInv'
  <1> USE DEF IInv
  <1>0. /\ cache' = home /\ dirty' = {} /\ lh' = <<>> /\ outstanding' = 0
        /\ committing' = FALSE /\ tail' = 0 /\ mode' = "read_head"
        /\ UNCHANGED <<home, dlog, head>>
        /\ pc' = [p \in Procs |-> "out"] /\ buf' = [p \in Procs |-> NoBlock]
        /\ mine' = [p \in Procs |-> {}]
    BY DEF crash, disk
  <1>1. \A p \in Procs : pc'[p] = "out" /\ buf'[p] = NoBlock /\ mine'[p] = {}
    BY <1>0
  <1>2. LogTypeOK'
    BY <1>0, EmptyLog DEF LogTypeOK, Point, Mode
  <1>3. SpaceOK' /\ OutstandingExact'
    <2>1. \A q \in Procs : pc'[q] \notin InOp /\ mine'[q] = {}
      BY <1>1 DEF InOp
    <2>2. /\ Distinct(lh') /\ Len(lh') \in Nat /\ Len(lh') <= LOGSIZE
          /\ Distinct(head') /\ Len(head') <= LOGSIZE
      BY <1>0, EmptyLog, LogAssumption, SMT DEF SpaceOK
    <2>3. outstanding' = 0  BY <1>0
    <2> QED  BY <2>1, <2>2, <2>3, IdleSpace
  <1>4. CommitOK'
    BY <1>0, <1>1, <1>3 DEF CommitOK, Commits
  <1>5. OpsOK'
    <2>1. IsFiniteSet({}) /\ Cardinality({}) = 0  BY FS_EmptySet
    <2>2. 0 <= OpBlocks  BY LogAssumption, SMT
    <2> QED  BY <1>1, <2>1, <2>2 DEF OpsOK, Holding
  <1>6. ContentsOK'
    <2>1. ~Looping'  BY <1>0, <1>1 DEF Looping
    <2> QED  BY <1>0, <1>1, <2>1 DEF ContentsOK
  <1> QED  BY <1>2, <1>3, <1>4, <1>5, <1>6

\* A buffer that is recycled holds what is on disk already.
LEMMA RecycleKeeps ==
    ASSUME IInv, NEW b \in Blocks, recycle(b) PROVE IInv' /\ cache' = cache
  <1> USE DEF IInv
  <1>0. /\ b \notin dirty /\ \A p \in Procs : buf[p] # b
        /\ cache' = [cache EXCEPT ![b] = home[b]]
        /\ UNCHANGED <<home, dlog, head, dirty, lh, outstanding, committing, pc, buf, mine,
                       tail, mode>>
    BY ZenonT(40) DEF recycle, disk
  <1>1. cache[b] = home[b]  BY <1>0 DEF ContentsOK
  <1>2. cache' = cache  BY <1>0, <1>1 DEF LogTypeOK
  <1>3. LogTypeOK'  BY <1>0, <1>2 DEF LogTypeOK
  <1>4. CommitOK' /\ OpsOK'
    BY <1>0 DEF CommitOK, OutstandingExact, OpsOK
  <1>5. SpaceOK'
    <2>1. Distinct(head') /\ Len(head') <= LOGSIZE  BY <1>0, ZenonT(40) DEF SpaceOK
    <2> QED  BY <1>0, <2>1, SameSpace
  <1>6. ContentsOK'
    BY <1>0, <1>2, SameContents
  <1> QED  BY <1>2, <1>3, <1>4, <1>5, <1>6

\* Recovery reads the header, writes home what the log holds, erases the header.
LEMMA RecoverKeeps ==
    ASSUME IInv, recover_from_log PROVE IInv'
  <1> USE DEF IInv
  <1>0. /\ UNCHANGED <<dlog, outstanding, committing, pc, buf, mine>>
        /\ mode # "up"
    BY DEF recover_from_log, Mode
  <1>1. /\ \A p \in Procs : pc[p] = "out" /\ buf[p] = NoBlock /\ mine[p] = {}
        /\ outstanding = 0 /\ dirty = {} /\ ~committing
    <2>1. \A p \in Procs : pc[p] = "out"  BY <1>0 DEF CommitOK
    <2>2. {p \in Procs : pc[p] \in InOp} = {}  BY <2>1 DEF InOp
    <2>3. outstanding = 0  BY <2>2, FS_EmptySet DEF CommitOK, OutstandingExact
    <2>4. ~committing  BY <2>1 DEF CommitOK, Commits
    <2>5. \A p \in Procs : buf[p] = NoBlock /\ mine[p] = {}
      BY <2>1 DEF OpsOK, InOp, Holding
    <2> QED  BY <1>0, <2>1, <2>3, <2>4, <2>5 DEF ContentsOK
  <1>2. CommitOK' /\ OpsOK'
    BY <1>0, <1>1, ZenonT(40) DEF CommitOK, OpsOK, OutstandingExact, Commits
  <1>3. ASSUME Distinct(lh'), Len(lh') \in Nat, Len(lh') <= LOGSIZE,
               Distinct(head'), Len(head') <= LOGSIZE
        PROVE  SpaceOK'
    <2>1. \A q \in Procs : pc'[q] \notin InOp /\ mine'[q] = {}
      BY <1>0, <1>1 DEF InOp
    <2>2. outstanding' = 0  BY <1>0, <1>1
    <2> QED  BY <1>3, <2>1, <2>2, IdleSpace
  <1>4. \A p \in Procs : pc'[p] = "out"  BY <1>0, <1>1
  <1>5. CASE /\ mode = "read_head" /\ lh' = head
             /\ mode' = IF head = <<>> THEN "erase" ELSE "install"
             /\ UNCHANGED <<home, head, cache, dirty, tail>>
    <2>1. LogTypeOK'  BY <1>0, <1>5 DEF LogTypeOK, Mode
    <2>2. SpaceOK'
      <3>1. Len(head) \in Nat  BY SMT DEF LogTypeOK
      <3> QED  BY <1>3, <1>5, <3>1 DEF SpaceOK
    <2>3. ContentsOK'
      <3>1. tail = 0  BY <1>1, <1>5 DEF ContentsOK, Looping
      <3>2. Home(tail)'  BY <1>5, <3>1, SMT DEF Home
      <3>3. head = <<>> => Home(Len(lh))'  BY <1>5, EmptyLog, SMT DEF Home
      <3>4. head # <<>> => Len(head) > 0  BY SMT DEF LogTypeOK
      <3>5. Looping' <=> mode' = "install"  BY <1>4 DEF Looping
      <3> QED  BY <1>0, <1>1, <1>4, <1>5, <3>1, <3>2, <3>3, <3>4, <3>5, ZenonT(80) DEF ContentsOK
    <2> QED  BY <1>2, <2>1, <2>2, <2>3
  <1>6. CASE /\ mode = "install" /\ InstallOne /\ mode' = Loop("install", "erase")
             /\ UNCHANGED <<head, lh>>
    <2>1. Looping /\ Home(tail) /\ lh = head
      BY <1>6 DEF Looping, ContentsOK
    <2>2. /\ home' \in [Blocks -> Data] /\ cache' \in [Blocks -> Data] /\ tail' \in Nat
          /\ \A b \in Blocks : cache'[b] # home'[b] => cache[b] # home[b] /\ b # lh[tail + 1]
          /\ \A i \in 1 .. tail + 1 : home'[lh[i]] = dlog[i]
          /\ dirty' = dirty \ {lh[tail + 1]}
          /\ \/ tail + 1 = Len(lh) /\ tail' = 0
             \/ tail + 1 # Len(lh) /\ tail' = tail + 1 /\ tail' < Len(lh)
      BY <1>0, <1>6, <2>1, InstallRound
    <2>3. LogTypeOK'  BY <1>0, <1>6, <2>2 DEF LogTypeOK, Loop, Mode
    <2>4. SpaceOK'
      BY <1>3, <1>6, LogFits DEF SpaceOK
    <2>5. ContentsOK'
      <3>1. dirty' = {}  BY <1>1, <2>2, ZenonT(80)
      <3>2. Looping' <=> mode' = "install"  BY <1>4 DEF Looping
      <3>3. \A b \in Blocks : cache'[b] # home'[b] => b \in dirty' \/ \E p \in Procs : buf'[p] = b
        BY <1>0, <1>1, <2>2, ZenonT(80) DEF ContentsOK
      <3>4. CASE tail + 1 = Len(lh)
        <4>1. mode' = "erase" /\ tail' = 0  BY <1>6, <2>2, <3>4 DEF Loop
        <4>2. Home(Len(lh))'  BY <1>0, <1>6, <2>2, <3>4 DEF Home
        <4> QED  BY <1>4, <1>6, <2>1, <3>1, <3>2, <3>3, <4>1, <4>2, ZenonT(40) DEF ContentsOK
      <3>5. CASE tail + 1 # Len(lh)
        <4>1. mode' = "install" /\ tail' = tail + 1 /\ tail' < Len(lh)
          BY <1>6, <2>2, <3>5 DEF Loop
        <4>2. Home(tail)'  BY <1>0, <1>6, <2>2, <4>1, ZenonT(40) DEF Home
        <4>3. Len(lh') > 0  BY <1>6, <2>1 DEF ContentsOK
        <4> QED  BY <1>4, <1>6, <2>1, <3>1, <3>2, <3>3, <4>1, <4>2, <4>3, ZenonT(40) DEF ContentsOK
      <3> QED  BY <3>4, <3>5
    <2> QED  BY <1>2, <2>3, <2>4, <2>5
  <1>7. CASE /\ mode = "erase" /\ lh' = <<>> /\ head' = <<>> /\ mode' = "up"
             /\ UNCHANGED <<home, cache, dirty, tail>>
    <2>1. LogTypeOK'  BY <1>0, <1>7, EmptyLog DEF LogTypeOK, Mode
    <2>2. SpaceOK'  BY <1>3, <1>7, EmptyLog, LogAssumption, SMT
    <2>3. ContentsOK'
      <3>1. tail = 0  BY <1>1, <1>7 DEF ContentsOK, Looping
      <3>2. ~Looping'  BY <1>4, <1>7 DEF Looping
      <3> QED  BY <1>0, <1>1, <1>4, <1>7, <3>1, <3>2, ZenonT(80) DEF ContentsOK
    <2> QED  BY <1>2, <2>1, <2>2, <2>3
  <1> QED  BY <1>5, <1>6, <1>7 DEF recover_from_log

-----------------------------------------------------------------------------
(***************************************************************************)
(* The invariant, and what follows from it.                                *)
(***************************************************************************)
\* The invariant holds when the file system has been mounted.
LEMMA InitIInv == Init => IInv
  <1> SUFFICES ASSUME Init PROVE IInv
    OBVIOUS
  <1>1. /\ home \in [Blocks -> Data] /\ cache = home /\ dlog \in [1 .. LOGSIZE -> Data]
        /\ head = <<>> /\ lh = <<>> /\ dirty = {} /\ outstanding = 0 /\ committing = FALSE
        /\ pc = [p \in Procs |-> "out"] /\ buf = [p \in Procs |-> NoBlock]
        /\ mine = [p \in Procs |-> {}] /\ tail = 0 /\ mode = "up"
    BY ZenonT(40) DEF Init
  <1>2. LogTypeOK
    BY <1>1, EmptyLog DEF LogTypeOK, Point, Mode
  <1>3. /\ IsFiniteSet({}) /\ Cardinality({}) = 0
    BY FS_EmptySet
  <1>4. OutstandingExact /\ CommitOK
    <2>1. {p \in Procs : pc[p] \in InOp} = {}  BY <1>1 DEF InOp
    <2> QED  BY <1>1, <1>3, <2>1, ZenonT(40) DEF OutstandingExact, CommitOK, Commits
  <1>5. OpsOK
    BY <1>1, <1>3, LogAssumption, SMT DEF OpsOK, Holding
  <1>6. SpaceOK
    <2>1. \A p \in Procs : Unused[p] = {} /\ Pending[p] = {} /\ mine[p] = {}
      BY <1>1 DEF Unused, Pending, InOp
    <2>2. /\ IsFiniteSet(Tagged(Unused)) /\ Cardinality(Tagged(Unused)) = 0
          /\ IsFiniteSet(Tagged(mine)) /\ Cardinality(Tagged(mine)) = 0
          /\ Cardinality(Tagged(Pending)) = 0
      BY <2>1, TaggedEmpty
    <2> QED  BY <1>1, <2>2, EmptyLog, LogAssumption, SMT DEF SpaceOK
  <1>7. ContentsOK
    BY <1>1 DEF ContentsOK, Looping
  <1> QED  BY <1>2, <1>4, <1>5, <1>6, <1>7 DEF IInv

\* Every step preserves it.
LEMMA NextIInv == IInv /\ [Next]_vars => IInv'
  <1> SUFFICES ASSUME IInv, [Next]_vars PROVE IInv'
    OBVIOUS
  <1>1. CASE UNCHANGED vars
    BY <1>1, StillKeeps DEF vars, memory
  <1>2. CASE crash
    BY <1>2, CrashKeeps
  <1>3. ASSUME NEW p \in Procs, ThreadStep(p) PROVE IInv'
    BY <1>3, BeginKeeps, ModifyKeeps, LogWriteKeeps, AppendKeeps, EndKeeps, WriteLogKeeps,
       WriteHeadKeeps, InstallKeeps, EraseKeeps, CommittedKeeps, ZenonT(60) DEF ThreadStep
  <1>4. ASSUME NEW p \in Procs, exit(p) PROVE IInv'
    BY <1>4, StillKeeps DEF exit
  <1>5. ASSUME NEW b \in Blocks, recycle(b) PROVE IInv'
    BY <1>5, RecycleKeeps
  <1>6. CASE recover_from_log
    BY <1>6, RecoverKeeps
  <1> QED  BY <1>1, <1>2, <1>3, <1>4, <1>5, <1>6, ZenonT(40) DEF Next

\* log.outstanding counts the operations in progress, whatever crashes, and
\* however threads are ended in the middle of one.
THEOREM OutstandingCounts == Spec => []OutstandingExact
  <1>1. IInv => OutstandingExact  BY DEF IInv, CommitOK
  <1> QED  BY InitIInv, NextIInv, <1>1, PTL DEF Spec

\* A buffer that bget may recycle shows what is on disk, so that no change that
\* was given to log_write is lost before it is committed.
THEOREM ChangesKept == Spec => []NothingLost
  <1>1. IInv => NothingLost  BY DEF IInv, ContentsOK, NothingLost
  <1> QED  BY InitIInv, NextIInv, <1>1, PTL DEF Spec

-----------------------------------------------------------------------------
(***************************************************************************)
(* The space in the log.                                                   *)
(***************************************************************************)
\* While an operation is in progress, what it has not used of its reservation is
\* free.
LEMMA RoomInOp ==
    ASSUME IInv, RoomOnDisk, NEW p \in Procs, pc[p] \in InOp
    PROVE  Len(lh) \in Nat /\ Len(lh) < LOGSIZE /\ Len(lh) < nlog - 1
  <1> USE DEF IInv
  <1>1. Cardinality(mine[p]) \in Nat /\ Cardinality(mine[p]) <= OpBlocks
    BY FS_CardinalityType DEF OpsOK
  <1>2. Unused[p] = Cardinality(mine[p]) + 1 .. MAXOPBLOCKS  BY DEF Unused
  <1>3. /\ OpBlocks \in Nat /\ MAXOPBLOCKS \in Nat /\ LOGSIZE \in Nat /\ nlog \in Nat
        /\ OpBlocks < MAXOPBLOCKS
    BY LogAssumption, SMT DEF RoomOnDisk
  <1>4. IsFiniteSet(Unused[p]) /\ Cardinality(Unused[p]) = MAXOPBLOCKS - Cardinality(mine[p])
    <2>1. Cardinality(mine[p]) + 1 \in Int /\ MAXOPBLOCKS \in Int
          /\ Cardinality(mine[p]) + 1 <= MAXOPBLOCKS
      BY <1>1, <1>3, SMT
    <2>2. /\ IsFiniteSet(Cardinality(mine[p]) + 1 .. MAXOPBLOCKS)
          /\ Cardinality(Cardinality(mine[p]) + 1 .. MAXOPBLOCKS)
               = MAXOPBLOCKS - (Cardinality(mine[p]) + 1) + 1
      BY <2>1, FS_Interval, SMT
    <2> QED  BY <1>1, <1>2, <1>3, <2>2, SMT
  <1>5. Cardinality(Unused[p]) <= Cardinality(Tagged(Unused))
    <2>1. {p} \X Unused[p] \subseteq Tagged(Unused)  BY DEF Tagged
    <2>2. Cardinality({p} \X Unused[p]) <= Cardinality(Tagged(Unused))
      BY <2>1, FS_Subset DEF SpaceOK
    <2> QED  BY <1>4, <2>2, TagCardinality, ZenonT(40)
  <1>6. /\ Len(lh) \in Nat /\ Cardinality(Tagged(Unused)) \in Nat
        /\ Len(lh) + Cardinality(Tagged(Unused)) <= LOGSIZE
    BY LogFits
  <1>7. Cardinality(Tagged(Unused)) >= MAXOPBLOCKS - OpBlocks
    BY <1>1, <1>3, <1>4, <1>5, <1>6, SMTT(30)
  <1> QED  BY <1>3, <1>6, <1>7, SMT DEF RoomOnDisk

\* Nothing panics, and the log and the header on disk fit.
Roomy == LogSuffices /\ Len(head) < nlog

\* So it is at the start,
LEMMA InitRoomy == RoomOnDisk /\ Init => Roomy
  <1>1. RoomOnDisk => 0 < nlog  BY LogAssumption, SMT DEF RoomOnDisk
  <1> QED  BY <1>1, EmptyLog, ZenonT(40) DEF Init, Roomy, LogSuffices

\* and after every step.
LEMMA NextRoomy == RoomOnDisk /\ IInv /\ IInv' /\ Roomy /\ [Next]_vars => Roomy'
  <1> SUFFICES ASSUME RoomOnDisk, IInv, IInv', Roomy, [Next]_vars PROVE Roomy'
    OBVIOUS
  <1>0. Len(<<>>) = 0 /\ 0 < nlog
    BY LogAssumption, EmptyLog, SMT DEF RoomOnDisk
  <1>1. CASE UNCHANGED vars
    BY <1>1 DEF vars, memory, disk, Roomy, LogSuffices
  <1>2. CASE crash
    BY <1>0, <1>2, ZenonT(40) DEF crash, disk, Roomy, LogSuffices
  <1>3. ASSUME NEW p \in Procs, log_write(p) PROVE Roomy'
    <2>1. pc[p] \in InOp  BY <1>3 DEF log_write, At, InOp
    <2>2. Len(lh) \in Nat /\ Len(lh) < LOGSIZE /\ Len(lh) < nlog - 1  BY <2>1, RoomInOp
    <2>3. ~(Len(lh) >= LOGSIZE \/ Len(lh) >= nlog - 1)  BY <2>2, LogAssumption, SMTT(30)
    <2>4. ~(outstanding < 1)
      <3>1. p \in {q \in Procs : pc[q] \in InOp}  BY <2>1
      <3>2. IsFiniteSet({q \in Procs : pc[q] \in InOp})  BY SetAssumption, FS_Subset
      <3>3. outstanding # 0
        BY <3>1, <3>2, FS_EmptySet DEF IInv, CommitOK, OutstandingExact
      <3> QED  BY <3>3, SMT DEF IInv, LogTypeOK
    <2> QED  BY <1>3, <2>3, <2>4, ZenonT(40) DEF log_write, disk, Roomy, LogSuffices
  <1>4. ASSUME NEW p \in Procs, append(p) PROVE Roomy'
    <2>1. pc[p] \in InOp /\ buf[p] \in Blocks
      BY <1>4 DEF append, At, InOp, Holding, IInv, LogTypeOK, OpsOK
    <2>2. Len(lh) \in Nat /\ Len(lh) < nlog - 1  BY <2>1, RoomInOp, ZenonT(60)
    <2>3. Len(lh') < nlog
      BY <1>4, <2>1, <2>2, LogAssumption, SMT DEF append, Absorb, IInv, LogTypeOK
    <2> QED  BY <1>4, <2>3, ZenonT(80) DEF append, disk, Roomy, LogSuffices
  <1>5. ASSUME NEW p \in Procs, end_op(p) PROVE Roomy'
    <2>1. ~committing
      BY <1>5, NoCommit DEF end_op, At, InOp
    <2> QED  BY <1>5, <2>1 DEF end_op, disk, Roomy, LogSuffices
  <1>6. ASSUME NEW p \in Procs,
               begin_op(p) \/ modify(p) \/ write_log(p) \/ write_head(p) \/ install_trans(p)
               \/ erase(p) \/ committed(p) \/ exit(p)
        PROVE  Roomy'
    BY <1>0, <1>6, ZenonT(40) DEF begin_op, modify, write_log, write_head, install_trans, erase, committed,
       exit, disk, Roomy, LogSuffices
  <1>7. ASSUME NEW b \in Blocks, recycle(b) PROVE Roomy'
    BY <1>7, ZenonT(40) DEF recycle, disk, Roomy, LogSuffices
  <1>8. CASE recover_from_log
    BY <1>0, <1>8 DEF recover_from_log, Roomy, LogSuffices
  <1> QED  BY <1>1, <1>2, <1>3, <1>4, <1>5, <1>6, <1>7, <1>8, ZenonT(40) DEF Next, ThreadStep

\* When the operations leave room for the header, no log_write panics and the log
\* never outgrows its place on disk, although lh.n is read without the lock.
THEOREM SpaceReserved == ASSUME RoomOnDisk PROVE Spec => []LogSuffices
  <1>1. Roomy => LogSuffices  BY DEF Roomy
  <1>2. Init => Roomy  BY InitRoomy
  <1>3. IInv /\ IInv' /\ Roomy /\ [Next]_vars => Roomy'  BY NextRoomy
  <1> QED  BY InitIInv, NextIInv, <1>1, <1>2, <1>3, PTL DEF Spec

-----------------------------------------------------------------------------
(***************************************************************************)
(* The log implements AtomicDisk.  A change of a buffer is Write, and the  *)
(* header on disk is the one block whose write is Commit; begin_op and     *)
(* end_op are Begin and End; all other steps, those of recovery included,  *)
(* change nothing that can be seen.                                        *)
(***************************************************************************)
Contents == IF mode = "up" THEN cache ELSE Recovered
Busy == {p \in Procs : pc[p] \in InOp}
Simulated == [Abstract!Next]_<<Contents, Recovered, Busy>>

\* What recovery makes of a header h, a log d and the blocks f.
View(h, d, f) ==
    [b \in Blocks |-> IF \E i \in 1 .. Len(h) : h[i] = b
                      THEN d[CHOOSE i \in 1 .. Len(h) : h[i] = b] ELSE f[b]]

\* The blocks named in the header are taken from the log.  If these are the blocks
\* of g, and g has the others in common with f, then the whole is g.
LEMMA ViewIs ==
    ASSUME NEW h \in Seq(Blocks), Distinct(h), NEW d,
           NEW f \in [Blocks -> Data], NEW g \in [Blocks -> Data],
           \A i \in 1 .. Len(h) : d[i] = g[h[i]],
           \A b \in Blocks : b \notin Elems(h) => f[b] = g[b]
    PROVE  View(h, d, f) = g
  <1>1. ASSUME NEW b \in Blocks PROVE View(h, d, f)[b] = g[b]
    <2>1. CASE b \in Elems(h)
      <3>1. PICK i \in 1 .. Len(h) : h[i] = b  BY <2>1 DEF Elems
      <3>2. \A j \in 1 .. Len(h) : h[j] = b => j = i  BY <3>1 DEF Distinct
      <3>3. (CHOOSE j \in 1 .. Len(h) : h[j] = b) = i  BY <3>1, <3>2
      <3> QED  BY <3>1, <3>3 DEF View
    <2>2. CASE b \notin Elems(h)
      BY <2>2 DEF View, Elems
    <2> QED  BY <2>1, <2>2
  <1>2. View(h, d, f) = [b \in Blocks |-> View(h, d, f)[b]]  BY DEF View
  <1> QED  BY <1>1, <1>2

\* The blocks that the header does not name are all that matters of f.
LEMMA ViewSame ==
    ASSUME NEW h, NEW d, NEW f, NEW g, \A b \in Blocks : b \notin Elems(h) => f[b] = g[b]
    PROVE  View(h, d, f) = View(h, d, g)
  BY DEF View, Elems

\* Recovered is such a view.
LEMMA RecoveredView ==
    /\ Recovered = View(head, dlog, home)
    /\ Recovered' = View(head', dlog', home')
  BY DEF Recovered, View

\* With an empty header it is what is home already.
LEMMA ViewEmpty ==
    ASSUME NEW d, NEW f \in [Blocks -> Data] PROVE View(<<>>, d, f) = f
  <1>1. <<>> \in Seq(Blocks) /\ Distinct(<<>>) /\ Len(<<>>) = 0  BY EmptyLog
  <1> QED  BY <1>1, SMT DEF View

\* Steps that leave the disk alone.
LEMMA SameDisk ==
    ASSUME UNCHANGED disk PROVE Recovered' = Recovered
  BY DEF disk, Recovered

\* Steps that change neither the disk nor what is seen.
LEMMA Unseen ==
    ASSUME Recovered' = Recovered, UNCHANGED <<cache, mode>>,
           \A p \in Procs : pc'[p] \in InOp <=> pc[p] \in InOp
    PROVE  Simulated
  <1>1. Contents' = Contents  BY DEF Contents
  <1>2. Busy' = Busy  BY DEF Busy
  <1> QED  BY <1>1, <1>2 DEF Simulated

\* The threads in an operation: begin_op, modify, log_write, append, end_op.
LEMMA OperationRefines ==
    ASSUME IInv, NEW p \in Procs,
           begin_op(p) \/ modify(p) \/ log_write(p) \/ append(p) \/ end_op(p)
    PROVE  Simulated
  <1> USE DEF IInv
  <1>0. mode = "up" /\ mode' = mode /\ Recovered' = Recovered
    BY SameDisk DEF begin_op, modify, log_write, append, end_op, At, Panic, disk
  <1>1. Contents = cache /\ Contents' = cache'  BY <1>0 DEF Contents
  <1>2. CASE begin_op(p)
    <2>1. Contents' = Contents  BY <1>1, <1>2 DEF begin_op
    <2>2. Busy' = Busy \/ Busy' = Busy \cup {p}
      BY <1>2, ZenonT(60) DEF begin_op, At, Goto, Busy, LogTypeOK, InOp
    <2> QED  BY <1>0, <2>1, <2>2, ZenonT(40) DEF Simulated, Abstract!Next, Abstract!Begin, Contents, Busy
  <1>3. CASE modify(p)
    <2>1. Busy' = Busy /\ p \in Busy
      BY <1>3, ZenonT(60) DEF modify, At, Goto, Busy, LogTypeOK, InOp
    <2>2. \E b \in Blocks, v \in Data : Contents' = [Contents EXCEPT ![b] = v]
      BY <1>1, <1>3 DEF modify
    <2> QED  BY <1>0, <2>1, <2>2, ZenonT(80) DEF Simulated, Abstract!Next, Abstract!Write, Contents, Busy
  <1>4. CASE log_write(p) \/ append(p)
    <2>1. /\ UNCHANGED cache
          /\ \A q \in Procs : pc'[q] \in InOp <=> pc[q] \in InOp
      BY <1>4, ZenonT(80) DEF log_write, append, At, Goto, Panic, LogTypeOK, InOp
    <2> QED  BY <1>0, <2>1, Unseen
  <1>5. CASE end_op(p)
    <2>1. Contents' = Contents  BY <1>1, <1>5 DEF end_op, Panic
    <2>2. Busy' = Busy \/ Busy' = Busy \ {p}
      <3>1. CASE UNCHANGED pc  BY <3>1 DEF Busy
      <3>2. ASSUME NEW l \in {"write_log", "done"}, Goto(p, l) PROVE Busy' = Busy \ {p}
        BY <3>2 DEF Goto, Busy, LogTypeOK, InOp
      <3>3. CASE Wakeup(p, "out")
        BY <3>3 DEF Wakeup, Busy, LogTypeOK, InOp
      <3> QED  BY <1>5, <3>1, <3>2, <3>3 DEF end_op, Panic
    <2> QED  BY <1>0, <2>1, <2>2, ZenonT(40) DEF Simulated, Abstract!Next, Abstract!End, Contents, Busy
  <1> QED  BY <1>2, <1>3, <1>4, <1>5

\* commit(): only write_head is seen.
LEMMA CommitRefines ==
    ASSUME IInv, NEW p \in Procs,
           write_log(p) \/ write_head(p) \/ install_trans(p) \/ erase(p) \/ committed(p)
    PROVE  Simulated
  <1> USE DEF IInv
  <1>0. mode = "up" /\ mode' = mode /\ pc[p] \in Commits
    BY DEF write_log, write_head, install_trans, erase, committed, At, Commits
  <1>1. \A q \in Procs : pc[q] \notin InOp /\ buf[q] = NoBlock
                         /\ (q # p => pc[q] \notin Commits)
    BY <1>0, CommitterAlone
  <1>2. /\ home \in [Blocks -> Data] /\ cache \in [Blocks -> Data]
        /\ lh \in Seq(Blocks) /\ Distinct(lh)
    BY DEF LogTypeOK, SpaceOK
  <1>3. pc[p] \in {"write_log", "write_head", "done"} => head = <<>>
    BY <1>0, <1>1, ZenonT(80) DEF ContentsOK, Commits
  <1>4. CASE write_log(p)
    <2>1. head = <<>> /\ UNCHANGED <<home, head, cache>>
      BY <1>3, <1>4, ZenonT(40) DEF write_log, At
    <2>2. Recovered' = Recovered
      BY <1>2, <2>1, RecoveredView, ViewEmpty
    <2>3. \A q \in Procs : pc'[q] \in InOp <=> pc[q] \in InOp
      BY <1>4 DEF write_log, At, Goto, Loop, LogTypeOK, InOp
    <2> QED  BY <1>0, <2>1, <2>2, <2>3, Unseen
  <1>5. CASE write_head(p)
    <2>1. head' = lh /\ UNCHANGED <<home, dlog, cache>> /\ pc[p] = "write_head"
      BY <1>5 DEF write_head, At
    <2>2. \A i \in 1 .. Len(lh) : dlog[i] = cache[lh[i]]
      BY <2>1, ZenonT(80) DEF ContentsOK, Logged
    <2>3. \A b \in Blocks : b \notin Elems(lh) => home[b] = cache[b]
      BY <1>1, SetAssumption, ZenonT(80) DEF ContentsOK
    <2>4. View(lh, dlog, home) = cache
      BY <1>2, <2>2, <2>3, ViewIs, SMT
    <2>5. Recovered' = Contents /\ Contents' = Contents
      BY <1>0, <2>1, <2>4, RecoveredView DEF Contents
    <2>6. Busy = {} /\ Busy' = {}
      BY <1>1, <1>5 DEF write_head, Goto, LogTypeOK, Busy, InOp
    <2> QED  BY <2>5, <2>6, ZenonT(40) DEF Simulated, Abstract!Next, Abstract!Commit, Contents, Busy
  <1>6. CASE install_trans(p)
    <2>1. /\ pc[p] = "install" /\ InstallOne /\ UNCHANGED <<dlog, head, lh>>
      BY <1>6 DEF install_trans, At
    <2>2. /\ Looping /\ Home(tail) /\ head = lh /\ Logged(Len(lh))
      BY <2>1, ZenonT(80) DEF Looping, ContentsOK
    <2>3. /\ tail + 1 \in 1 .. Len(lh)
          /\ cache' \in [Blocks -> Data]
          /\ \A b \in Blocks : cache'[b] = IF b = lh[tail + 1] THEN dlog[tail + 1] ELSE cache[b]
      BY <2>1, <2>2, InstallRound, ZenonT(40)
    <2>4. cache' = cache
      <3>1. dlog[tail + 1] = cache[lh[tail + 1]]  BY <2>2, <2>3 DEF Logged
      <3> QED  BY <1>2, <2>3, <3>1, SMT
    <2>5. Recovered' = Recovered
      <3>1. lh[tail + 1] \in Elems(head)  BY <2>2, <2>3 DEF Elems
      <3>2. \A b \in Blocks : b \notin Elems(head) => home'[b] = home[b]
        BY <1>2, <2>1, <3>1 DEF InstallOne
      <3> QED  BY <2>1, <3>2, RecoveredView, ViewSame
    <2>6. \A q \in Procs : pc'[q] \in InOp <=> pc[q] \in InOp
      BY <1>6 DEF install_trans, At, Goto, Loop, LogTypeOK, InOp
    <2> QED  BY <1>0, <2>4, <2>5, <2>6, Unseen
  <1>7. CASE erase(p)
    <2>1. pc[p] = "erase" /\ head' = <<>> /\ UNCHANGED <<home, dlog, cache>>
      BY <1>7 DEF erase, At
    <2>2. head = lh /\ \A i \in 1 .. Len(lh) : dlog[i] = home[lh[i]]
      BY <2>1, ZenonT(80) DEF ContentsOK, Home
    <2>3. View(head, dlog, home) = home
      BY <1>2, <2>2, ViewIs, SMT
    <2>4. View(<<>>, dlog, home) = home
      BY <1>2, ViewEmpty
    <2>5. Recovered' = Recovered
      BY <2>1, <2>3, <2>4, RecoveredView
    <2>6. \A q \in Procs : pc'[q] \in InOp <=> pc[q] \in InOp
      BY <1>7 DEF erase, At, Goto, LogTypeOK, InOp
    <2> QED  BY <1>0, <2>1, <2>5, <2>6, Unseen, ZenonT(40)
  <1>8. CASE committed(p)
    <2>1. UNCHANGED <<disk, cache>>  BY <1>8 DEF committed
    <2>2. \A q \in Procs : pc'[q] \in InOp <=> pc[q] \in InOp
      BY <1>8 DEF committed, At, Wakeup, LogTypeOK, InOp
    <2> QED  BY <1>0, <2>1, <2>2, SameDisk, Unseen, ZenonT(40)
  <1> QED  BY <1>4, <1>5, <1>6, <1>7, <1>8

\* The crash goes back to what is stable, and recovery shows the same contents from
\* its beginning to its end.
LEMMA RecoveryRefines ==
    ASSUME IInv, crash \/ recover_from_log PROVE Simulated
  <1> USE DEF IInv
  <1>0. home \in [Blocks -> Data] /\ cache \in [Blocks -> Data]
        /\ head \in Seq(Blocks) /\ Distinct(head)
    BY DEF LogTypeOK, SpaceOK
  <1>1. CASE crash
    <2>1. UNCHANGED disk /\ mode' = "read_head" /\ \A p \in Procs : pc'[p] = "out"
      BY <1>1 DEF crash
    <2>2. Recovered' = Recovered /\ Contents' = Recovered'
      BY <2>1, SameDisk DEF Contents
    <2>3. Busy' = {}  BY <2>1 DEF Busy, InOp
    <2> QED  BY <2>2, <2>3 DEF Simulated, Abstract!Next, Abstract!Crash, Contents, Busy
  <1>2. CASE recover_from_log
    <2>0. mode # "up" /\ UNCHANGED <<dlog, pc>>
      BY <1>2 DEF recover_from_log
    <2>1. Contents = Recovered  BY <2>0 DEF Contents
    <2>2. Busy' = Busy  BY <2>0 DEF Busy
    <2>3. Recovered' = Recovered /\ Contents' = Recovered'
      <3>1. CASE mode = "read_head"
        <4>1. UNCHANGED <<home, head>> /\ mode' # "up"
          BY <1>2, <3>1 DEF recover_from_log
        <4> QED  BY <2>0, <4>1, SameDisk DEF Contents, disk
      <3>2. CASE mode = "install"
        <4>1. InstallOne /\ UNCHANGED <<head, lh>> /\ mode' # "up"
          BY <1>2, <3>2 DEF recover_from_log, Loop
        <4>2. Looping /\ Home(tail) /\ lh = head  BY <3>2 DEF Looping, ContentsOK
        <4>3. tail + 1 \in 1 .. Len(lh)  BY <2>0, <4>1, <4>2, InstallRound
        <4>4. lh[tail + 1] \in Elems(head)  BY <4>2, <4>3 DEF Elems
        <4>5. \A b \in Blocks : b \notin Elems(head) => home'[b] = home[b]
          BY <1>0, <4>1, <4>4 DEF InstallOne
        <4> QED  BY <2>0, <4>1, <4>5, RecoveredView, ViewSame DEF Contents
      <3>3. CASE mode = "erase"
        <4>1. head' = <<>> /\ mode' = "up" /\ UNCHANGED <<home, cache>>
          BY <1>2, <3>3 DEF recover_from_log
        <4>2. lh = head /\ \A i \in 1 .. Len(head) : dlog[i] = home[head[i]]
          BY <3>3, ZenonT(60) DEF ContentsOK, Home
        <4>3. View(head, dlog, home) = home  BY <1>0, <4>2, ViewIs, SMT
        <4>4. View(<<>>, dlog, home) = home  BY <1>0, ViewEmpty
        <4>5. \A p \in Procs : buf[p] = NoBlock
          BY <2>0 DEF CommitOK, OpsOK, Holding
        <4>6. \A b \in Blocks : cache[b] = home[b]
          BY <2>0, <4>5, SetAssumption DEF ContentsOK
        <4>7. cache = home  BY <1>0, <4>6, SMT
        <4> QED  BY <2>0, <4>1, <4>3, <4>4, <4>7, RecoveredView DEF Contents
      <3> QED  BY <1>2, <3>1, <3>2, <3>3 DEF recover_from_log
    <2> QED  BY <2>1, <2>2, <2>3 DEF Simulated
  <1> QED  BY <1>1, <1>2

\* Every step is one of the abstract disk, or changes nothing of it.
LEMMA StepRefines == IInv /\ [Next]_vars => Simulated
  <1> SUFFICES ASSUME IInv, [Next]_vars PROVE Simulated
    OBVIOUS
  <1>1. CASE UNCHANGED vars
    BY <1>1, SameDisk, Unseen DEF vars, memory
  <1>2. ASSUME NEW p \in Procs, exit(p) PROVE Simulated
    BY <1>2, SameDisk, Unseen DEF exit
  <1>3. ASSUME NEW b \in Blocks, recycle(b) PROVE Simulated
    <2>1. cache' = cache  BY <1>3, RecycleKeeps
    <2> QED  BY <1>3, <2>1, SameDisk, Unseen DEF recycle
  <1> QED  BY <1>1, <1>2, <1>3, OperationRefines, CommitRefines, RecoveryRefines
           DEF Next, ThreadStep

\* Operations are atomic with respect to crashes: wherever the machine stops, in
\* commit() and in recovery too, the disk comes back with the contents of a moment
\* at which no operation was in progress.
THEOREM CrashesAreAtomic == Spec => ImplementsAtomicDisk
  <1>1. Init => Abstract!Init
    <2> SUFFICES ASSUME Init PROVE Abstract!Init
      OBVIOUS
    <2>1. /\ home \in [Blocks -> Data] /\ head = <<>> /\ mode = "up" /\ cache = home
          /\ \A p \in Procs : pc[p] = "out"
      BY DEF Init
    <2>2. Recovered = home  BY <2>1, RecoveredView, ViewEmpty
    <2> QED  BY <2>1, <2>2 DEF Abstract!Init, InOp
  <1>2. IInv /\ [Next]_vars
          => [Abstract!Next]_<<IF mode = "up" THEN cache ELSE Recovered, Recovered,
                               {p \in Procs : pc[p] \in InOp}>>
    BY StepRefines DEF Simulated, Contents, Busy
  <1> QED
    BY InitIInv, NextIInv, <1>1, <1>2, PTL DEF Spec, ImplementsAtomicDisk, Abstract!Spec

=============================================================================
