----------------------------- MODULE TerminalProofs -----------------------------
(***************************************************************************)
(* The ring of the console is the line and the queue of Terminal, for      *)
(* every size of the ring and every key.                                   *)
(*                                                                         *)
(* r, w and e are unsigned ints that wrap around, and the ring is indexed  *)
(* by their remainders.  RingOK says that they stay in order, at most      *)
(* INPUT_BUF apart: then the slots between them are different ones         *)
(* (ModApart, FreeSlot), and what a key writes is outside what readers     *)
(* have yet to get.                                                        *)
(***************************************************************************)
EXTENDS Console, TLAPS

\* What the indices of the ring enclose: the characters handed over, then the line.
RingOK ==
    /\ r \in 0 .. UINT - 1 /\ w \in 0 .. UINT - 1 /\ e \in 0 .. UINT - 1
    /\ buf \in [0 .. INPUT_BUF - 1 -> Keys \cup {"x"}]
    /\ Minus(w, r) + Minus(e, w) = Minus(e, r)
    /\ Minus(e, r) <= INPUT_BUF

-----------------------------------------------------------------------------
\* Zenon proves the steps that name no other prover.
USE Zenon

\* Division with remainder.
LEMMA DivMod ==
    ASSUME NEW m \in Nat \ {0}, NEW a \in Int
    PROVE  a % m \in 0 .. m - 1 /\ a \div m \in Int /\ a = m * (a \div m) + (a % m)
  BY SMT

\* The remainder is the only one.
LEMMA ModUnique ==
    ASSUME NEW m \in Nat \ {0}, NEW q \in Int, NEW s \in 0 .. m - 1
    PROVE  (m * q + s) % m = s
  BY SMT

\* Whole turns make no difference.
LEMMA ModTurns ==
    ASSUME NEW m \in Nat \ {0}, NEW a \in Int, NEW k \in Int
    PROVE  (a + m * k) % m = a % m
  <1>1. PICK q \in Int : a = m * q + (a % m)  BY DivMod
  <1>2. PICK s \in 0 .. m - 1 : s = a % m  BY DivMod
  <1>3. PICK p \in Int : p = q + k  BY SMT
  <1>4. a + m * k = m * p + s  BY <1>1, <1>2, <1>3, SMT
  <1>5. (m * p + s) % m = s  BY ModUnique
  <1> QED  BY <1>2, <1>4, <1>5

\* Numbers less than a turn apart are in different slots.
LEMMA ModApart ==
    ASSUME NEW m \in Nat \ {0}, NEW a \in Int, NEW b \in Int, a < b, b < a + m
    PROVE  a % m # b % m
  <1>1. PICK q \in Int, s \in 0 .. m - 1 : a = m * q + s /\ s = a % m  BY DivMod
  <1>2. PICK d \in 1 .. m - 1 : d = b - a  BY SMT
  <1>3. CASE s + d < m
    <2>1. b = m * q + (s + d) /\ s + d \in 0 .. m - 1
      <3>1. PICK z \in Int : z = m * q  BY SMT
      <3>2. a = z + s  BY <1>1, <3>1
      <3>3. b = z + (s + d)  BY <1>2, <3>2, SMT
      <3> QED  BY <1>2, <1>3, <3>1, <3>3, SMT
    <2>2. b % m = s + d  BY <2>1, ModUnique
    <2> QED  BY <1>1, <1>2, <2>2, SMT
  <1>4. CASE s + d >= m
    <2>1. PICK p \in Int : p = q + 1  BY SMT
    <2>2. b = m * p + (s + d - m) /\ s + d - m \in 0 .. m - 1
      <3>1. PICK z \in Int : z = m * q  BY SMT
      <3>2. m * p = z + m  BY <2>1, <3>1, SMT
      <3>3. a = z + s  BY <1>1, <3>1
      <3>4. b = (z + m) + (s + d - m)  BY <1>2, <3>3, SMT
      <3> QED  BY <1>2, <1>4, <3>2, <3>4, SMT
    <2>3. b % m = s + d - m  BY <2>2, ModUnique
    <2> QED  BY <1>1, <1>2, <2>3, SMT
  <1> QED  BY <1>3, <1>4, SMT

\* UINT is a number of turns of the ring.
LEMMA Turns == \E k \in Int : UINT = INPUT_BUF * k
  <1>0. INPUT_BUF \in Nat \ {0} /\ UINT \in Int /\ UINT % INPUT_BUF = 0  BY RingAssumption, SMT
  <1>1. PICK k \in Int : k = UINT \div INPUT_BUF  BY <1>0, DivMod
  <1>2. PICK z \in Int : z = INPUT_BUF * k  BY <1>0, SMT
  <1>3. UINT = INPUT_BUF * (UINT \div INPUT_BUF) + (UINT % INPUT_BUF)  BY <1>0, DivMod
  <1> QED  BY <1>0, <1>1, <1>2, <1>3, SMT

\* The ring divides the range of the indices, so that their overflow is not seen.
LEMMA ModMod ==
    ASSUME NEW a \in Int PROVE (a % UINT) % INPUT_BUF = a % INPUT_BUF
  <1>0. INPUT_BUF \in Nat \ {0} /\ UINT \in Nat \ {0} /\ UINT % INPUT_BUF = 0
    BY RingAssumption, SMT
  <1>1. PICK q \in Int : a = UINT * q + (a % UINT)  BY <1>0, DivMod
  <1>2. PICK s \in Int : s = a % UINT  BY <1>0, DivMod, SMT
  <1>3. PICK k \in Int : UINT = INPUT_BUF * k  BY Turns
  <1>4. PICK m \in Int : m = k * q  BY SMT
  <1>5. a = s + INPUT_BUF * m  BY <1>0, <1>1, <1>2, <1>3, <1>4, SMT
  <1>6. (s + INPUT_BUF * m) % INPUT_BUF = s % INPUT_BUF  BY <1>0, ModTurns
  <1> QED  BY <1>2, <1>5, <1>6

\* The sums and differences of indices.
LEMMA MinusIs ==
    ASSUME NEW a \in 0 .. UINT - 1, NEW b \in 0 .. UINT - 1
    PROVE  Minus(a, b) = (IF a >= b THEN a - b ELSE a - b + UINT) /\ Minus(a, b) \in 0 .. UINT - 1
  BY RingAssumption, SMT DEF Minus
LEMMA PlusIs ==
    ASSUME NEW a \in 0 .. UINT - 1, NEW b \in 0 .. UINT - 1
    PROVE  Plus(a, b) = (IF a + b < UINT THEN a + b ELSE a + b - UINT) /\ Plus(a, b) \in 0 .. UINT - 1
  BY RingAssumption, SMT DEF Plus

\* The slots after j, seen from i.
LEMMA SlotFrom ==
    ASSUME NEW i \in 0 .. UINT - 1, NEW j \in 0 .. UINT - 1, NEW x \in Int
    PROVE  (i + Minus(j, i) + x) % INPUT_BUF = (j + x) % INPUT_BUF
  <1>0. INPUT_BUF \in Nat \ {0} /\ UINT \in Nat \ {0} /\ UINT % INPUT_BUF = 0
    BY RingAssumption, SMT
  <1>1. CASE j >= i
    <2>1. i + Minus(j, i) + x = j + x  BY <1>0, <1>1, MinusIs, SMT
    <2> QED  BY <2>1
  <1>2. CASE j < i
    <2>1. i + Minus(j, i) + x = (j + x) + UINT  BY <1>0, <1>2, MinusIs, SMT
    <2>2. PICK k \in Int : UINT = INPUT_BUF * k  BY Turns
    <2>3. j + x \in Int  BY <1>0, SMT
    <2>4. ((j + x) + INPUT_BUF * k) % INPUT_BUF = (j + x) % INPUT_BUF
      BY <1>0, <2>3, ModTurns
    <2> QED  BY <2>1, <2>2, <2>4
  <1> QED  BY <1>0, <1>1, <1>2, SMT

\* What is dead is exactly what Without clears.
LEMMA WithoutIs ==
    ASSUME RingOK, NEW i \in 0 .. UINT - 1, NEW j \in 0 .. UINT - 1, NEW d \in 0 .. INPUT_BUF - 1,
           d >= Minus(j, i)
    PROVE  Without(i, j)[(i + d) % INPUT_BUF] = buf[(i + d) % INPUT_BUF]
  <1>0. INPUT_BUF \in Nat \ {0} /\ UINT \in Nat \ {0}  BY RingAssumption, SMT
  <1>a. i \in Int /\ d \in Int /\ i + d \in Int  BY <1>0, SMT
  <1>1. PICK k \in 0 .. INPUT_BUF - 1 : k = (i + d) % INPUT_BUF  BY <1>0, <1>a, DivMod
  <1>2. PICK q \in Int : i + d = INPUT_BUF * q + k  BY <1>0, <1>a, <1>1, DivMod
  <1>3. PICK p \in Int : p = -q  BY SMT
  <1>4. k - i = d + INPUT_BUF * p /\ k - i \in Int
    <2>1. PICK z \in Int : z = INPUT_BUF * q  BY <1>0, SMT
    <2>2. INPUT_BUF * p = -z  BY <1>0, <1>3, <2>1, SMT
    <2> QED  BY <1>0, <1>a, <1>2, <2>1, <2>2, SMT
  <1>5. (d + INPUT_BUF * p) % INPUT_BUF = d
    <2>1. (d + INPUT_BUF * p) % INPUT_BUF = d % INPUT_BUF  BY <1>0, <1>a, ModTurns
    <2>2. d % INPUT_BUF = d  BY <1>0, SMT
    <2> QED  BY <2>1, <2>2
  <1>6. Minus(k, i) % INPUT_BUF = d  BY <1>4, <1>5, ModMod DEF Minus
  <1>7. ~(d < Minus(j, i))  BY <1>0, MinusIs, SMT
  <1>8. k \in DOMAIN buf  BY DEF RingOK
  <1> QED  BY <1>1, <1>6, <1>7, <1>8 DEF Without

\* What comes before it stays.
LEMMA WithoutKeeps ==
    ASSUME RingOK, NEW s \in 0 .. UINT - 1, NEW i \in 0 .. UINT - 1, NEW j \in 0 .. UINT - 1,
           Minus(i, s) + Minus(j, i) <= INPUT_BUF, NEW d \in Nat, d < Minus(i, s)
    PROVE  Without(i, j)[(s + d) % INPUT_BUF] = buf[(s + d) % INPUT_BUF]
  <1>0. INPUT_BUF \in Nat \ {0} /\ UINT \in Nat \ {0}  BY RingAssumption, SMT
  <1>1. PICK a \in Nat : a = Minus(i, s)  BY <1>0, MinusIs, SMT
  <1>2. PICK m \in Nat : m = Minus(j, i)  BY <1>0, MinusIs, SMT
  <1>3. PICK x \in 0 .. INPUT_BUF - 1 : x = INPUT_BUF + d - a /\ x >= m
    BY <1>0, <1>1, <1>2, SMT
  <1>4. (s + a + x) % INPUT_BUF = (i + x) % INPUT_BUF  BY <1>0, <1>1, <1>3, SlotFrom, SMT
  <1>5. PICK k \in Int : k = 1 /\ s + a + x = (s + d) + INPUT_BUF * k /\ s + d \in Int
    BY <1>0, <1>1, <1>3, SMT
  <1>6. ((s + d) + INPUT_BUF * k) % INPUT_BUF = (s + d) % INPUT_BUF
    <2>1. s + d \in Int /\ INPUT_BUF \in Nat \ {0}  BY <1>0, <1>5
    <2> QED  BY <2>1, ModTurns
  <1>7. Without(i, j)[(i + x) % INPUT_BUF] = buf[(i + x) % INPUT_BUF]
    BY <1>2, <1>3, WithoutIs
  <1> QED  BY <1>4, <1>5, <1>6, <1>7

\* Nothing is nothing.
LEMMA WithoutNone ==
    ASSUME RingOK, NEW i \in 0 .. UINT - 1 PROVE Without(i, i) = buf
  <1>0. INPUT_BUF \in Nat \ {0} /\ UINT \in Nat \ {0}  BY RingAssumption, SMT
  <1>1. Minus(i, i) = 0  BY <1>0, MinusIs, SMT
  <1>2. ASSUME NEW k \in DOMAIN buf PROVE ~(Minus(k, i) % INPUT_BUF < 0)
    <2>1. k \in 0 .. UINT - 1  BY RingAssumption, SMT DEF RingOK
    <2>2. Minus(k, i) \in Int  BY <1>0, <2>1, MinusIs, SMT
    <2>3. Minus(k, i) % INPUT_BUF \in 0 .. INPUT_BUF - 1  BY <1>0, <2>2, DivMod
    <2> QED  BY <2>3, SMT
  <1>3. Without(i, i) = [k \in DOMAIN buf |-> buf[k]]  BY <1>1, <1>2 DEF Without
  <1> QED  BY <1>3 DEF RingOK

\* The ring after a step is one that Without leaves.
LEMMA WithoutType ==
    ASSUME RingOK, NEW i, NEW j
    PROVE  Without(i, j) \in [0 .. INPUT_BUF - 1 -> Keys \cup {"x"}]
  BY DEF RingOK, Without

\* The characters between two indices of a ring f.
SliceOf(f, i, j) == [k \in 1 .. Minus(j, i) |-> f[Plus(i, k - 1) % INPUT_BUF]]
LEMMA SliceIs ==
    ASSUME NEW i \in 0 .. UINT - 1, NEW j \in 0 .. UINT - 1,
           NEW f \in [0 .. INPUT_BUF - 1 -> Keys \cup {"x"}]
    PROVE  /\ SliceOf(f, i, j) \in Seq(Keys \cup {"x"}) /\ Len(SliceOf(f, i, j)) = Minus(j, i)
           /\ Minus(j, i) \in Nat
           /\ \A k \in 1 .. Minus(j, i) : SliceOf(f, i, j)[k] = f[(i + (k - 1)) % INPUT_BUF]
  <1>0. INPUT_BUF \in Nat \ {0} /\ UINT \in Nat \ {0}  BY RingAssumption, SMT
  <1>1. Minus(j, i) \in Nat
    <2>1. Minus(j, i) \in 0 .. UINT - 1  BY MinusIs
    <2> QED  BY <1>0, <2>1, SMT
  <1>2. ASSUME NEW k \in 1 .. Minus(j, i)
        PROVE  /\ Plus(i, k - 1) % INPUT_BUF = (i + (k - 1)) % INPUT_BUF
               /\ Plus(i, k - 1) % INPUT_BUF \in 0 .. INPUT_BUF - 1
    <2>1. i + (k - 1) \in Int  BY <1>0, <1>1, SMT
    <2>2. (i + (k - 1)) % INPUT_BUF \in 0 .. INPUT_BUF - 1  BY <1>0, <2>1, DivMod
    <2> QED  BY <2>1, <2>2, ModMod DEF Plus
  <1>3. \A k \in 1 .. Minus(j, i) : SliceOf(f, i, j)[k] \in Keys \cup {"x"}
    BY <1>2 DEF SliceOf
  <1>4. SliceOf(f, i, j) \in [1 .. Minus(j, i) -> Keys \cup {"x"}]
    BY <1>3 DEF SliceOf
  <1> QED  BY <1>1, <1>2, <1>4, SMT DEF SliceOf

\* Slices that agree slot by slot.
LEMMA SliceSame ==
    ASSUME NEW i \in 0 .. UINT - 1, NEW j \in 0 .. UINT - 1,
           NEW f \in [0 .. INPUT_BUF - 1 -> Keys \cup {"x"}],
           NEW g \in [0 .. INPUT_BUF - 1 -> Keys \cup {"x"}],
           \A d \in Nat : d < Minus(j, i) => f[(i + d) % INPUT_BUF] = g[(i + d) % INPUT_BUF]
    PROVE  SliceOf(f, i, j) = SliceOf(g, i, j)
  <1>1. Minus(j, i) \in Nat  BY SliceIs
  <1>2. ASSUME NEW k \in 1 .. Minus(j, i) PROVE SliceOf(f, i, j)[k] = SliceOf(g, i, j)[k]
    <2>1. k - 1 \in Nat /\ k - 1 < Minus(j, i)  BY <1>1, SMT
    <2> QED  BY <2>1, SliceIs
  <1> QED  BY <1>2 DEF SliceOf

\* An index that moves on by one.
LEMMA MoveOn ==
    ASSUME NEW a \in 0 .. UINT - 1, NEW b \in 0 .. UINT - 1
    PROVE  /\ Plus(a, 1) \in 0 .. UINT - 1
           /\ Minus(a, b) + 1 < UINT => Minus(Plus(a, 1), b) = Minus(a, b) + 1
           /\ Minus(b, a) > 0 => Minus(b, Plus(a, 1)) = Minus(b, a) - 1
           /\ Minus(Plus(a, 1), a) = 1
  <1>0. UINT \in Nat /\ UINT > 1  BY RingAssumption, SMT
  <1>1. /\ Plus(a, 1) = (IF a + 1 < UINT THEN a + 1 ELSE a + 1 - UINT)
        /\ Plus(a, 1) \in 0 .. UINT - 1
    BY <1>0, PlusIs, SMT
  <1>2. PICK x \in 0 .. UINT - 1 : x = Plus(a, 1)  BY <1>1
  <1>3. /\ Minus(a, b) = (IF a >= b THEN a - b ELSE a - b + UINT)
        /\ Minus(b, a) = (IF b >= a THEN b - a ELSE b - a + UINT)
        /\ Minus(x, b) = (IF x >= b THEN x - b ELSE x - b + UINT)
        /\ Minus(b, x) = (IF b >= x THEN b - x ELSE b - x + UINT)
        /\ Minus(x, a) = (IF x >= a THEN x - a ELSE x - a + UINT)
    BY MinusIs
  <1>4. Minus(a, b) + 1 < UINT => Minus(x, b) = Minus(a, b) + 1  BY <1>0, <1>1, <1>2, <1>3, SMT
  <1>5. Minus(b, a) > 0 => Minus(b, x) = Minus(b, a) - 1  BY <1>0, <1>1, <1>2, <1>3, SMT
  <1>6. Minus(x, a) = 1  BY <1>0, <1>1, <1>2, <1>3, SMT
  <1> QED  BY <1>1, <1>2, <1>4, <1>5, <1>6

\* The slot of e, where a key is put, is that of no other character.
LEMMA FreeSlot ==
    ASSUME NEW i \in 0 .. UINT - 1, NEW j \in 0 .. UINT - 1, Minus(j, i) < INPUT_BUF,
           NEW d \in Nat, d < Minus(j, i)
    PROVE  (i + d) % INPUT_BUF # j % INPUT_BUF
  <1>0. INPUT_BUF \in Nat \ {0} /\ UINT \in Nat \ {0}  BY RingAssumption, SMT
  <1>1. PICK a \in Nat : a = Minus(j, i)  BY <1>0, MinusIs, SMT
  <1>2. PICK z \in Int : z = 0  BY SMT
  <1>3. (i + a + z) % INPUT_BUF = (j + z) % INPUT_BUF  BY <1>1, <1>2, SlotFrom
  <1>4. i + d \in Int /\ i + a \in Int /\ i + d < i + a /\ i + a < (i + d) + INPUT_BUF
    BY <1>0, <1>1, SMT
  <1>5. (i + d) % INPUT_BUF # (i + a) % INPUT_BUF  BY <1>0, <1>4, ModApart
  <1>6. i + a + z = i + a /\ j + z = j  BY <1>0, <1>1, <1>2, SMT
  <1> QED  BY <1>3, <1>5, <1>6

\* Sequences with the same elements are equal; the elements of those that are put
\* together and of those that lose an end.
LEMMA SeqEqual ==
    ASSUME NEW S, NEW s \in Seq(S), NEW t \in Seq(S), Len(s) = Len(t),
           \A k \in 1 .. Len(s) : s[k] = t[k]
    PROVE  s = t
  BY SMT
LEMMA AppendIs ==
    ASSUME NEW S, NEW p \in Seq(S), NEW x \in S, NEW s \in Seq(S), Len(s) = Len(p) + 1,
           \A k \in 1 .. Len(p) : s[k] = p[k], s[Len(p) + 1] = x
    PROVE  s = Append(p, x)
  <1>1. Append(p, x) \in Seq(S) /\ Len(Append(p, x)) = Len(s)  BY SMT
  <1>2. \A k \in 1 .. Len(s) : s[k] = Append(p, x)[k]  BY SMT
  <1> QED  BY <1>1, <1>2, SeqEqual
LEMMA ConcatIs ==
    ASSUME NEW S, NEW p \in Seq(S), NEW q \in Seq(S), NEW s \in Seq(S),
           Len(s) = Len(p) + Len(q),
           \A k \in 1 .. Len(p) : s[k] = p[k],
           \A k \in 1 .. Len(q) : s[Len(p) + k] = q[k]
    PROVE  s = p \o q
  <1>0. Len(p) \in Nat /\ Len(q) \in Nat  BY SMT
  <1>1. /\ p \o q \in Seq(S) /\ Len(p \o q) = Len(s)
        /\ \A k \in 1 .. Len(s) :
              (p \o q)[k] = IF k <= Len(p) THEN p[k] ELSE q[k - Len(p)]
    BY SMT
  <1>2. ASSUME NEW k \in 1 .. Len(s) PROVE s[k] = (p \o q)[k]
    <2>1. CASE k <= Len(p)  BY <1>0, <1>1, <2>1, SMT
    <2>2. CASE k > Len(p)
      <3>0. PICK a \in Nat, b \in Nat : a = Len(p) /\ b = Len(q)  BY <1>0
      <3>1. k \in 1 .. a + b /\ k > a  BY <2>2, <3>0
      <3>a. k - a \in 1 .. b /\ k = a + (k - a)  BY <3>1, SMT
      <3>2. PICK m \in 1 .. b : m = k - a /\ k = a + m  BY <3>a
      <3>3. s[k] = q[m]  BY <3>0, <3>2
      <3>4. (p \o q)[k] = q[m]  BY <1>1, <3>0, <3>1, <3>2, SMT
      <3> QED  BY <3>3, <3>4
    <2>3. k <= Len(p) \/ k > Len(p)  BY <1>0, SMT
    <2> QED  BY <2>1, <2>2, <2>3
  <1> QED  BY <1>1, <1>2, SeqEqual

\* The characters after a key.
LEMMA TypedSlices ==
    ASSUME RingOK, Minus(e, r) < INPUT_BUF, NEW key \in Keys,
           NEW f \in [0 .. INPUT_BUF - 1 -> Keys \cup {"x"}], f[e % INPUT_BUF] = key,
           \A i \in 0 .. INPUT_BUF - 1 : i # e % INPUT_BUF => f[i] = buf[i],
           NEW x \in 0 .. UINT - 1,
           Minus(x, w) = Minus(e, w) + 1, Minus(x, r) = Minus(e, r) + 1
    PROVE  /\ SliceOf(f, r, w) = SliceOf(buf, r, w)
           /\ SliceOf(f, w, x) = Append(SliceOf(buf, w, e), key)
           /\ SliceOf(f, r, x) = SliceOf(buf, r, w) \o Append(SliceOf(buf, w, e), key)
  <1>0. /\ INPUT_BUF \in Nat \ {0} /\ UINT \in Nat \ {0} /\ UINT > INPUT_BUF
        /\ r \in 0 .. UINT - 1 /\ w \in 0 .. UINT - 1 /\ e \in 0 .. UINT - 1
        /\ buf \in [0 .. INPUT_BUF - 1 -> Keys \cup {"x"}]
    BY RingAssumption, SMT DEF RingOK
  <1>1. PICK a \in Nat, b \in Nat : a = Minus(w, r) /\ b = Minus(e, w)  BY <1>0, SliceIs
  <1>2. Minus(e, r) = a + b /\ a + b < INPUT_BUF  BY <1>1 DEF RingOK
  <1>3. Minus(x, w) = b + 1 /\ Minus(x, r) = a + b + 1  BY <1>1, <1>2
  <1>6. ASSUME NEW d \in Nat, d < a + b PROVE f[(r + d) % INPUT_BUF] = buf[(r + d) % INPUT_BUF]
    <2>1. (r + d) % INPUT_BUF # e % INPUT_BUF  BY <1>0, <1>2, <1>6, FreeSlot
    <2>2. r + d \in Int  BY <1>0, SMT
    <2>3. (r + d) % INPUT_BUF \in 0 .. INPUT_BUF - 1  BY <1>0, <2>2, DivMod
    <2> QED  BY <1>0, <2>1, <2>3
  <1>7. ASSUME NEW d \in Nat
        PROVE  (r + (a + d)) % INPUT_BUF = (w + d) % INPUT_BUF
    <2>1. r + (a + d) = r + a + d /\ d \in Int  BY <1>0, SMT
    <2> QED  BY <1>0, <1>1, <2>1, SlotFrom, SMT
  <1>8. ASSUME NEW d \in Nat, d < b PROVE f[(w + d) % INPUT_BUF] = buf[(w + d) % INPUT_BUF]
    <2>1. a + d \in Nat /\ a + d < a + b  BY <1>8, SMT
    <2> QED  BY <1>6, <1>7, <2>1
  <1>9. f[(w + b) % INPUT_BUF] = key
    <2>1. PICK z \in Int : z = 0  BY SMT
    <2>2. (w + b + z) % INPUT_BUF = (e + z) % INPUT_BUF  BY <1>0, <1>1, <2>1, SlotFrom
    <2>3. w + b + z = w + b /\ e + z = e  BY <1>0, <2>1, SMT
    <2> QED  BY <2>2, <2>3
  <1>10. PICK p \in Seq(Keys \cup {"x"}), q \in Seq(Keys \cup {"x"}),
              pp \in Seq(Keys \cup {"x"}), qq \in Seq(Keys \cup {"x"}) :
            /\ p = SliceOf(buf, r, w) /\ q = SliceOf(buf, w, e)
            /\ qq = SliceOf(f, w, x) /\ pp = SliceOf(f, r, x)
    BY <1>0, <1>3, SliceIs
  <1>11. /\ Len(p) = a /\ \A k \in 1 .. a : p[k] = buf[(r + (k - 1)) % INPUT_BUF]
         /\ Len(q) = b /\ \A k \in 1 .. b : q[k] = buf[(w + (k - 1)) % INPUT_BUF]
         /\ Len(qq) = b + 1 /\ \A k \in 1 .. b + 1 : qq[k] = f[(w + (k - 1)) % INPUT_BUF]
         /\ Len(pp) = a + b + 1 /\ \A k \in 1 .. a + b + 1 : pp[k] = f[(r + (k - 1)) % INPUT_BUF]
    <2>1. /\ Len(p) = a /\ \A k \in 1 .. a : p[k] = buf[(r + (k - 1)) % INPUT_BUF]
      BY <1>0, <1>1, <1>10, SliceIs, ZenonT(60)
    <2>2. /\ Len(q) = b /\ \A k \in 1 .. b : q[k] = buf[(w + (k - 1)) % INPUT_BUF]
      BY <1>0, <1>1, <1>10, SliceIs, ZenonT(60)
    <2>3. /\ Len(qq) = b + 1 /\ \A k \in 1 .. b + 1 : qq[k] = f[(w + (k - 1)) % INPUT_BUF]
      <3>1. /\ Len(SliceOf(f, w, x)) = Minus(x, w)
            /\ \A k \in 1 .. Minus(x, w) : SliceOf(f, w, x)[k] = f[(w + (k - 1)) % INPUT_BUF]
        BY <1>0, <1>3, SliceIs
      <3> QED  BY <1>3, <1>10, <3>1
    <2>4. /\ Len(pp) = a + b + 1 /\ \A k \in 1 .. a + b + 1 : pp[k] = f[(r + (k - 1)) % INPUT_BUF]
      <3>1. /\ Len(SliceOf(f, r, x)) = Minus(x, r)
            /\ \A k \in 1 .. Minus(x, r) : SliceOf(f, r, x)[k] = f[(r + (k - 1)) % INPUT_BUF]
        BY <1>0, <1>3, SliceIs
      <3> QED  BY <1>3, <1>10, <3>1
    <2> QED  BY <2>1, <2>2, <2>3, <2>4
  <1>12. SliceOf(f, r, w) = p
    <2>1. \A d \in Nat : d < Minus(w, r) => f[(r + d) % INPUT_BUF] = buf[(r + d) % INPUT_BUF]
      BY <1>1, <1>6, SMT
    <2>2. SliceOf(f, r, w) = SliceOf(buf, r, w)  BY <1>0, <2>1, SliceSame, ZenonT(60)
    <2> QED  BY <1>10, <2>2
  <1>13. \A k \in 1 .. b : qq[k] = q[k]
    <2> SUFFICES ASSUME NEW k \in 1 .. b PROVE qq[k] = q[k]  OBVIOUS
    <2>1. PICK d \in Nat : d = k - 1 /\ d < b  BY SMT
    <2>2. f[(w + d) % INPUT_BUF] = buf[(w + d) % INPUT_BUF]  BY <1>8, <2>1
    <2>3. k \in 1 .. b + 1  BY SMT
    <2> QED  BY <1>11, <2>1, <2>2, <2>3
  <1>14. qq[b + 1] = key
    <2>1. b + 1 \in 1 .. b + 1 /\ (b + 1) - 1 = b  BY SMT
    <2> QED  BY <1>9, <1>11, <2>1
  <1>15. qq = Append(q, key)
    BY <1>11, <1>13, <1>14, AppendIs
  <1>16. \A k \in 1 .. a : pp[k] = p[k]
    <2> SUFFICES ASSUME NEW k \in 1 .. a PROVE pp[k] = p[k]  OBVIOUS
    <2>1. PICK d \in Nat : d = k - 1 /\ d < a + b  BY SMT
    <2>2. f[(r + d) % INPUT_BUF] = buf[(r + d) % INPUT_BUF]  BY <1>6, <2>1
    <2>3. k \in 1 .. a + b + 1  BY SMT
    <2> QED  BY <1>11, <2>1, <2>2, <2>3
  <1>17. \A k \in 1 .. b + 1 : pp[a + k] = qq[k]
    <2> SUFFICES ASSUME NEW k \in 1 .. b + 1 PROVE pp[a + k] = qq[k]  OBVIOUS
    <2>1. PICK d \in Nat : d = k - 1  BY SMT
    <2>2. PICK m \in 1 .. a + b + 1 : m = a + k /\ m - 1 = a + d  BY <2>1, SMT
    <2>3. (r + (a + d)) % INPUT_BUF = (w + d) % INPUT_BUF  BY <1>7
    <2>4. pp[m] = f[(r + (m - 1)) % INPUT_BUF]  BY <1>11
    <2>5. qq[k] = f[(w + (k - 1)) % INPUT_BUF]  BY <1>11
    <2> QED  BY <2>1, <2>2, <2>3, <2>4, <2>5
  <1>18. pp = p \o qq
    <2>1. Len(p) = a /\ Len(qq) = b + 1 /\ Len(pp) = Len(p) + Len(qq)  BY <1>11, SMT
    <2>2. /\ \A k \in 1 .. Len(p) : pp[k] = p[k]
          /\ \A k \in 1 .. Len(qq) : pp[Len(p) + k] = qq[k]
      BY <1>16, <1>17, <2>1
    <2>3. PICK K : p \in Seq(K) /\ qq \in Seq(K) /\ pp \in Seq(K)  OBVIOUS
    <2> QED  BY <2>1, <2>2, <2>3, ConcatIs
  <1> QED  BY <1>10, <1>12, <1>15, <1>18

\* The ring after a key.
LEMMA Typed ==
    ASSUME RingOK, Minus(e, r) < INPUT_BUF, NEW key \in Keys
    PROVE  /\ Plus(e, 1) \in 0 .. UINT - 1
           /\ [buf EXCEPT ![e % INPUT_BUF] = key] \in [0 .. INPUT_BUF - 1 -> Keys \cup {"x"}]
           /\ Minus(Plus(e, 1), w) = Minus(e, w) + 1 /\ Minus(Plus(e, 1), r) = Minus(e, r) + 1
  <1>0. /\ INPUT_BUF \in Nat \ {0} /\ UINT \in Nat \ {0} /\ UINT > INPUT_BUF
        /\ r \in 0 .. UINT - 1 /\ w \in 0 .. UINT - 1 /\ e \in 0 .. UINT - 1
        /\ buf \in [0 .. INPUT_BUF - 1 -> Keys \cup {"x"}]
    BY RingAssumption, SMT DEF RingOK
  <1>1. Minus(w, r) \in Nat /\ Minus(e, w) \in Nat /\ Minus(e, r) \in Nat  BY <1>0, SliceIs
  <1>2. Minus(e, w) + 1 < UINT /\ Minus(e, r) + 1 < UINT  BY <1>0, <1>1, SMT DEF RingOK
  <1>3. Plus(e, 1) \in 0 .. UINT - 1  BY <1>0, MoveOn
  <1>4. Minus(Plus(e, 1), w) = Minus(e, w) + 1  BY <1>0, <1>2, MoveOn
  <1>5. Minus(Plus(e, 1), r) = Minus(e, r) + 1  BY <1>0, <1>2, MoveOn
  <1> QED  BY <1>0, <1>3, <1>4, <1>5

\* The sequences that lose an end.
LEMMA FrontIs ==
    ASSUME NEW S, NEW p \in Seq(S), p # <<>>, NEW s \in Seq(S), Len(s) = Len(p) - 1,
           \A k \in 1 .. Len(s) : s[k] = p[k]
    PROVE  s = SubSeq(p, 1, Len(p) - 1)
  <1>0. PICK a \in Nat : a = Len(p) - 1 /\ a <= Len(p) /\ Len(s) = a  BY SMT
  <1>1. /\ SubSeq(p, 1, a) \in Seq(S) /\ Len(SubSeq(p, 1, a)) = a
        /\ \A k \in 1 .. a : SubSeq(p, 1, a)[k] = p[k]
    BY <1>0, SMT
  <1>2. s = SubSeq(p, 1, a)  BY <1>0, <1>1, SeqEqual
  <1> QED  BY <1>0, <1>2
LEMMA TailIs ==
    ASSUME NEW S, NEW p \in Seq(S), p # <<>>, NEW s \in Seq(S), Len(s) = Len(p) - 1,
           \A k \in 1 .. Len(s) : s[k] = p[k + 1]
    PROVE  s = Tail(p)
  <1>1. /\ Tail(p) \in Seq(S) /\ Len(Tail(p)) = Len(s)
        /\ \A k \in 1 .. Len(s) : Tail(p)[k] = p[k + 1]
    BY SMT
  <1> QED  BY <1>1, SeqEqual

\* Nothing between an index and itself.
LEMMA SliceEmpty ==
    ASSUME NEW i \in 0 .. UINT - 1, NEW f PROVE SliceOf(f, i, i) = <<>>
  <1>1. Minus(i, i) = 0  BY RingAssumption, MinusIs, SMT
  <1> QED  BY <1>1, SMT DEF SliceOf

\* The characters after ^H.
LEMMA ErasedSlices ==
    ASSUME RingOK, NEW f \in [0 .. INPUT_BUF - 1 -> Keys \cup {"x"}], NEW x \in 0 .. UINT - 1,
           Minus(e, w) > 0, Minus(x, w) = Minus(e, w) - 1,
           \A d \in Nat : d < Minus(x, w) => f[(w + d) % INPUT_BUF] = buf[(w + d) % INPUT_BUF]
    PROVE  /\ SliceOf(buf, w, e) # <<>>
           /\ SliceOf(f, w, x) = SubSeq(SliceOf(buf, w, e), 1, Len(SliceOf(buf, w, e)) - 1)
  <1>0. /\ w \in 0 .. UINT - 1 /\ e \in 0 .. UINT - 1
        /\ buf \in [0 .. INPUT_BUF - 1 -> Keys \cup {"x"}]
    BY DEF RingOK
  <1>1. PICK b \in Nat : b = Minus(x, w) /\ Minus(e, w) = b + 1
    <2>1. Minus(x, w) \in Nat /\ Minus(e, w) \in Nat  BY <1>0, SliceIs
    <2> QED  BY <2>1, SMT
  <1>2. PICK p \in Seq(Keys \cup {"x"}), q \in Seq(Keys \cup {"x"}) :
            p = SliceOf(buf, w, e) /\ q = SliceOf(f, w, x)
    BY <1>0, SliceIs
  <1>3. Len(p) = b + 1 /\ \A k \in 1 .. b + 1 : p[k] = buf[(w + (k - 1)) % INPUT_BUF]
    <2>1. /\ Len(SliceOf(buf, w, e)) = Minus(e, w)
          /\ \A k \in 1 .. Minus(e, w) : SliceOf(buf, w, e)[k] = buf[(w + (k - 1)) % INPUT_BUF]
      BY <1>0, SliceIs
    <2> QED  BY <1>1, <1>2, <2>1
  <1>4. Len(q) = b /\ \A k \in 1 .. b : q[k] = f[(w + (k - 1)) % INPUT_BUF]
    <2>1. /\ Len(SliceOf(f, w, x)) = Minus(x, w)
          /\ \A k \in 1 .. Minus(x, w) : SliceOf(f, w, x)[k] = f[(w + (k - 1)) % INPUT_BUF]
      BY <1>0, SliceIs
    <2> QED  BY <1>1, <1>2, <2>1
  <1>5. \A k \in 1 .. b : q[k] = p[k]
    <2> SUFFICES ASSUME NEW k \in 1 .. b PROVE q[k] = p[k]  OBVIOUS
    <2>1. PICK d \in Nat : d = k - 1 /\ d < b  BY SMT
    <2>2. f[(w + d) % INPUT_BUF] = buf[(w + d) % INPUT_BUF]  BY <1>1, <2>1
    <2>3. k \in 1 .. b + 1  BY SMT
    <2> QED  BY <1>3, <1>4, <2>1, <2>2, <2>3
  <1>6. Len(q) = Len(p) - 1 /\ p # <<>> /\ \A k \in 1 .. Len(q) : q[k] = p[k]
    BY <1>3, <1>4, <1>5, SMT
  <1> QED  BY <1>2, <1>6, FrontIs

\* The characters after a read.
LEMMA TakenSlices ==
    ASSUME RingOK, NEW f \in [0 .. INPUT_BUF - 1 -> Keys \cup {"x"}], NEW x \in 0 .. UINT - 1,
           Minus(w, r) > 0, Minus(w, x) = Minus(w, r) - 1, Minus(x, r) = 1,
           \A d \in 1 .. INPUT_BUF - 1 : f[(r + d) % INPUT_BUF] = buf[(r + d) % INPUT_BUF]
    PROVE  /\ SliceOf(buf, r, w) # <<>>
           /\ SliceOf(f, x, w) = Tail(SliceOf(buf, r, w))
           /\ SliceOf(f, w, e) = SliceOf(buf, w, e)
  <1>0. /\ INPUT_BUF \in Nat \ {0} /\ UINT \in Nat \ {0}
        /\ r \in 0 .. UINT - 1 /\ w \in 0 .. UINT - 1 /\ e \in 0 .. UINT - 1
        /\ buf \in [0 .. INPUT_BUF - 1 -> Keys \cup {"x"}]
    BY RingAssumption, SMT DEF RingOK
  <1>1. PICK a \in Nat : a = Minus(w, x) /\ Minus(w, r) = a + 1
    <2>1. Minus(w, x) \in Nat /\ Minus(w, r) \in Nat  BY <1>0, SliceIs
    <2> QED  BY <2>1, SMT
  <1>2. PICK b \in Nat : b = Minus(e, w)  BY <1>0, SliceIs
  <1>3. a + 1 + b <= INPUT_BUF  BY <1>1, <1>2 DEF RingOK
  <1>4. ASSUME NEW d \in Nat PROVE (r + (1 + d)) % INPUT_BUF = (x + d) % INPUT_BUF
    <2>1. r + (1 + d) = r + 1 + d /\ d \in Int  BY <1>0, SMT
    <2>2. (r + Minus(x, r) + d) % INPUT_BUF = (x + d) % INPUT_BUF  BY <1>0, <2>1, SlotFrom
    <2> QED  BY <2>1, <2>2
  <1>5. PICK p \in Seq(Keys \cup {"x"}), q \in Seq(Keys \cup {"x"}) :
            p = SliceOf(buf, r, w) /\ q = SliceOf(f, x, w)
    BY <1>0, SliceIs
  <1>6. Len(p) = a + 1 /\ \A k \in 1 .. a + 1 : p[k] = buf[(r + (k - 1)) % INPUT_BUF]
    <2>1. /\ Len(SliceOf(buf, r, w)) = Minus(w, r)
          /\ \A k \in 1 .. Minus(w, r) : SliceOf(buf, r, w)[k] = buf[(r + (k - 1)) % INPUT_BUF]
      BY <1>0, SliceIs
    <2> QED  BY <1>1, <1>5, <2>1
  <1>7. Len(q) = a /\ \A k \in 1 .. a : q[k] = f[(x + (k - 1)) % INPUT_BUF]
    <2>1. /\ Len(SliceOf(f, x, w)) = Minus(w, x)
          /\ \A k \in 1 .. Minus(w, x) : SliceOf(f, x, w)[k] = f[(x + (k - 1)) % INPUT_BUF]
      BY <1>0, SliceIs
    <2> QED  BY <1>1, <1>5, <2>1
  <1>8. \A k \in 1 .. a : q[k] = p[k + 1]
    <2> SUFFICES ASSUME NEW k \in 1 .. a PROVE q[k] = p[k + 1]  OBVIOUS
    <2>1. PICK d \in Nat : d = k - 1 /\ 1 + d = k /\ 1 + d \in 1 .. INPUT_BUF - 1
      BY <1>0, <1>2, <1>3, SMT
    <2>2. f[(r + (1 + d)) % INPUT_BUF] = buf[(r + (1 + d)) % INPUT_BUF]  BY <2>1
    <2>3. (r + (1 + d)) % INPUT_BUF = (x + d) % INPUT_BUF  BY <1>4
    <2>4. PICK m \in 1 .. a + 1 : m = k + 1 /\ m - 1 = 1 + d  BY <2>1, SMT
    <2>5. p[m] = buf[(r + (m - 1)) % INPUT_BUF]  BY <1>6
    <2>6. q[k] = f[(x + d) % INPUT_BUF]  BY <1>7, <2>1
    <2> QED  BY <2>2, <2>3, <2>4, <2>5, <2>6
  <1>9. Len(q) = Len(p) - 1 /\ p # <<>> /\ \A k \in 1 .. Len(q) : q[k] = p[k + 1]
    BY <1>6, <1>7, <1>8, SMT
  <1>10. q = Tail(p)  BY <1>9, TailIs
  <1>11. ASSUME NEW d \in Nat, d < Minus(e, w)
         PROVE  f[(w + d) % INPUT_BUF] = buf[(w + d) % INPUT_BUF]
    <2>1. PICK m \in 1 .. INPUT_BUF - 1 : m = a + 1 + d /\ d \in Int
      BY <1>0, <1>2, <1>3, <1>11, SMT
    <2>2. (r + (a + 1) + d) % INPUT_BUF = (w + d) % INPUT_BUF
      <3>1. (r + Minus(w, r) + d) % INPUT_BUF = (w + d) % INPUT_BUF  BY <1>0, <2>1, SlotFrom
      <3> QED  BY <1>1, <3>1
    <2>3. r + (a + 1) + d = r + m  BY <1>0, <2>1, SMT
    <2>4. f[(r + m) % INPUT_BUF] = buf[(r + m) % INPUT_BUF]  OBVIOUS
    <2> QED  BY <2>2, <2>3, <2>4
  <1>12. SliceOf(f, w, e) = SliceOf(buf, w, e)  BY <1>0, <1>11, SliceSame, ZenonT(60)
  <1> QED  BY <1>5, <1>9, <1>10, <1>12

\* An index that goes back by one.
LEMMA MoveBack ==
    ASSUME NEW a \in 0 .. UINT - 1, NEW b \in 0 .. UINT - 1
    PROVE  /\ Minus(a, 1) \in 0 .. UINT - 1 /\ Minus(a, Minus(a, 1)) = 1
           /\ Minus(a, b) > 0 => Minus(Minus(a, 1), b) = Minus(a, b) - 1
  <1>0. UINT \in Nat /\ UINT > 1 /\ 1 \in 0 .. UINT - 1  BY RingAssumption, SMT
  <1>1. /\ Minus(a, 1) = (IF a >= 1 THEN a - 1 ELSE a - 1 + UINT)
        /\ Minus(a, 1) \in 0 .. UINT - 1
    BY <1>0, MinusIs
  <1>2. PICK x \in 0 .. UINT - 1 : x = Minus(a, 1)  BY <1>1
  <1>3. /\ Minus(a, b) = (IF a >= b THEN a - b ELSE a - b + UINT)
        /\ Minus(x, b) = (IF x >= b THEN x - b ELSE x - b + UINT)
        /\ Minus(a, x) = (IF a >= x THEN a - x ELSE a - x + UINT)
    BY MinusIs
  <1>4. Minus(a, b) > 0 => Minus(x, b) = Minus(a, b) - 1  BY <1>0, <1>1, <1>2, <1>3, SMT
  <1>5. Minus(a, x) = 1  BY <1>0, <1>1, <1>2, <1>3, SMT
  <1> QED  BY <1>1, <1>2, <1>4, <1>5

\* Indices differ when there is something between them.
LEMMA Apart ==
    ASSUME NEW a \in 0 .. UINT - 1, NEW b \in 0 .. UINT - 1, a # b PROVE Minus(a, b) > 0
  <1>1. UINT \in Nat /\ Minus(a, b) = (IF a >= b THEN a - b ELSE a - b + UINT)
    BY RingAssumption, MinusIs
  <1> QED  BY <1>1, SMT

\* The full ring.
LEMMA LastSlot ==
    ASSUME NEW a \in 0 .. UINT - 1, NEW b \in 0 .. UINT - 1
    PROVE  a = Plus(b, INPUT_BUF) <=> Minus(a, b) = INPUT_BUF
  <1>0. UINT \in Nat /\ INPUT_BUF \in 1 .. UINT - 1  BY RingAssumption, SMT
  <1>1. Plus(b, INPUT_BUF) = IF b + INPUT_BUF < UINT THEN b + INPUT_BUF ELSE b + INPUT_BUF - UINT
    BY <1>0, PlusIs, SMT
  <1>2. Minus(a, b) = IF a >= b THEN a - b ELSE a - b + UINT  BY MinusIs
  <1> QED  BY <1>0, <1>1, <1>2, SMT

\* The step of Terminal that a step of the ring is.
RingStep == RingOK' /\ [T!Next]_<<Slice(w, e), Slice(r, w)>>

\* Nothing happens to the ring.
LEMMA RingSame == ASSUME RingOK, UNCHANGED ring PROVE RingStep
  BY DEF RingOK, RingStep, ring, Slice

\* A key that is kept.
LEMMA typeRing ==
    ASSUME RingOK, NEW c \in Cpu, NEW key \in Keys, type(c, key) PROVE RingStep
  <1>0. /\ r \in 0 .. UINT - 1 /\ w \in 0 .. UINT - 1 /\ e \in 0 .. UINT - 1
        /\ buf \in [0 .. INPUT_BUF - 1 -> Keys \cup {"x"}]
        /\ INPUT_BUF \in Nat \ {0} /\ UINT \in Nat \ {0}
    BY RingAssumption, SMT DEF RingOK
  <1>1. /\ Minus(e, r) < INPUT_BUF /\ buf' = [buf EXCEPT ![e % INPUT_BUF] = key]
        /\ e' = Plus(e, 1) /\ r' = r
        /\ IF Commits(key) THEN w' = e' ELSE w' = w
    BY DEF type
  <1>2. /\ e' \in 0 .. UINT - 1 /\ buf' \in [0 .. INPUT_BUF - 1 -> Keys \cup {"x"}]
        /\ Minus(e', w) = Minus(e, w) + 1 /\ Minus(e', r) = Minus(e, r) + 1
    BY <1>1, Typed
  <1>3. e % INPUT_BUF \in 0 .. INPUT_BUF - 1
    <2>1. e \in Int  BY <1>0, SMT
    <2> QED  BY <1>0, <2>1, DivMod
  <1>4. /\ buf'[e % INPUT_BUF] = key
        /\ \A i \in 0 .. INPUT_BUF - 1 : i # e % INPUT_BUF => buf'[i] = buf[i]
    BY <1>0, <1>1, <1>3
  <1>5. /\ SliceOf(buf', r, w) = SliceOf(buf, r, w)
        /\ SliceOf(buf', w, e') = Append(SliceOf(buf, w, e), key)
        /\ SliceOf(buf', r, e') = SliceOf(buf, r, w) \o Append(SliceOf(buf, w, e), key)
    BY <1>1, <1>2, <1>4, TypedSlices, ZenonT(60)
  <1>6. /\ Minus(w, r) \in Nat /\ Minus(e, w) \in Nat /\ Minus(e, r) \in Nat
        /\ Minus(w, r) + Minus(e, w) = Minus(e, r)
        /\ Len(SliceOf(buf, r, w)) = Minus(w, r) /\ Len(SliceOf(buf, w, e)) = Minus(e, w)
    BY <1>0, SliceIs DEF RingOK
  <1>7. Commits(key) <=> key \in {"nl", "^D"} \/ Minus(e, r) + 1 = INPUT_BUF
    <2>1. e' = Plus(r, INPUT_BUF) <=> Minus(e', r) = INPUT_BUF  BY <1>0, <1>2, LastSlot
    <2> QED  BY <1>1, <1>2, <2>1 DEF Commits
  <1>8. Minus(e', e') = 0  BY <1>2, MinusIs, RingAssumption, SMT
  <1>9. Slice(w, e) = SliceOf(buf, w, e) /\ Slice(r, w) = SliceOf(buf, r, w)
    BY DEF Slice, SliceOf
  <1>10. Slice(w, e)' = SliceOf(buf', w', e') /\ Slice(r, w)' = SliceOf(buf', r', w')
    BY DEF Slice, SliceOf
  <1>11. CASE Commits(key)
    <2>1. w' = e'  BY <1>1, <1>11
    <2>2. RingOK'  BY <1>0, <1>1, <1>2, <1>6, <1>8, <2>1, SMTT(30) DEF RingOK
    <2>3. SliceOf(buf', e', e') = <<>>  BY <1>2, SliceEmpty
    <2>4. T!Type(key)
      BY <1>1, <1>5, <1>6, <1>7, <1>9, <1>10, <1>11, <2>1, <2>3 DEF T!Type
    <2> QED  BY <2>2, <2>4 DEF RingStep, T!Next
  <1>12. CASE ~Commits(key)
    <2>1. w' = w  BY <1>1, <1>12
    <2>2. RingOK'  BY <1>0, <1>1, <1>2, <1>6, <2>1, SMTT(30) DEF RingOK
    <2>4. T!Type(key)
      BY <1>1, <1>5, <1>6, <1>7, <1>9, <1>10, <1>12, <2>1 DEF T!Type
    <2> QED  BY <2>2, <2>4 DEF RingStep, T!Next
  <1> QED  BY <1>11, <1>12

\* A key that edits the line.
LEMMA editRing ==
    ASSUME RingOK, NEW c \in Cpu, NEW key \in Keys, edit(c, key) PROVE RingStep
  <1>0. /\ r \in 0 .. UINT - 1 /\ w \in 0 .. UINT - 1 /\ e \in 0 .. UINT - 1
        /\ buf \in [0 .. INPUT_BUF - 1 -> Keys \cup {"x"}]
    BY DEF RingOK
  <1>1. /\ Minus(w, r) \in Nat /\ Minus(e, w) \in Nat /\ Minus(e, r) \in Nat
        /\ INPUT_BUF \in Nat /\ Minus(w, r) + Minus(e, w) = Minus(e, r)
        /\ Minus(e, r) <= INPUT_BUF
    BY <1>0, SliceIs, RingAssumption DEF RingOK
  <1>2. r' = r /\ w' = w  BY DEF edit
  <1>3. Slice(w, e) = SliceOf(buf, w, e) /\ Slice(r, w) = SliceOf(buf, r, w)
    BY DEF Slice, SliceOf
  <1>4. Slice(w, e)' = SliceOf(buf', w', e') /\ Slice(r, w)' = SliceOf(buf', r', w')
    BY DEF Slice, SliceOf
  <1>5. CASE key = "^U"
    <2>1. e' = w /\ buf' = Without(w, e)  BY <1>5 DEF edit
    <2>2. buf' \in [0 .. INPUT_BUF - 1 -> Keys \cup {"x"}]  BY <2>1, WithoutType
    <2>3. \A d \in Nat : d < Minus(w, r) => buf'[(r + d) % INPUT_BUF] = buf[(r + d) % INPUT_BUF]
      BY <1>0, <1>1, <2>1, WithoutKeeps, ZenonT(60)
    <2>4. SliceOf(buf', r, w) = SliceOf(buf, r, w)  BY <1>0, <2>2, <2>3, SliceSame
    <2>5. SliceOf(buf', w, w) = <<>>  BY <1>0, SliceEmpty
    <2>6. Minus(w, w) = 0  BY <1>0, MinusIs, RingAssumption, SMT
    <2>7. RingOK'  BY <1>0, <1>1, <1>2, <2>1, <2>2, <2>6, SMT DEF RingOK
    <2>8. T!Kill  BY <1>2, <1>3, <1>4, <2>1, <2>4, <2>5 DEF T!Kill
    <2> QED  BY <2>7, <2>8 DEF RingStep, T!Next
  <1>6. CASE key # "^U" /\ e # w
    <2>0. PICK x \in 0 .. UINT - 1 : x = Minus(e, 1)  BY <1>0, MoveBack
    <2>1. e' = x /\ buf' = Without(x, e)  BY <1>6, <2>0 DEF edit
    <2>2. Minus(e, w) > 0  BY <1>0, <1>6, Apart
    <2>3. Minus(x, w) = Minus(e, w) - 1 /\ Minus(e, x) = 1  BY <1>0, <2>0, <2>2, MoveBack
    <2>4. Minus(e, r) > 0  BY <1>1, <2>2, SMT
    <2>5. Minus(x, r) = Minus(e, r) - 1  BY <1>0, <2>0, <2>4, MoveBack
    <2>6. buf' \in [0 .. INPUT_BUF - 1 -> Keys \cup {"x"}]  BY <2>1, WithoutType
    <2>7. \A d \in Nat : d < Minus(x, w) => buf'[(w + d) % INPUT_BUF] = buf[(w + d) % INPUT_BUF]
      <3>1. Minus(x, w) + Minus(e, x) <= INPUT_BUF  BY <1>1, <2>3, SMT
      <3> QED  BY <1>0, <2>1, <3>1, WithoutKeeps, ZenonT(60)
    <2>8. \A d \in Nat : d < Minus(w, r) => buf'[(r + d) % INPUT_BUF] = buf[(r + d) % INPUT_BUF]
      <3>1. Minus(x, r) + Minus(e, x) <= INPUT_BUF  BY <1>1, <2>3, <2>5, SMT
      <3>2. \A d \in Nat : d < Minus(x, r) => buf'[(r + d) % INPUT_BUF] = buf[(r + d) % INPUT_BUF]
        BY <1>0, <2>1, <3>1, WithoutKeeps, ZenonT(60)
      <3>3. \A d \in Nat : d < Minus(w, r) => d < Minus(x, r)  BY <1>1, <2>2, <2>5, SMT
      <3> QED  BY <3>2, <3>3
    <2>9. SliceOf(buf', r, w) = SliceOf(buf, r, w)  BY <1>0, <2>6, <2>8, SliceSame, ZenonT(60)
    <2>10. /\ SliceOf(buf, w, e) # <<>>
           /\ SliceOf(buf', w, x) = SubSeq(SliceOf(buf, w, e), 1, Len(SliceOf(buf, w, e)) - 1)
      BY <2>2, <2>3, <2>6, <2>7, ErasedSlices
    <2>11. RingOK'  BY <1>0, <1>1, <1>2, <2>1, <2>3, <2>5, <2>6, SMTT(30) DEF RingOK
    <2>12. T!Erase
      BY <1>2, <1>3, <1>4, <2>1, <2>9, <2>10 DEF T!Erase
    <2> QED  BY <2>11, <2>12 DEF RingStep, T!Next
  <1>7. CASE key # "^U" /\ e = w
    <2>1. e' = e /\ buf' = Without(e, e)  BY <1>7 DEF edit
    <2>2. buf' = buf  BY <1>0, <2>1, WithoutNone
    <2> QED  BY <1>2, <2>1, <2>2, RingSame DEF ring
  <1> QED  BY <1>5, <1>6, <1>7

\* A character that is read.
LEMMA readCharRing ==
    ASSUME RingOK, NEW c \in Cpu, readChar(c) PROVE RingStep
  <1>0. /\ r \in 0 .. UINT - 1 /\ w \in 0 .. UINT - 1 /\ e \in 0 .. UINT - 1
        /\ buf \in [0 .. INPUT_BUF - 1 -> Keys \cup {"x"}]
    BY DEF RingOK
  <1>1. /\ Minus(w, r) \in Nat /\ Minus(e, w) \in Nat /\ Minus(e, r) \in Nat
        /\ INPUT_BUF \in Nat /\ Minus(w, r) + Minus(e, w) = Minus(e, r)
        /\ Minus(e, r) <= INPUT_BUF
    BY <1>0, SliceIs, RingAssumption DEF RingOK
  <1>2. w' = w /\ e' = e /\ r # w /\ buf' = Without(r, r') /\ (r' = r \/ r' = Plus(r, 1))
    BY DEF readChar
  <1>3. Slice(w, e) = SliceOf(buf, w, e) /\ Slice(r, w) = SliceOf(buf, r, w)
    BY DEF Slice, SliceOf
  <1>4. Slice(w, e)' = SliceOf(buf', w', e') /\ Slice(r, w)' = SliceOf(buf', r', w')
    BY DEF Slice, SliceOf
  <1>5. CASE r' = r
    <2>1. buf' = buf  BY <1>0, <1>2, <1>5, WithoutNone
    <2> QED  BY <1>2, <1>5, <2>1, RingSame DEF ring
  <1>6. CASE r' = Plus(r, 1)
    <2>0. PICK x \in 0 .. UINT - 1 : x = Plus(r, 1)  BY <1>0, MoveOn
    <2>1. r' = x /\ buf' = Without(r, x)  BY <1>2, <1>6, <2>0
    <2>2. Minus(w, r) > 0 /\ Minus(e, r) > 0
      <3>1. Minus(w, r) > 0  BY <1>0, <1>2, Apart
      <3> QED  BY <1>1, <3>1, SMT
    <2>3. Minus(w, x) = Minus(w, r) - 1 /\ Minus(x, r) = 1  BY <1>0, <2>0, <2>2, MoveOn
    <2>4. Minus(e, x) = Minus(e, r) - 1  BY <1>0, <2>0, <2>2, MoveOn
    <2>5. buf' \in [0 .. INPUT_BUF - 1 -> Keys \cup {"x"}]  BY <2>1, WithoutType
    <2>6. \A d \in 1 .. INPUT_BUF - 1 : buf'[(r + d) % INPUT_BUF] = buf[(r + d) % INPUT_BUF]
      <3> SUFFICES ASSUME NEW d \in 1 .. INPUT_BUF - 1
                   PROVE  buf'[(r + d) % INPUT_BUF] = buf[(r + d) % INPUT_BUF]
        OBVIOUS
      <3>1. d \in 0 .. INPUT_BUF - 1 /\ d >= Minus(x, r)  BY <1>1, <2>3, SMT
      <3> QED  BY <1>0, <2>1, <3>1, WithoutIs
    <2>7. /\ SliceOf(buf, r, w) # <<>> /\ SliceOf(buf', x, w) = Tail(SliceOf(buf, r, w))
          /\ SliceOf(buf', w, e) = SliceOf(buf, w, e)
      BY <2>2, <2>3, <2>5, <2>6, TakenSlices
    <2>8. RingOK'  BY <1>0, <1>1, <1>2, <2>1, <2>3, <2>4, <2>5, SMTT(30) DEF RingOK
    <2>9. T!Read  BY <1>2, <1>3, <1>4, <2>1, <2>7 DEF T!Read
    <2> QED  BY <2>8, <2>9 DEF RingStep, T!Next
  <1> QED  BY <1>2, <1>5, <1>6

\* The ring of the console with its three indices, which wrap around, is the line
\* and the queue of Terminal: every character that is typed and kept is read once
\* and in order, none is overwritten, and no editing key reaches what has been
\* handed over, for every size of the ring that divides the range of the indices.
THEOREM RingIsTerminal == Spec => ImplementsTerminal
  <1>1. Init => RingOK /\ T!Init
    <2> SUFFICES ASSUME Init PROVE RingOK /\ T!Init  OBVIOUS
    <2>0. /\ r = 0 /\ w = 0 /\ e = 0 /\ 0 \in 0 .. UINT - 1 /\ INPUT_BUF \in Nat
          /\ buf \in [0 .. INPUT_BUF - 1 -> Keys \cup {"x"}]
      BY RingAssumption, SMT DEF Init
    <2>1. Minus(0, 0) = 0  BY <2>0, MinusIs, SMT
    <2>2. RingOK  BY <2>0, <2>1, SMT DEF RingOK
    <2>3. Slice(w, e) = <<>> /\ Slice(r, w) = <<>>  BY <2>0, <2>1, SMT DEF Slice
    <2> QED  BY <2>2, <2>3 DEF T!Init
  <1>2. RingOK /\ [Next]_vars => RingStep
    <2> SUFFICES ASSUME RingOK, [Next]_vars PROVE RingStep  OBVIOUS
    <2>1. CASE UNCHANGED vars  BY <2>1, RingSame DEF vars
    <2>2. ASSUME NEW c \in Cpu, Step(c) PROVE RingStep
      <3>1. ASSUME NEW key \in Keys, edit(c, key) \/ type(c, key) PROVE RingStep
        BY <3>1, editRing, typeRing
      <3>2. CASE readChar(c)  BY <3>2, readCharRing
      <3>3. CASE UNCHANGED ring  BY <3>3, RingSame
      <3> QED  BY <2>2, <3>1, <3>2, <3>3 DEF Step, lockStep, trap, trapEnd, consoleintr, wakeup,
                  wakeup1, intrEnd, yield, consoleread, readEnd, readSleep, sleep, consolewrite,
                  kill, scheduler, forkret
    <2> QED  BY <2>1, <2>2 DEF Next
  <1> QED  BY <1>1, <1>2, PTL DEF Spec, ImplementsTerminal, T!Spec, RingStep

===============================================================================
