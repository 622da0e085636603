---------------------------- MODULE GlobalProofs ----------------------------
(***************************************************************************)
(* Proofs about Global: the ranges of a pending :global or @ name the      *)
(* lines that it was pushed for and has not run on, no command runs more   *)
(* often than there were lines for it, and between commands the cursor and *)
(* the flag SC_EX_GLOBAL are in step with the stack.                       *)
(***************************************************************************)
EXTENDS Global, RecnoProofs, FiniteSetTheorems, SequenceTheorems,
        NaturalsInduction, WellFoundedInduction, TLAPS

LineRange == [start : Nat, stop : Nat]
Ranges == Seq(LineRange)

-----------------------------------------------------------------------------
(* The inductive invariant                                                 *)

\* The ranges rs wait for the lines of M, each once, first to last.
Awaits(rs, M) == LinesOf(rs) = M /\ InOrder(rs)

\* The lines of f that command d is due on.
OwedOf(f, d) == {k \in 1..Len(f) : d \in f[k]}

\* Command fr, in place d of the stack, has its ranges in step with file f.
Settled(fr, d, f, lost) ==
    /\ fr \in Frame
    /\ fr.kind = "line" <=> d = 1      \* only the line the user typed is at the bottom
    /\ d # 1 => Cardinality(Slots(fr.ranges)) <= fr.quota
    /\ lost = {} /\ fr.kind \in Kept => Awaits(fr.ranges, OwedOf(f, d))

Frames == /\ stack \in Seq(Frame) /\ Depth \in Place
          /\ \A d \in 1..Depth : Settled(stack[d], d, file, slips)

\* A command that has changed no line yet finds the cursor in the file.
Session == /\ file \in Seq(SUBSET Place) /\ lno \in Nat
           /\ inglobal \in BOOLEAN /\ running \in BOOLEAN
           /\ edits \in 0..MaxEdits /\ slips \in SUBSET Slip
           /\ ~running => edits = 0
           /\ slips = {} /\ edits = 0 => lno \in ValidLine(file)

\* An @ without addresses is run as soon as it is pushed, on the cursor's line:
\* ex_g_insdel() does not keep its range.
Fresh(d) ==
    \/ \A i \in 1..Len(stack[d].ranges) : ~Live(stack[d].ranges[i])
    \/ /\ d = Depth /\ ~running /\ stack[d].left = 0
       /\ stack[d].ranges = <<[start |-> lno, stop |-> lno]>>
AllFresh == \A d \in 1..Depth : stack[d].kind = "at_norange" => Fresh(d)

IInv == Session /\ Frames /\ AllFresh /\ FlagMeansGlobal

-----------------------------------------------------------------------------
(* Numbers and sequences                                                   *)

\* A set of numbers has a least one.
LEMMA Least ==
    ASSUME NEW T, T \subseteq Nat, T # {}
    PROVE  \E i \in T : \A j \in T : i <= j
<1> DEFINE R == OpToRel(<, Nat)
<1>1. \E x \in T : \A y \in T : ~(<<y, x>> \in R)
  BY NatLessThanWellFounded, WFMin
<1>2. \A x, y \in Nat : y < x => <<y, x>> \in R
  BY DEF OpToRel
<1> HIDE DEF R
<1>3. PICK x \in T : \A y \in T : ~(<<y, x>> \in R)
  BY <1>1
<1>4. ASSUME NEW y \in T
      PROVE  x <= y
  <2>1. x \in Nat /\ y \in Nat /\ ~(y < x)
    BY <1>2, <1>3, Zenon
  <2> QED BY <2>1
<1> QED BY <1>4

\* Induction over the numbers.
LEMMA Induct ==
    ASSUME NEW T, 0 \in T, \A n \in Nat : n \in T => n + 1 \in T
    PROVE  Nat \subseteq T
<1> SUFFICES ASSUME Nat \ T # {}
             PROVE  FALSE
  OBVIOUS
<1>1. PICK m \in Nat \ T : \A j \in Nat \ T : m <= j
  BY Least
<1>2. m - 1 \in Nat
  BY <1>1
<1>3. m - 1 \notin Nat \ T
  BY <1>1, <1>2
<1> QED BY <1>1, <1>2, <1>3

\* The function that FlattenSeq is the last value of.
Joining(ss, n, f) ==
    f = [i \in 1..n |-> IF i = 1 THEN ss[i] ELSE f[i - 1] \o ss[i]]

LEMMA FlattenIs ==
    ASSUME NEW ss, Len(ss) \in Nat \ {0}
    PROVE  \E f : Joining(ss, Len(ss), f) /\ FlattenSeq(ss) = f[Len(ss)]
<1> DEFINE T == {n \in Nat : \E f : Joining(ss, n, f)}
<1>1. 0 \in T
  <2> DEFINE f == [i \in 1..0 |-> ss[i]]
  <2>1. Joining(ss, 0, f)
    <3>1. 1..0 = {}
      OBVIOUS
    <3> QED BY <3>1 DEF Joining
  <2> QED BY <2>1
<1>2. ASSUME NEW n \in Nat, n \in T
      PROVE  n + 1 \in T
  <2>1. PICK f : Joining(ss, n, f)
    BY <1>2
  <2> DEFINE g == [i \in 1..(n + 1) |->
                     IF i <= n THEN f[i] ELSE IF i = 1 THEN ss[i] ELSE f[i - 1] \o ss[i]]
  <2>2. ASSUME NEW i \in 1..(n + 1)
        PROVE  g[i] = IF i = 1 THEN ss[i] ELSE g[i - 1] \o ss[i]
    <3>1. CASE i <= n
      <4>1. i \in 1..n /\ g[i] = f[i] /\ (i # 1 => g[i - 1] = f[i - 1])
        BY <3>1
      <4>2. f[i] = IF i = 1 THEN ss[i] ELSE f[i - 1] \o ss[i]
        BY <4>1, <2>1 DEF Joining
      <4> QED BY <4>1, <4>2
    <3>2. CASE ~(i <= n)
      <4>1. i = n + 1 /\ g[i] = (IF i = 1 THEN ss[i] ELSE f[i - 1] \o ss[i])
            /\ (i # 1 => g[i - 1] = f[i - 1])
        BY <3>2
      <4> QED BY <4>1
    <3> QED BY <3>1, <3>2
  <2>3. Joining(ss, n + 1, g)
    <3> DEFINE h == [i \in 1..(n + 1) |-> IF i = 1 THEN ss[i] ELSE g[i - 1] \o ss[i]]
    <3>1. \A i \in 1..(n + 1) : g[i] = h[i]
      BY <2>2
    <3>2. DOMAIN g = 1..(n + 1) /\ DOMAIN h = 1..(n + 1) /\ g = [i \in DOMAIN g |-> g[i]]
          /\ h = [i \in DOMAIN h |-> h[i]]
      OBVIOUS
    <3> HIDE DEF g, h
    <3>3. g = h
      BY <3>1, <3>2
    <3> QED BY <3>3 DEF h, Joining
  <2> QED BY <2>3
<1>3. Len(ss) \in T
  <2> HIDE DEF T
  <2> QED BY <1>1, <1>2, Induct
<1> DEFINE F == CHOOSE f : f = [i \in 1..Len(ss) |-> IF i = 1 THEN ss[i] ELSE f[i - 1] \o ss[i]]
<1>4. Joining(ss, Len(ss), F)
  <2>1. \E f : f = [i \in 1..Len(ss) |-> IF i = 1 THEN ss[i] ELSE f[i - 1] \o ss[i]]
    BY <1>3 DEF Joining
  <2>2. F = [i \in 1..Len(ss) |-> IF i = 1 THEN ss[i] ELSE F[i - 1] \o ss[i]]
    BY <2>1
  <2> QED BY <2>2 DEF Joining
<1>5. FlattenSeq(ss) = F[Len(ss)]
  BY DEF FlattenSeq
<1> QED BY <1>4, <1>5

\* A list with one more element.
LEMMA Extended ==
    ASSUME NEW S, NEW q \in Seq(S), NEW x \in S
    PROVE  LET r == q \o <<x>>
           IN  /\ r \in Seq(S) /\ Len(r) = Len(q) + 1 /\ r[Len(q) + 1] = x
               /\ \A j \in 1..Len(q) : r[j] = q[j]
<1> DEFINE b == <<x>>
           r == q \o b
           n == Len(q)
<1>1. b \in Seq(S) /\ Len(b) = 1 /\ b[1] = x
  OBVIOUS
<1>2. n \in Nat
  BY LenProperties
<1> HIDE DEF b
<1>3. /\ r \in Seq(S) /\ Len(r) = Len(q) + Len(b)
      /\ \A j \in 1..(Len(q) + Len(b)) : r[j] = IF j <= Len(q) THEN q[j] ELSE b[j - Len(q)]
  BY <1>1, ConcatProperties
<1> HIDE DEF r, n
<1>4. Len(r) = n + 1 /\ \A j \in 1..(n + 1) : r[j] = IF j <= n THEN q[j] ELSE b[j - n]
  BY <1>1, <1>3 DEF n
<1>5. (n + 1) \in 1..(n + 1) /\ ~(n + 1 <= n) /\ (n + 1) - n = 1
  BY <1>2
<1>6. r[n + 1] = x
  BY <1>1, <1>4, <1>5
<1>7. \A j \in 1..n : r[j] = q[j]
  BY <1>2, <1>4
<1> QED BY <1>3, <1>4, <1>6, <1>7 DEF r, b, n

LEMMA TwoElements ==
    ASSUME NEW S, NEW x \in S, NEW y \in S
    PROVE  <<x>> \o <<y>> = <<x, y>>
<1> DEFINE q == <<x>>
           r == q \o <<y>>
           t == <<x, y>>
<1>1. q \in Seq(S) /\ Len(q) = 1 /\ q[1] = x
  OBVIOUS
<1>2. t \in Seq(S) /\ Len(t) = 2 /\ t[1] = x /\ t[2] = y
  OBVIOUS
<1> HIDE DEF q
<1>3. /\ r \in Seq(S) /\ Len(r) = Len(q) + 1 /\ r[Len(q) + 1] = y
      /\ \A j \in 1..Len(q) : r[j] = q[j]
  BY <1>1, Extended
<1> HIDE DEF r, t
<1>4. Len(r) = 2 /\ r[2] = y /\ r[1] = x
  BY <1>1, <1>3
<1>5. \A i \in 1..Len(r) : r[i] = t[i]
  BY <1>2, <1>4
<1>6. r = t
  BY <1>2, <1>3, <1>4, <1>5, SameSeq
<1> QED BY <1>6 DEF r, t, q

\* The first j + 1 elements are the first j and one more.
LEMMA PrefixIs ==
    ASSUME NEW S, NEW q \in Seq(S), NEW j \in 1..Len(q)
    PROVE  /\ SubSeq(q, 1, j) \in Seq(S)
           /\ j = 1 => SubSeq(q, 1, j) = <<q[1]>>
           /\ j + 1 <= Len(q) => SubSeq(q, 1, j + 1) = SubSeq(q, 1, j) \o <<q[j + 1]>>
           /\ j = Len(q) => SubSeq(q, 1, j) = q
<1> DEFINE n == Len(q)
           a == SubSeq(q, 1, j)
           c == SubSeq(q, 1, j + 1)
<1>1. n \in Nat /\ \A i \in 1..n : q[i] \in S
  BY LenProperties, ElementOfSeq
<1>2. a \in Seq(S) /\ Len(a) = j /\ \A x \in 1..j : a[x] = q[x]
  BY <1>1, SubSeqProperties
<1>3. j + 1 <= n => c \in Seq(S) /\ Len(c) = j + 1 /\ \A x \in 1..(j + 1) : c[x] = q[x]
  BY <1>1, SubSeqProperties
<1> HIDE DEF a, c
<1>4. ASSUME j = 1
      PROVE  a = <<q[1]>>
  <2> DEFINE b == <<q[1]>>
  <2>1. b \in Seq(S) /\ Len(b) = 1 /\ b[1] = q[1]
    BY <1>1, <1>4
  <2> HIDE DEF b
  <2>2. Len(a) = Len(b) /\ \A i \in 1..Len(a) : a[i] = b[i]
    BY <1>2, <1>4, <2>1
  <2>3. a = b
    BY <1>2, <2>1, <2>2, SameSeq
  <2> QED BY <2>3 DEF b
<1>5. ASSUME j + 1 <= n
      PROVE  c = a \o <<q[j + 1]>>
  <2> DEFINE b == a \o <<q[j + 1]>>
  <2>1. q[j + 1] \in S /\ j \in Nat
    BY <1>1, <1>5
  <2>2. b \in Seq(S) /\ Len(b) = Len(a) + 1 /\ b[Len(a) + 1] = q[j + 1] /\ \A x \in 1..Len(a) : b[x] = a[x]
    BY <1>2, <2>1, Extended
  <2> HIDE DEF b
  <2>3. Len(c) = Len(b) /\ \A x \in 1..Len(c) : c[x] = b[x]
    BY <1>2, <1>3, <1>5, <2>1, <2>2
  <2>4. c = b
    BY <1>3, <1>5, <2>2, <2>3, SameSeq
  <2> QED BY <2>4 DEF b
<1>6. ASSUME j = n
      PROVE  a = q
  BY <1>1, <1>2, <1>6, SameSeq
<1> QED BY <1>2, <1>4, <1>5, <1>6 DEF a, c

-----------------------------------------------------------------------------
(* Ranges and the lines they wait for                                      *)

\* What a slot is.
LEMMA SlotIs ==
    ASSUME NEW rs, NEW p
    PROVE  p \in Slots(rs) <=>
             \E i, k : i \in 1..Len(rs) /\ k \in rs[i].start..rs[i].stop /\ p = <<i, k>>
BY DEF Slots

LEMMA SlotPair ==
    ASSUME NEW rs, NEW i, NEW k
    PROVE  <<i, k>> \in Slots(rs) <=> i \in 1..Len(rs) /\ k \in rs[i].start..rs[i].stop
BY DEF Slots

LEMMA LineIs ==
    ASSUME NEW rs, NEW k
    PROVE  k \in LinesOf(rs) <=> \E i \in 1..Len(rs) : k \in rs[i].start..rs[i].stop
BY DEF LinesOf

LEMMA RangeType ==
    ASSUME NEW rs \in Ranges
    PROVE  /\ Len(rs) \in Nat /\ DOMAIN rs = 1..Len(rs)
           /\ \A i \in 1..Len(rs) : rs[i] \in LineRange /\ rs[i].start \in Nat /\ rs[i].stop \in Nat
<1>1. /\ Len(rs) \in Nat /\ DOMAIN rs = 1..Len(rs)
      /\ \A i \in 1..Len(rs) : rs[i] \in LineRange
  BY LenProperties, ElementOfSeq DEF Ranges
<1> QED BY <1>1 DEF LineRange

\* A slot is a pair of numbers.
LEMMA SlotType ==
    ASSUME NEW rs \in Ranges, NEW p \in Slots(rs)
    PROVE  /\ p = <<p[1], p[2]>> /\ p[1] \in 1..Len(rs)
           /\ p[2] \in rs[p[1]].start..rs[p[1]].stop /\ p[2] \in Nat
<1>1. PICK i, k : i \in 1..Len(rs) /\ k \in rs[i].start..rs[i].stop /\ p = <<i, k>>
  BY SlotIs
<1>2. rs[i].start \in Nat /\ rs[i].stop \in Nat
  BY <1>1, RangeType
<1> QED BY <1>1, <1>2

LEMMA SlotsFinite ==
    ASSUME NEW rs \in Ranges
    PROVE  IsFiniteSet(Slots(rs)) /\ Cardinality(Slots(rs)) \in Nat
<1> DEFINE f == [i \in 1..Len(rs) |-> {i} \X (rs[i].start..rs[i].stop)]
           T == {{i} \X (rs[i].start..rs[i].stop) : i \in 1..Len(rs)}
<1>1. Len(rs) \in Nat
  BY RangeType
<1>2. IsFiniteSet(1..Len(rs))
  BY <1>1, FS_Interval
<1>3. f \in Surjection(1..Len(rs), T)
  BY DEF Surjection
<1>4. IsFiniteSet(T)
  BY <1>2, <1>3, FS_Surjection
<1>5. ASSUME NEW t \in T
      PROVE  IsFiniteSet(t)
  <2>1. PICK i \in 1..Len(rs) : t = {i} \X (rs[i].start..rs[i].stop)
    OBVIOUS
  <2>2. rs[i].start \in Int /\ rs[i].stop \in Int
    BY <2>1, RangeType
  <2>3. IsFiniteSet({i}) /\ IsFiniteSet(rs[i].start..rs[i].stop)
    BY <2>2, FS_Singleton, FS_Interval
  <2> QED BY <2>1, <2>3, FS_Product
<1>6. IsFiniteSet(UNION T)
  <2> HIDE DEF T
  <2> QED BY <1>4, <1>5, FS_UNION
<1>7. IsFiniteSet(Slots(rs))
  BY <1>6 DEF Slots
<1> QED BY <1>7, FS_CardinalityType

\* The slots of two lists of ranges, one after the other.
LEMMA SlotsConcat ==
    ASSUME NEW a \in Ranges, NEW b \in Ranges
    PROVE  /\ a \o b \in Ranges
           /\ Cardinality(Slots(a \o b)) = Cardinality(Slots(a)) + Cardinality(Slots(b))
<1> DEFINE c == a \o b
           X == Slots(c) \ Slots(a)
           n == Len(a)
           f == [p \in Slots(b) |-> <<p[1] + n, p[2]>>]
<1>1. /\ c \in Ranges /\ Len(c) = n + Len(b) /\ n \in Nat /\ Len(b) \in Nat
      /\ \A j \in 1..(n + Len(b)) : c[j] = IF j <= n THEN a[j] ELSE b[j - n]
  BY ConcatProperties, LenProperties DEF Ranges
<1> HIDE DEF c, n
<1>2. \A i \in 1..n : i \in 1..Len(c) /\ c[i] = a[i]
  BY <1>1
<1>3. \A i \in 1..Len(b) : i + n \in 1..Len(c) /\ i + n \notin 1..n /\ c[i + n] = b[i]
  <2> SUFFICES ASSUME NEW i \in 1..Len(b)
               PROVE  i + n \in 1..Len(c) /\ i + n \notin 1..n /\ c[i + n] = b[i]
    OBVIOUS
  <2>1. i + n \in 1..(n + Len(b)) /\ ~(i + n <= n) /\ (i + n) - n = i
    BY <1>1
  <2> QED BY <2>1, <1>1
<1>4. \A j \in 1..Len(c) : j \in 1..n \/ (j - n \in 1..Len(b) /\ (j - n) + n = j)
  BY <1>1
<1>5. Slots(a) \subseteq Slots(c)
  <2> SUFFICES ASSUME NEW p \in Slots(a)
               PROVE  p \in Slots(c)
    OBVIOUS
  <2>1. PICK i, k : i \in 1..n /\ k \in a[i].start..a[i].stop /\ p = <<i, k>>
    BY SlotIs DEF n
  <2> QED BY <2>1, <1>2, SlotPair
<1>6. f \in Bijection(Slots(b), X)
  <2>1. ASSUME NEW p \in Slots(b)
        PROVE  f[p] \in X
    <3>1. PICK i, k : i \in 1..Len(b) /\ k \in b[i].start..b[i].stop /\ p = <<i, k>>
      BY SlotIs
    <3>2. f[p] = <<i + n, k>>
      BY <3>1
    <3> HIDE DEF f
    <3>3. f[p] \in Slots(c)
      BY <3>1, <3>2, <1>3, SlotPair
    <3>4. f[p] \notin Slots(a)
      BY <3>1, <3>2, <1>3, SlotPair DEF n
    <3> QED BY <3>3, <3>4
  <2>2. ASSUME NEW p \in Slots(b), NEW q \in Slots(b), f[p] = f[q]
        PROVE  p = q
    <3>1. PICK i, k : i \in 1..Len(b) /\ k \in b[i].start..b[i].stop /\ p = <<i, k>>
      BY SlotIs
    <3>2. PICK j, l : j \in 1..Len(b) /\ l \in b[j].start..b[j].stop /\ q = <<j, l>>
      BY SlotIs
    <3>3. f[p] = <<i + n, k>> /\ f[q] = <<j + n, l>>
      BY <3>1, <3>2
    <3>4. i + n = j + n /\ k = l
      BY <3>3, <2>2
    <3>5. i = j
      BY <3>1, <3>2, <3>4, <1>1
    <3> QED BY <3>1, <3>2, <3>4, <3>5
  <2>3. ASSUME NEW y \in X
        PROVE  \E p \in Slots(b) : f[p] = y
    <3>1. PICK j, k : j \in 1..Len(c) /\ k \in c[j].start..c[j].stop /\ y = <<j, k>>
      BY SlotIs
    <3>2. j \notin 1..n
      BY <3>1, <1>2, SlotPair DEF n
    <3>3. j - n \in 1..Len(b) /\ (j - n) + n = j
      BY <3>1, <3>2, <1>4
    <3>4. <<j - n, k>> \in Slots(b)
      BY <3>1, <3>3, <1>3, SlotPair
    <3>5. f[<<j - n, k>>] = <<(j - n) + n, k>>
      BY <3>4
    <3> QED BY <3>1, <3>3, <3>4, <3>5
  <2>4. f \in [Slots(b) -> X]
    BY <2>1
  <2> HIDE DEF f, X
  <2> QED BY <2>2, <2>3, <2>4 DEF Bijection, Injection, Surjection, IsInjective
<1>7. IsFiniteSet(Slots(a)) /\ IsFiniteSet(Slots(b)) /\ Cardinality(Slots(a)) \in Nat
  BY SlotsFinite
<1>8. IsFiniteSet(X) /\ Cardinality(X) = Cardinality(Slots(b))
  <2> HIDE DEF f, X
  <2>1. ExistsBijection(Slots(b), X)
    BY <1>6 DEF ExistsBijection
  <2> QED BY <2>1, <1>7, FS_Bijection
<1>9. Slots(c) = Slots(a) \cup X /\ Slots(a) \cap X = {}
  BY <1>5
<1>10. Cardinality(Slots(a) \cup X) = Cardinality(Slots(a)) + Cardinality(X) - Cardinality({})
  <2> HIDE DEF X
  <2> QED BY <1>7, <1>8, <1>9, FS_Union
<1>11. Cardinality({}) = 0 /\ Cardinality(X) \in Nat
  <2> HIDE DEF X
  <2> QED BY <1>8, FS_EmptySet, FS_CardinalityType
<1> HIDE DEF X
<1>12. Cardinality(Slots(c)) = Cardinality(Slots(a)) + Cardinality(Slots(b))
  BY <1>7, <1>8, <1>9, <1>10, <1>11
<1> QED BY <1>1, <1>12 DEF c

\* The slots of one range.
LEMMA SlotsOne ==
    ASSUME NEW r \in LineRange
    PROVE  /\ <<r>> \in Ranges /\ r.start \in Nat /\ r.stop \in Nat
           /\ Cardinality(Slots(<<r>>)) = IF r.start > r.stop THEN 0 ELSE r.stop - r.start + 1
<1> DEFINE q == <<r>>
<1>1. q \in Ranges /\ Len(q) = 1 /\ q[1] = r
  BY DEF Ranges
<1>2. r.start \in Nat /\ r.stop \in Nat
  BY DEF LineRange
<1> HIDE DEF q
<1>3. Slots(q) = {1} \X (r.start..r.stop)
  BY <1>1 DEF Slots
<1>4. IsFiniteSet({1}) /\ Cardinality({1}) = 1
  BY FS_Singleton
<1> DEFINE n == Cardinality(r.start..r.stop)
<1>5. IsFiniteSet(r.start..r.stop) /\ n = IF r.start > r.stop THEN 0 ELSE r.stop - r.start + 1
  <2>1. r.start \in Int /\ r.stop \in Int
    BY <1>2
  <2> QED BY <2>1, FS_Interval
<1>6. Cardinality(Slots(q)) = 1 * n
  BY <1>3, <1>4, <1>5, FS_Product
<1>7. n \in Nat
  BY <1>5, FS_CardinalityType
<1> HIDE DEF n
<1>8. 1 * n = n
  BY <1>7
<1> QED BY <1>1, <1>2, <1>5, <1>6, <1>8 DEF q

-----------------------------------------------------------------------------
(* ex_g_insdel() on ranges                                                 *)

\* An inserted line moves or splits a range: it waits for as many lines.
LEMMA InsertOne ==
    ASSUME NEW r \in LineRange, NEW k \in Nat \ {0}
    PROVE  /\ InsertInRange(r, k) \in Ranges
           /\ Cardinality(Slots(InsertInRange(r, k))) = Cardinality(Slots(<<r>>))
           /\ ~(r.start < k /\ k <= r.stop) =>
                \E s \in LineRange :
                  /\ InsertInRange(r, k) = <<s>>
                  /\ IF r.stop < k THEN s = r ELSE s.start = r.start + 1 /\ s.stop = r.stop + 1
<1>1. /\ r.start \in Nat /\ r.stop \in Nat
      /\ <<r>> \in Ranges
      /\ Cardinality(Slots(<<r>>)) = IF r.start > r.stop THEN 0 ELSE r.stop - r.start + 1
  BY SlotsOne
<1>2. CASE r.stop < k
  BY <1>1, <1>2 DEF InsertInRange
<1>3. CASE ~(r.stop < k) /\ r.start >= k
  <2> DEFINE s == [start |-> r.start + 1, stop |-> r.stop + 1]
  <2>1. s \in LineRange /\ s.start = r.start + 1 /\ s.stop = r.stop + 1
    BY <1>1 DEF LineRange
  <2>2. InsertInRange(r, k) = <<s>>
    BY <1>3 DEF InsertInRange, Shift
  <2> HIDE DEF s
  <2>3. /\ <<s>> \in Ranges
        /\ Cardinality(Slots(<<s>>)) = IF s.start > s.stop THEN 0 ELSE s.stop - s.start + 1
    BY <2>1, SlotsOne
  <2>4. Cardinality(Slots(<<s>>)) = Cardinality(Slots(<<r>>))
    BY <1>1, <2>1, <2>3
  <2> QED BY <1>3, <2>1, <2>2, <2>3, <2>4
<1>4. CASE ~(r.stop < k) /\ ~(r.start >= k)
  <2> DEFINE a == [start |-> r.start, stop |-> k - 1]
             b == [start |-> k + 1 + 1, stop |-> r.stop + 1 + 1]
  <2>1. a \in LineRange /\ a.start = r.start /\ a.stop = k - 1
    BY <1>1 DEF LineRange
  <2>2. b \in LineRange /\ b.start = k + 1 + 1 /\ b.stop = r.stop + 1 + 1
    BY <1>1 DEF LineRange
  <2>3. InsertInRange(r, k) = <<a, b>>
    <3>1. [r EXCEPT !.stop = k - 1] = a
      BY DEF LineRange
    <3>2. Shift([start |-> k + 1, stop |-> r.stop + 1], 1) = b
      BY DEF Shift
    <3>3. InsertInRange(r, k) = <<[r EXCEPT !.stop = k - 1],
                                  Shift([start |-> k + 1, stop |-> r.stop + 1], 1)>>
      BY <1>4 DEF InsertInRange
    <3> HIDE DEF a, b
    <3> QED BY <3>1, <3>2, <3>3
  <2> HIDE DEF a, b
  <2>4. <<a>> \o <<b>> = <<a, b>>
    BY <2>1, <2>2, TwoElements
  <2>5. /\ <<a>> \in Ranges
        /\ Cardinality(Slots(<<a>>)) = IF a.start > a.stop THEN 0 ELSE a.stop - a.start + 1
    BY <2>1, SlotsOne
  <2>6. /\ <<b>> \in Ranges
        /\ Cardinality(Slots(<<b>>)) = IF b.start > b.stop THEN 0 ELSE b.stop - b.start + 1
    BY <2>2, SlotsOne
  <2>7. /\ <<a>> \o <<b>> \in Ranges
        /\ Cardinality(Slots(<<a>> \o <<b>>)) = Cardinality(Slots(<<a>>)) + Cardinality(Slots(<<b>>))
    BY <2>5, <2>6, SlotsConcat
  <2> DEFINE ca == Cardinality(Slots(<<a>>))
             cb == Cardinality(Slots(<<b>>))
             cr == Cardinality(Slots(<<r>>))
  <2> HIDE DEF ca, cb, cr
  <2>8. ca = k - r.start
    <3>1. ~(a.start > a.stop) /\ a.stop - a.start + 1 = k - r.start
      BY <1>1, <1>4, <2>1
    <3> QED BY <3>1, <2>5 DEF ca
  <2>9. cb = r.stop - k + 1
    <3>1. ~(b.start > b.stop) /\ b.stop - b.start + 1 = r.stop - k + 1
      BY <1>1, <1>4, <2>2
    <3> QED BY <3>1, <2>6 DEF cb
  <2>10. cr = r.stop - r.start + 1
    <3>1. ~(r.start > r.stop)
      BY <1>1, <1>4
    <3> QED BY <3>1, <1>1 DEF cr
  <2>11. ca + cb = cr
    BY <1>1, <1>4, <2>8, <2>9, <2>10
  <2>12. InsertInRange(r, k) = <<a>> \o <<b>>
    BY <2>3, <2>4
  <2>13. Cardinality(Slots(InsertInRange(r, k))) = Cardinality(Slots(<<r>>))
    BY <2>7, <2>11, <2>12 DEF ca, cb, cr
  <2>14. r.start < k /\ k <= r.stop
    BY <1>1, <1>4
  <2> QED BY <2>7, <2>12, <2>13, <2>14
<1> QED BY <1>2, <1>3, <1>4

\* Joined over the list, whichever of its ranges are split.
LEMMA InsertSlots ==
    ASSUME NEW rs \in Ranges, NEW k \in Nat \ {0}
    PROVE  /\ InsertInRanges(rs, k) \in Ranges
           /\ Cardinality(Slots(InsertInRanges(rs, k))) = Cardinality(Slots(rs))
<1> DEFINE n == Len(rs)
           ss == [i \in 1..n |-> InsertInRange(rs[i], k)]
<1>1. n \in Nat /\ \A i \in 1..n : rs[i] \in LineRange
  BY RangeType
<1>2. Len(ss) = n /\ \A i \in 1..n : ss[i] = InsertInRange(rs[i], k)
  BY <1>1
<1>3. InsertInRanges(rs, k) = FlattenSeq(ss)
  BY DEF InsertInRanges
<1>4. CASE n = 0
  <2>1. ss = <<>> /\ rs = <<>>
    BY <1>1, <1>4 DEF Ranges
  <2>2. FlattenSeq(ss) = <<>>
    BY <2>1 DEF FlattenSeq
  <2> QED BY <1>3, <2>1, <2>2
<1>5. CASE n # 0
  <2> HIDE DEF ss
  <2>1. PICK f : Joining(ss, n, f) /\ FlattenSeq(ss) = f[n]
    BY <1>1, <1>2, <1>5, FlattenIs
  <2> DEFINE T == {i \in Nat : i + 1 <= n =>
                     /\ f[i + 1] \in Ranges
                     /\ Cardinality(Slots(f[i + 1])) = Cardinality(Slots(SubSeq(rs, 1, i + 1)))}
  <2>2. ASSUME NEW i \in 1..n
        PROVE  /\ f[i] = IF i = 1 THEN ss[i] ELSE f[i - 1] \o ss[i]
               /\ ss[i] \in Ranges /\ Cardinality(Slots(ss[i])) = Cardinality(Slots(<<rs[i]>>))
               /\ <<rs[i]>> \in Ranges
    <3>1. f[i] = IF i = 1 THEN ss[i] ELSE f[i - 1] \o ss[i]
      BY <2>1 DEF Joining
    <3> QED BY <3>1, <1>1, <1>2, InsertOne, SlotsOne
  <2>3. 0 \in T
    <3>1. 1 \in 1..n /\ 0 + 1 = 1
      BY <1>1, <1>5
    <3>2. f[1] = ss[1]
      BY <3>1, <2>2
    <3>3. SubSeq(rs, 1, 1) = <<rs[1]>>
      BY <3>1, PrefixIs DEF Ranges
    <3>4. f[1] \in Ranges /\ Cardinality(Slots(f[1])) = Cardinality(Slots(SubSeq(rs, 1, 1)))
      BY <3>1, <3>2, <3>3, <2>2
    <3> QED BY <3>1, <3>4
  <2>4. ASSUME NEW i \in Nat, i \in T
        PROVE  i + 1 \in T
    <3> SUFFICES ASSUME i + 1 + 1 <= n
                 PROVE  /\ f[i + 1 + 1] \in Ranges
                        /\ Cardinality(Slots(f[i + 1 + 1])) = Cardinality(Slots(SubSeq(rs, 1, i + 1 + 1)))
      OBVIOUS
    <3> DEFINE j == i + 1
    <3>1. j \in 1..n /\ j + 1 \in 1..n /\ j + 1 # 1 /\ (j + 1) - 1 = j /\ j \in Nat
      BY <1>1
    <3>2. f[j] \in Ranges /\ Cardinality(Slots(f[j])) = Cardinality(Slots(SubSeq(rs, 1, j)))
      BY <2>4, <3>1
    <3> HIDE DEF j
    <3>3. f[j + 1] = f[j] \o ss[j + 1]
      BY <3>1, <2>2
    <3>4. /\ SubSeq(rs, 1, j + 1) = SubSeq(rs, 1, j) \o <<rs[j + 1]>>
          /\ SubSeq(rs, 1, j) \in Ranges
      BY <1>1, <3>1, PrefixIs DEF Ranges
    <3>5. /\ f[j + 1] \in Ranges
          /\ Cardinality(Slots(f[j + 1])) = Cardinality(Slots(f[j])) + Cardinality(Slots(ss[j + 1]))
      <4>1. ss[j + 1] \in Ranges
        BY <3>1, <2>2
      <4>2. f[j] \in Ranges
        BY <3>2
      <4> QED BY <3>3, <4>1, <4>2, SlotsConcat
    <3>6. Cardinality(Slots(SubSeq(rs, 1, j + 1)))
            = Cardinality(Slots(SubSeq(rs, 1, j))) + Cardinality(Slots(<<rs[j + 1]>>))
      <4>1. <<rs[j + 1]>> \in Ranges
        BY <3>1, <2>2
      <4> QED BY <3>4, <4>1, SlotsConcat
    <3>7. Cardinality(Slots(ss[j + 1])) = Cardinality(Slots(<<rs[j + 1]>>))
      BY <3>1, <2>2
    <3> QED BY <3>2, <3>5, <3>6, <3>7 DEF j
  <2>5. n - 1 \in Nat /\ (n - 1) + 1 = n
    BY <1>1, <1>5
  <2>6. n - 1 \in T
    <3> HIDE DEF T
    <3> QED BY <2>3, <2>4, <2>5, Induct
  <2>7. f[n] \in Ranges /\ Cardinality(Slots(f[n])) = Cardinality(Slots(SubSeq(rs, 1, n)))
    BY <1>1, <2>5, <2>6
  <2>8. SubSeq(rs, 1, n) = rs
    BY <1>1, <1>5, PrefixIs DEF Ranges
  <2> QED BY <1>3, <2>1, <2>7, <2>8
<1> QED BY <1>4, <1>5

\* When none is split, the ranges stay where they are in the list.
LEMMA InsertWhole ==
    ASSUME NEW rs \in Ranges, NEW k \in Nat \ {0},
           \A i \in 1..Len(rs) : ~(rs[i].start < k /\ k <= rs[i].stop)
    PROVE  LET q == InsertInRanges(rs, k)
           IN  /\ q \in Ranges /\ Len(q) = Len(rs)
               /\ \A i \in 1..Len(rs) :
                    IF rs[i].stop < k THEN q[i] = rs[i]
                    ELSE q[i].start = rs[i].start + 1 /\ q[i].stop = rs[i].stop + 1
<1> DEFINE n == Len(rs)
           ss == [i \in 1..n |-> InsertInRange(rs[i], k)]
           Moved(s, r) == IF r.stop < k THEN s = r
                          ELSE s.start = r.start + 1 /\ s.stop = r.stop + 1
<1>1. n \in Nat /\ \A i \in 1..n : rs[i] \in LineRange
  BY RangeType
<1>2. Len(ss) = n /\ \A i \in 1..n : ss[i] = InsertInRange(rs[i], k)
  BY <1>1
<1>3. InsertInRanges(rs, k) = FlattenSeq(ss) /\ InsertInRanges(rs, k) \in Ranges
  BY InsertSlots DEF InsertInRanges
<1>4. CASE n = 0
  <2>1. ss = <<>> /\ 1..n = {}
    BY <1>1, <1>4
  <2>2. FlattenSeq(ss) = <<>>
    BY <2>1 DEF FlattenSeq
  <2> QED BY <1>3, <1>4, <2>1, <2>2
<1>5. CASE n # 0
  <2> HIDE DEF ss
  <2>1. PICK f : Joining(ss, n, f) /\ FlattenSeq(ss) = f[n]
    BY <1>1, <1>2, <1>5, FlattenIs
  <2> DEFINE Good(q, m) == q \in Ranges /\ Len(q) = m /\ \A x \in 1..m : Moved(q[x], rs[x])
             T == {i \in Nat : i + 1 <= n => Good(f[i + 1], i + 1)}
  <2>2. ASSUME NEW i \in 1..n
        PROVE  /\ f[i] = IF i = 1 THEN ss[i] ELSE f[i - 1] \o ss[i]
               /\ \E s \in LineRange : ss[i] = <<s>> /\ Moved(s, rs[i])
    <3>1. f[i] = IF i = 1 THEN ss[i] ELSE f[i - 1] \o ss[i]
      BY <2>1 DEF Joining
    <3>2. \E s \in LineRange : InsertInRange(rs[i], k) = <<s>> /\ Moved(s, rs[i])
      BY <1>1, InsertOne
    <3> QED BY <3>1, <3>2, <1>2
  <2> HIDE DEF Moved
  <2>3. 0 \in T
    <3>1. 1 \in 1..n /\ 0 + 1 = 1
      BY <1>1, <1>5
    <3>2. PICK s \in LineRange : ss[1] = <<s>> /\ Moved(s, rs[1])
      BY <3>1, <2>2
    <3>3. f[1] = <<s>>
      BY <3>1, <3>2, <2>2
    <3>4. Good(<<s>>, 1)
      <4>1. <<s>> \in Ranges /\ Len(<<s>>) = 1 /\ <<s>>[1] = s
        BY DEF Ranges
      <4> QED BY <4>1, <3>2
    <3>5. Good(f[0 + 1], 0 + 1)
      BY <3>1, <3>3, <3>4
    <3> HIDE DEF Good
    <3> QED BY <3>5
  <2>4. ASSUME NEW i \in Nat, i \in T
        PROVE  i + 1 \in T
    <3> SUFFICES ASSUME i + 1 + 1 <= n
                 PROVE  Good(f[i + 1 + 1], i + 1 + 1)
      OBVIOUS
    <3> DEFINE j == i + 1
    <3>1. j \in 1..n /\ j + 1 \in 1..n /\ j + 1 # 1 /\ (j + 1) - 1 = j /\ j \in Nat
      BY <1>1
    <3>2. Good(f[j], j)
      BY <2>4, <3>1
    <3> HIDE DEF j
    <3>3. PICK s \in LineRange : ss[j + 1] = <<s>> /\ Moved(s, rs[j + 1])
      BY <3>1, <2>2
    <3>4. f[j + 1] = f[j] \o <<s>>
      BY <3>1, <3>3, <2>2
    <3> DEFINE a == f[j]
               c == a \o <<s>>
    <3>6. a \in Ranges /\ Len(a) = j /\ \A x \in 1..j : Moved(a[x], rs[x])
      BY <3>2
    <3> HIDE DEF a
    <3>7. c \in Ranges /\ Len(c) = j + 1 /\ c[j + 1] = s /\ \A x \in 1..j : c[x] = a[x]
      BY <3>6, Extended DEF Ranges
    <3> HIDE DEF c
    <3>8. ASSUME NEW x \in 1..(j + 1)
          PROVE  Moved(c[x], rs[x])
      <4>1. CASE x <= j
        <5>1. x \in 1..j
          BY <4>1, <3>1
        <5>2. c[x] = a[x]
          BY <5>1, <3>7
        <5> QED BY <5>1, <5>2, <3>6
      <4>2. CASE ~(x <= j)
        <5>1. x = j + 1
          BY <4>2, <3>1
        <5>2. c[x] = s
          BY <5>1, <3>7
        <5> QED BY <5>1, <5>2, <3>3
      <4> QED BY <4>1, <4>2
    <3>9. Good(c, j + 1)
      BY <3>7, <3>8
    <3> HIDE DEF Good
    <3> QED BY <3>9, <3>4 DEF a, c, j
  <2>5. n - 1 \in Nat /\ (n - 1) + 1 = n
    BY <1>1, <1>5
  <2>6. n - 1 \in T
    <3> HIDE DEF T
    <3> QED BY <2>3, <2>4, <2>5, Induct
  <2>7. Good(f[n], n)
    <3> HIDE DEF Good
    <3> QED BY <1>1, <2>5, <2>6
  <2> QED BY <1>3, <2>1, <2>7 DEF Moved
<1> QED BY <1>4, <1>5

\* A deleted line moves or shortens a range; it never waits for more lines.
LEMMA DeleteIs ==
    ASSUME NEW rs \in Ranges, NEW k \in Nat \ {0}
    PROVE  LET q == DeleteInRanges(rs, k)
           IN  /\ q \in Ranges /\ Len(q) = Len(rs)
               /\ \A i \in 1..Len(rs) :
                    /\ q[i].start = IF rs[i].stop >= k /\ rs[i].start >= k THEN rs[i].start - 1
                                    ELSE rs[i].start
                    /\ q[i].stop = IF rs[i].stop >= k THEN rs[i].stop - 1 ELSE rs[i].stop
<1> DEFINE q == DeleteInRanges(rs, k)
           n == Len(rs)
<1>1. /\ n \in Nat
      /\ \A i \in 1..n : rs[i] \in LineRange /\ rs[i].start \in Nat /\ rs[i].stop \in Nat
  BY RangeType
<1>2. q = [i \in 1..n |-> DeleteInRange(rs[i], k)]
  BY DEF DeleteInRanges
<1>3. ASSUME NEW r \in LineRange, r.start \in Nat, r.stop \in Nat
      PROVE  LET t == DeleteInRange(r, k)
             IN  /\ t \in LineRange
                 /\ t.start = IF r.stop >= k /\ r.start >= k THEN r.start - 1 ELSE r.start
                 /\ t.stop = IF r.stop >= k THEN r.stop - 1 ELSE r.stop
  <2> DEFINE t == DeleteInRange(r, k)
  <2>1. CASE r.stop < k
    <3>1. t = r
      BY <2>1 DEF DeleteInRange
    <3> QED BY <3>1, <2>1, <1>3
  <2>2. CASE ~(r.stop < k) /\ r.start >= k
    <3>1. t = [start |-> r.start + (-1), stop |-> r.stop + (-1)]
      BY <2>2 DEF DeleteInRange, Shift
    <3>2. r.start - 1 \in Nat /\ r.stop - 1 \in Nat
      BY <2>2, <1>3
    <3>3. t.start = r.start - 1 /\ t.stop = r.stop - 1 /\ t \in LineRange
      BY <3>1, <3>2, <1>3 DEF LineRange
    <3> QED BY <3>3, <2>2, <1>3
  <2>3. CASE ~(r.stop < k) /\ ~(r.start >= k)
    <3>1. t = [r EXCEPT !.stop = r.stop - 1]
      BY <2>3 DEF DeleteInRange
    <3>2. r.stop - 1 \in Nat
      BY <2>3, <1>3
    <3>3. t.start = r.start /\ t.stop = r.stop - 1 /\ t \in LineRange
      BY <3>1, <3>2, <1>3 DEF LineRange
    <3> QED BY <3>3, <2>3, <1>3
  <2> QED BY <2>1, <2>2, <2>3
<1> HIDE DEF q
<1>4. \A i \in 1..n : q[i] = DeleteInRange(rs[i], k)
  BY <1>2
<1>5. q \in Ranges /\ Len(q) = n
  <2>1. q \in [1..n -> LineRange]
    BY <1>1, <1>2, <1>3
  <2> QED BY <1>1, <2>1, FcnIsSeq DEF Ranges
<1> QED BY <1>1, <1>3, <1>4, <1>5 DEF q

LEMMA DeleteSlots ==
    ASSUME NEW rs \in Ranges, NEW k \in Nat \ {0}
    PROVE  Cardinality(Slots(DeleteInRanges(rs, k))) <= Cardinality(Slots(rs))
<1> DEFINE q == DeleteInRanges(rs, k)
           n == Len(rs)
           Back(i) == rs[i].stop >= k /\ rs[i].start >= k
           f == [p \in Slots(q) |-> <<p[1], IF Back(p[1]) THEN p[2] + 1 ELSE p[2]>>]
<1>1. /\ q \in Ranges /\ Len(q) = n
      /\ \A i \in 1..n : /\ q[i].start = IF Back(i) THEN rs[i].start - 1 ELSE rs[i].start
                         /\ q[i].stop = IF rs[i].stop >= k THEN rs[i].stop - 1 ELSE rs[i].stop
  BY DeleteIs
<1> HIDE DEF q
<1>2. \A i \in 1..n : rs[i].start \in Nat /\ rs[i].stop \in Nat
  BY RangeType
<1>3. ASSUME NEW p \in Slots(q)
      PROVE  /\ p = <<p[1], p[2]>> /\ p[1] \in 1..n /\ p[2] \in Nat
             /\ f[p] = <<p[1], IF Back(p[1]) THEN p[2] + 1 ELSE p[2]>>
             /\ f[p] \in Slots(rs)
  <2>1. /\ p = <<p[1], p[2]>> /\ p[1] \in 1..n /\ p[2] \in q[p[1]].start..q[p[1]].stop
        /\ p[2] \in Nat
    BY <1>1, SlotType
  <2> DEFINE i == p[1]
             x == p[2]
             y == IF Back(i) THEN x + 1 ELSE x
  <2>2. f[p] = <<i, y>>
    OBVIOUS
  <2>3. i \in 1..n /\ x \in Nat /\ x \in q[i].start..q[i].stop
    BY <2>1
  <2> HIDE DEF i, x, f
  <2>4. y \in rs[i].start..rs[i].stop
    BY <1>1, <1>2, <2>3
  <2>5. <<i, y>> \in Slots(rs)
    BY <2>3, <2>4, SlotPair
  <2> QED BY <2>1, <2>2, <2>5 DEF i, x
<1>4. f \in Injection(Slots(q), Slots(rs))
  <2>1. f \in [Slots(q) -> Slots(rs)]
    BY <1>3
  <2>2. ASSUME NEW a \in Slots(q), NEW b \in Slots(q), f[a] = f[b]
        PROVE  a = b
    <3>1. /\ a = <<a[1], a[2]>> /\ a[1] \in 1..n /\ a[2] \in Nat
          /\ f[a] = <<a[1], IF Back(a[1]) THEN a[2] + 1 ELSE a[2]>>
      BY <1>3
    <3>2. /\ b = <<b[1], b[2]>> /\ b[1] \in 1..n /\ b[2] \in Nat
          /\ f[b] = <<b[1], IF Back(b[1]) THEN b[2] + 1 ELSE b[2]>>
      BY <1>3
    <3> DEFINE ya == IF Back(a[1]) THEN a[2] + 1 ELSE a[2]
               yb == IF Back(b[1]) THEN b[2] + 1 ELSE b[2]
    <3>3. f[a] = <<a[1], ya>> /\ f[b] = <<b[1], yb>>
      BY <3>1, <3>2
    <3> HIDE DEF f, ya, yb
    <3>4. a[1] = b[1] /\ ya = yb
      <4>1. <<a[1], ya>> = <<b[1], yb>>
        BY <2>2, <3>3
      <4> QED BY <4>1
    <3>5. a[2] = b[2]
      <4> HIDE DEF Back
      <4> QED BY <3>1, <3>2, <3>4 DEF ya, yb
    <3> QED BY <3>1, <3>2, <3>4, <3>5
  <2> HIDE DEF f
  <2> QED BY <2>1, <2>2 DEF Injection, IsInjective
<1> HIDE DEF f
<1> QED BY <1>4, SlotsFinite, FS_Injection DEF q

-----------------------------------------------------------------------------
(* Lines that come and go below the ranges                                 *)

\* The lines of M when line k has been deleted, and when a line k is new.
Deleted(M, k) == {x \in Nat : IF x < k THEN x \in M ELSE x + 1 \in M}
Inserted(M, k) == {x \in Nat : IF x < k THEN x \in M ELSE x > k /\ x - 1 \in M}

LEMMA DeleteAwaits ==
    ASSUME NEW rs \in Ranges, NEW k \in Nat \ {0}, NEW M, Awaits(rs, M),
           \A i \in 1..Len(rs) : ~(Live(rs[i]) /\ rs[i].start = k)
    PROVE  Awaits(DeleteInRanges(rs, k), Deleted(M, k))
<1> DEFINE q == DeleteInRanges(rs, k)
           n == Len(rs)
<1>1. /\ q \in Ranges /\ Len(q) = n /\ n \in Nat
      /\ \A i \in 1..n : /\ q[i].start = IF rs[i].stop >= k /\ rs[i].start >= k THEN rs[i].start - 1
                                         ELSE rs[i].start
                         /\ q[i].stop = IF rs[i].stop >= k THEN rs[i].stop - 1 ELSE rs[i].stop
  BY DeleteIs, RangeType
<1> HIDE DEF q
<1>2. \A i \in 1..n : rs[i].start \in Nat /\ rs[i].stop \in Nat
  BY RangeType
<1>3. ASSUME NEW i \in 1..n, NEW x \in Nat
      PROVE  x \in q[i].start..q[i].stop <=>
               IF x < k THEN x \in rs[i].start..rs[i].stop ELSE x + 1 \in rs[i].start..rs[i].stop
  <2>1. ~(rs[i].start <= rs[i].stop /\ rs[i].start = k)
    BY DEF Live
  <2> QED BY <1>1, <1>2, <2>1
<1>4. LinesOf(q) = Deleted(M, k)
  <2>1. LinesOf(q) \subseteq Nat
    BY <1>1, RangeType DEF LinesOf
  <2>2. ASSUME NEW x \in Nat
        PROVE  x \in LinesOf(q) <=> IF x < k THEN x \in M ELSE x + 1 \in M
    <3>1. M = LinesOf(rs)
      BY DEF Awaits
    <3>2. x \in LinesOf(q) <=> \E i \in 1..n : x \in q[i].start..q[i].stop
      BY <1>1, LineIs
    <3>3. x \in M <=> \E i \in 1..n : x \in rs[i].start..rs[i].stop
      BY <3>1, LineIs
    <3>4. x + 1 \in M <=> \E i \in 1..n : x + 1 \in rs[i].start..rs[i].stop
      BY <3>1, LineIs
    <3> QED BY <3>2, <3>3, <3>4, <1>3
  <2> QED BY <2>1, <2>2 DEF Deleted
<1>5. InOrder(q)
  <2> SUFFICES ASSUME NEW i \in 1..n, NEW j \in 1..n, i < j,
                      q[i].start <= q[i].stop, q[j].start <= q[j].stop
               PROVE  q[i].stop < q[j].start
    BY <1>1 DEF InOrder, Live
  <2>1. /\ rs[i].start \in Nat /\ rs[i].stop \in Nat /\ rs[j].start \in Nat /\ rs[j].stop \in Nat
        /\ k \in Nat
    BY <1>2
  <2>2. rs[i].start <= rs[i].stop /\ rs[j].start <= rs[j].stop
    BY <1>1, <2>1
  <2>3. rs[i].stop < rs[j].start
    BY <2>2 DEF Awaits, InOrder, Live
  <2>4. rs[j].start # k
    BY <2>2 DEF Live
  <2> QED BY <1>1, <2>1, <2>2, <2>3, <2>4
<1> QED BY <1>4, <1>5 DEF Awaits, q

LEMMA InsertAwaits ==
    ASSUME NEW rs \in Ranges, NEW k \in Nat \ {0}, NEW M, Awaits(rs, M),
           \A i \in 1..Len(rs) : ~(rs[i].start < k /\ k <= rs[i].stop)
    PROVE  Awaits(InsertInRanges(rs, k), Inserted(M, k))
<1> DEFINE q == InsertInRanges(rs, k)
           n == Len(rs)
<1>1. /\ q \in Ranges /\ Len(q) = n /\ n \in Nat
      /\ \A i \in 1..n :
           IF rs[i].stop < k THEN q[i] = rs[i]
           ELSE q[i].start = rs[i].start + 1 /\ q[i].stop = rs[i].stop + 1
  BY InsertWhole, RangeType
<1> HIDE DEF q
<1>2. \A i \in 1..n : /\ rs[i].start \in Nat /\ rs[i].stop \in Nat
                      /\ ~(rs[i].start < k /\ k <= rs[i].stop)
  BY RangeType
<1>3. ASSUME NEW i \in 1..n
      PROVE  /\ q[i].start = IF rs[i].stop < k THEN rs[i].start ELSE rs[i].start + 1
             /\ q[i].stop = IF rs[i].stop < k THEN rs[i].stop ELSE rs[i].stop + 1
  BY <1>1
<1>4. ASSUME NEW i \in 1..n, NEW x \in Nat
      PROVE  x \in q[i].start..q[i].stop <=>
               IF x < k THEN x \in rs[i].start..rs[i].stop
               ELSE x > k /\ x - 1 \in rs[i].start..rs[i].stop
  BY <1>2, <1>3
<1>5. LinesOf(q) = Inserted(M, k)
  <2>1. LinesOf(q) \subseteq Nat
    BY <1>1, RangeType DEF LinesOf
  <2>2. ASSUME NEW x \in Nat
        PROVE  x \in LinesOf(q) <=> IF x < k THEN x \in M ELSE x > k /\ x - 1 \in M
    <3>1. M = LinesOf(rs)
      BY DEF Awaits
    <3>2. x \in LinesOf(q) <=> \E i \in 1..n : x \in q[i].start..q[i].stop
      BY <1>1, LineIs
    <3>3. x \in M <=> \E i \in 1..n : x \in rs[i].start..rs[i].stop
      BY <3>1, LineIs
    <3>4. x - 1 \in M <=> \E i \in 1..n : x - 1 \in rs[i].start..rs[i].stop
      BY <3>1, LineIs
    <3> QED BY <3>2, <3>3, <3>4, <1>4
  <2> QED BY <2>1, <2>2 DEF Inserted
<1>6. InOrder(q)
  <2> SUFFICES ASSUME NEW i \in 1..n, NEW j \in 1..n, i < j,
                      q[i].start <= q[i].stop, q[j].start <= q[j].stop
               PROVE  q[i].stop < q[j].start
    BY <1>1 DEF InOrder, Live
  <2>1. /\ rs[i].start \in Nat /\ rs[i].stop \in Nat /\ rs[j].start \in Nat /\ rs[j].stop \in Nat
        /\ ~(rs[j].start < k /\ k <= rs[j].stop) /\ k \in Nat
    BY <1>2
  <2>2. rs[i].start <= rs[i].stop /\ rs[j].start <= rs[j].stop
    BY <1>3, <2>1
  <2>3. rs[i].stop < rs[j].start
    BY <2>2 DEF Awaits, InOrder, Live
  <2> QED BY <1>3, <2>1, <2>2, <2>3
<1> QED BY <1>5, <1>6 DEF Awaits, q

\* Ranges in order have a slot for each of their lines.
LEMMA OrderedCount ==
    ASSUME NEW rs \in Ranges, InOrder(rs)
    PROVE  IsFiniteSet(LinesOf(rs)) /\ Cardinality(LinesOf(rs)) = Cardinality(Slots(rs))
<1> DEFINE f == [p \in Slots(rs) |-> p[2]]
<1>1. Len(rs) \in Nat /\ \A i \in 1..Len(rs) : rs[i].start \in Nat /\ rs[i].stop \in Nat
  BY RangeType
<1>2. ASSUME NEW p \in Slots(rs)
      PROVE  /\ p = <<p[1], p[2]>> /\ p[1] \in 1..Len(rs)
             /\ p[2] \in rs[p[1]].start..rs[p[1]].stop /\ p[2] \in Nat
             /\ f[p] = p[2] /\ f[p] \in LinesOf(rs)
  BY SlotType, LineIs
<1>3. ASSUME NEW i \in 1..Len(rs), NEW j \in 1..Len(rs), NEW x \in Nat, i < j,
             x \in rs[i].start..rs[i].stop, x \in rs[j].start..rs[j].stop
      PROVE  FALSE
  <2>1. rs[i].start <= rs[i].stop /\ rs[j].start <= rs[j].stop
    BY <1>1, <1>3
  <2>2. rs[i].stop < rs[j].start
    BY <2>1, <1>3 DEF InOrder, Live
  <2> QED BY <2>2, <1>1, <1>3
<1>4. ASSUME NEW a \in Slots(rs), NEW b \in Slots(rs), f[a] = f[b]
      PROVE  a = b
  <2>1. a[2] = b[2] /\ a = <<a[1], a[2]>> /\ b = <<b[1], b[2]>>
    BY <1>2, <1>4
  <2>2. ~(a[1] < b[1]) /\ ~(b[1] < a[1]) /\ a[1] \in Nat /\ b[1] \in Nat
    BY <1>1, <1>2, <1>3, <2>1
  <2>3. a[1] = b[1]
    BY <2>2
  <2> QED BY <2>1, <2>3
<1>5. ASSUME NEW x \in LinesOf(rs)
      PROVE  \E p \in Slots(rs) : f[p] = x
  <2>1. PICK i \in 1..Len(rs) : x \in rs[i].start..rs[i].stop
    BY LineIs
  <2>2. <<i, x>> \in Slots(rs)
    BY <2>1, SlotPair
  <2> QED BY <2>2
<1>6. f \in Bijection(Slots(rs), LinesOf(rs))
  <2>1. f \in [Slots(rs) -> LinesOf(rs)]
    BY <1>2
  <2> HIDE DEF f
  <2> QED BY <2>1, <1>4, <1>5 DEF Bijection, Injection, Surjection, IsInjective
<1>7. ExistsBijection(Slots(rs), LinesOf(rs))
  BY <1>6 DEF ExistsBijection
<1> QED BY <1>7, SlotsFinite, FS_Bijection

-----------------------------------------------------------------------------
(* The ranges that :global starts with                                     *)

Rank(S, s) == Cardinality({k \in S : k <= s})

\* Counting from the least, every number of a set has a place of its own.
LEMMA NthIs ==
    ASSUME NEW S, S \subseteq Nat, IsFiniteSet(S)
    PROVE  /\ Cardinality(S) \in Nat
           /\ \A i \in 1..Cardinality(S) : Nth(S, i) \in S /\ Rank(S, Nth(S, i)) = i
           /\ \A s \in S : \E i \in 1..Cardinality(S) : Nth(S, i) = s
           /\ \A i, j \in 1..Cardinality(S) : i < j => Nth(S, i) < Nth(S, j)
<1> DEFINE n == Cardinality(S)
           Below(s) == {k \in S : k <= s}
           f == [s \in S |-> Rank(S, s)]
<1>1. n \in Nat
  BY FS_CardinalityType
<1>2. ASSUME NEW s \in S
      PROVE  Rank(S, s) \in 1..n /\ IsFiniteSet(Below(s)) /\ Rank(S, s) = Cardinality(Below(s))
  <2>0. s \in Nat
    OBVIOUS
  <2>1. Below(s) \in SUBSET S /\ s \in Below(s) /\ Rank(S, s) = Cardinality(Below(s))
    BY <2>0 DEF Rank
  <2> HIDE DEF Below
  <2>2. IsFiniteSet(Below(s)) /\ Cardinality(Below(s)) <= n
    BY <2>1, FS_Subset
  <2>3. Cardinality(Below(s)) \in Nat /\ Cardinality(Below(s)) # 0
    BY <2>1, <2>2, FS_CardinalityType, FS_EmptySet
  <2> QED BY <1>1, <2>1, <2>2, <2>3
<1>3. ASSUME NEW s \in S, NEW t \in S, s < t
      PROVE  Rank(S, s) < Rank(S, t)
  <2>0. s \in Nat /\ t \in Nat /\ \A k \in S : k \in Nat
    OBVIOUS
  <2>1. Below(s) \in SUBSET Below(t) /\ t \in Below(t) /\ t \notin Below(s)
    <3>1. \A k \in S : k <= s => k <= t
      BY <1>3, <2>0
    <3>2. t <= t /\ ~(t <= s)
      BY <1>3, <2>0
    <3> QED BY <3>1, <3>2
  <2> HIDE DEF Below
  <2>2. Cardinality(Below(s)) <= Cardinality(Below(t))
        /\ (Cardinality(Below(t)) = Cardinality(Below(s)) => Below(t) = Below(s))
    BY <1>2, <2>1, FS_Subset
  <2>3. /\ Rank(S, s) = Cardinality(Below(s)) /\ Rank(S, t) = Cardinality(Below(t))
        /\ Rank(S, s) \in Nat /\ Rank(S, t) \in Nat
    BY <1>1, <1>2
  <2> QED BY <2>1, <2>2, <2>3
<1>4. \A s, t \in S : Rank(S, s) = Rank(S, t) => s = t
  <2> SUFFICES ASSUME NEW s \in S, NEW t \in S, Rank(S, s) = Rank(S, t)
               PROVE  s = t
    OBVIOUS
  <2> DEFINE a == Rank(S, s)
             b == Rank(S, t)
  <2>0. \A x \in 1..n : x \in Nat
    OBVIOUS
  <2>1. a \in Nat /\ b \in Nat /\ a = b /\ s \in Nat /\ t \in Nat
    <3>1. a \in 1..n /\ b \in 1..n
      BY <1>2
    <3>2. s \in Nat /\ t \in Nat
      OBVIOUS
    <3> HIDE DEF n
    <3> QED BY <2>0, <3>1, <3>2
  <2>2. (s < t => a < b) /\ (t < s => b < a)
    BY <1>3
  <2> HIDE DEF a, b
  <2>3. ~(s < t) /\ ~(t < s)
    BY <2>1, <2>2
  <2> QED BY <2>1, <2>3
<1>5. f \in Injection(S, 1..n)
  <2>1. f \in [S -> 1..n] /\ \A s \in S : f[s] = Rank(S, s)
    BY <1>2
  <2> HIDE DEF f
  <2> QED BY <2>1, <1>4 DEF Injection, IsInjective
<1>6. f \in Surjection(S, 1..n)
  <2>1. IsFiniteSet(1..n) /\ Cardinality(1..n) = n
    <3>1. 1 \in Int /\ n \in Int
      BY <1>1
    <3>2. IsFiniteSet(1..n) /\ Cardinality(1..n) = IF 1 > n THEN 0 ELSE n - 1 + 1
      <4> HIDE DEF n
      <4> QED BY <3>1, FS_Interval
    <3> QED BY <1>1, <3>2
  <2> HIDE DEF f
  <2>2. Cardinality(S) = Cardinality(1..n) <=> f \in Surjection(S, 1..n)
    BY <1>5, <2>1, FS_Injection
  <2> QED BY <2>1, <2>2
<1>7. ASSUME NEW i \in 1..n
      PROVE  Nth(S, i) \in S /\ Rank(S, Nth(S, i)) = i
  <2>1. \E s \in S : f[s] = i
    BY <1>6 DEF Surjection
  <2>2. \E s \in S : Rank(S, s) = i
    BY <2>1
  <2>3. Nth(S, i) = CHOOSE s \in S : Rank(S, s) = i
    BY DEF Nth, Rank
  <2> QED BY <2>2, <2>3
<1>8. ASSUME NEW s \in S
      PROVE  \E i \in 1..n : Nth(S, i) = s
  <2> DEFINE i == Rank(S, s)
  <2>1. i \in 1..n
    BY <1>2
  <2>2. Nth(S, i) \in S /\ Rank(S, Nth(S, i)) = Rank(S, s)
    BY <1>7, <2>1
  <2>3. Nth(S, i) = s
    <3> HIDE DEF i
    <3> QED BY <1>4, <2>2
  <2> QED BY <2>1, <2>3
<1>9. ASSUME NEW i \in 1..n, NEW j \in 1..n, i < j
      PROVE  Nth(S, i) < Nth(S, j)
  <2> DEFINE a == Nth(S, i)
             b == Nth(S, j)
  <2>1. a \in S /\ b \in S /\ Rank(S, a) = i /\ Rank(S, b) = j
    BY <1>7
  <2> HIDE DEF a, b, n
  <2>2. ~(b < a) /\ a # b
    <3>1. b < a => Rank(S, b) < Rank(S, a)
      BY <1>3, <2>1
    <3> QED BY <1>1, <1>9, <2>1, <3>1
  <2>3. a \in Nat /\ b \in Nat
    BY <2>1
  <2> QED BY <2>2, <2>3 DEF a, b
<1> QED BY <1>1, <1>7, <1>8, <1>9

\* The run of lines that begins at s ends before the first line that is not in M.
LEMMA StopIs ==
    ASSUME NEW n \in Nat, NEW M \in SUBSET (1..n), NEW s \in M
    PROVE  /\ Stop(M, s) \in Nat /\ s <= Stop(M, s) /\ Stop(M, s) + 1 \notin M
           /\ \A x \in Nat : s <= x /\ x <= Stop(M, s) => x \in M
<1> DEFINE T == {k \in Nat : k >= s /\ k + 1 \notin M}
           E == {k \in M : k >= s /\ k + 1 \notin M}
<1>1. s \in Nat /\ s <= n
  OBVIOUS
<1>2. n \in T
  BY <1>1
<1>3. PICK t \in T : \A k \in T : t <= k
  <2>1. T \subseteq Nat /\ T # {}
    BY <1>2
  <2> HIDE DEF T
  <2> QED BY <2>1, Least
<1>4. ASSUME NEW x \in Nat, s <= x, x <= t
      PROVE  x \in M
  <2>1. CASE x = s
    BY <2>1
  <2>2. CASE x # s
    <3>1. x - 1 \in Nat /\ x - 1 >= s /\ ~(t <= x - 1) /\ (x - 1) + 1 = x
      BY <1>1, <1>3, <1>4, <2>2
    <3>2. x - 1 \notin T
      BY <1>3, <3>1
    <3> QED BY <3>1, <3>2
  <2> QED BY <2>1, <2>2
<1>5. t \in Nat /\ s <= t /\ t + 1 \notin M
  BY <1>3
<1>6. t \in E /\ \A k \in E : t <= k
  <2>1. t \in M
    BY <1>4, <1>5
  <2>2. E \subseteq T
    <3>1. M \subseteq Nat
      OBVIOUS
    <3> QED BY <3>1
  <2> QED BY <1>3, <1>5, <2>1, <2>2
<1>7. Stop(M, s) = CHOOSE x \in E : \A y \in E : x <= y
  BY DEF Stop, Min
<1>8. Stop(M, s) = t
  <2>1. \A x, y \in E : x \in Nat /\ y \in Nat
    OBVIOUS
  <2> HIDE DEF E
  <2>2. Stop(M, s) \in E /\ \A y \in E : Stop(M, s) <= y
    BY <1>6, <1>7
  <2> DEFINE u == Stop(M, s)
  <2>3. u \in Nat /\ t \in Nat /\ u <= t /\ t <= u
    BY <1>6, <2>1, <2>2
  <2> HIDE DEF u
  <2>4. u = t
    BY <2>3
  <2> QED BY <2>4 DEF u
<1> QED BY <1>4, <1>5, <1>8

\* Every line of M is in the run of one of the starts.
LEMMA StartBefore ==
    ASSUME NEW n \in Nat, NEW M \in SUBSET (1..n), NEW x \in M
    PROVE  \E s \in Starts(M) : s <= x /\ x <= Stop(M, s)
<1> DEFINE T == {k \in Nat : k <= x /\ \A y \in Nat : k <= y /\ y <= x => y \in M}
<1>1. x \in Nat
  OBVIOUS
<1>2. x \in T
  BY <1>1
<1>3. PICK s \in T : \A k \in T : s <= k
  <2>1. T \subseteq Nat /\ T # {}
    BY <1>2
  <2> HIDE DEF T
  <2> QED BY <2>1, Least
<1>4. s \in Nat /\ s <= x /\ s \in M /\ \A y \in Nat : s <= y /\ y <= x => y \in M
  BY <1>3
<1>5. s - 1 \notin M
  <2> SUFFICES ASSUME s - 1 \in M
               PROVE  FALSE
    OBVIOUS
  <2>1. s - 1 \in Nat
    OBVIOUS
  <2>2. ASSUME NEW y \in Nat, s - 1 <= y, y <= x
        PROVE  y \in M
    <3>1. y = s - 1 \/ s <= y
      BY <1>4, <2>1, <2>2
    <3> QED BY <1>4, <2>2, <3>1
  <2>3. s - 1 \in T
    BY <1>1, <1>4, <2>1, <2>2
  <2> QED BY <1>3, <1>4, <2>3
<1>6. x <= Stop(M, s)
  <2> DEFINE t == Stop(M, s)
  <2>1. t \in Nat /\ s <= t /\ t + 1 \notin M
    BY <1>4, StopIs
  <2> HIDE DEF t
  <2>2. ~(t < x)
    BY <1>1, <1>4, <2>1
  <2> QED BY <1>1, <2>1, <2>2 DEF t
<1> QED BY <1>4, <1>5, <1>6 DEF Starts

\* What ex_g_setup() builds waits for the lines that it found.
LEMMA RangesOfAwaits ==
    ASSUME NEW n \in Nat, NEW M \in SUBSET (1..n)
    PROVE  /\ RangesOf(M) \in Ranges /\ Awaits(RangesOf(M), M)
           /\ Cardinality(Slots(RangesOf(M))) = Cardinality(M) /\ Cardinality(M) \in Nat
<1> DEFINE S == Starts(M)
           m == Cardinality(S)
           rs == RangesOf(M)
<1>1. IsFiniteSet(M) /\ S \subseteq M /\ S \subseteq Nat /\ IsFiniteSet(S)
  <2>1. 1 \in Int /\ n \in Int
    OBVIOUS
  <2>2. IsFiniteSet(1..n)
    BY <2>1, FS_Interval
  <2>3. IsFiniteSet(M)
    BY <2>2, FS_Subset
  <2>4. S \subseteq M /\ M \subseteq Nat
    BY DEF Starts
  <2>5. IsFiniteSet(S)
    BY <2>3, <2>4, FS_Subset
  <2> QED BY <2>3, <2>4, <2>5
<1>2. /\ m \in Nat
      /\ \A i \in 1..m : Nth(S, i) \in S
      /\ \A s \in S : \E i \in 1..m : Nth(S, i) = s
      /\ \A i, j \in 1..m : i < j => Nth(S, i) < Nth(S, j)
  <2> HIDE DEF S
  <2> QED BY <1>1, NthIs
<1>3. rs = [i \in 1..m |-> [start |-> Nth(S, i), stop |-> Stop(M, Nth(S, i))]]
  BY DEF RangesOf
<1> HIDE DEF rs, m, S
<1>4. ASSUME NEW i \in 1..m
      PROVE  /\ rs[i] \in LineRange /\ rs[i].start = Nth(S, i) /\ rs[i].stop = Stop(M, Nth(S, i))
             /\ rs[i].start \in Nat /\ rs[i].stop \in Nat /\ rs[i].start \in S
  <2>1. Nth(S, i) \in S /\ Nth(S, i) \in M /\ Nth(S, i) \in Nat
    BY <1>1, <1>2
  <2>2. Stop(M, Nth(S, i)) \in Nat
    BY <2>1, StopIs
  <2> QED BY <1>3, <2>1, <2>2 DEF LineRange
<1>5. rs \in Ranges /\ Len(rs) = m
  <2>1. rs \in [1..m -> LineRange]
    BY <1>3, <1>4
  <2> QED BY <1>2, <2>1, FcnIsSeq DEF Ranges
<1>6. LinesOf(rs) = M
  <2>1. ASSUME NEW x \in LinesOf(rs)
        PROVE  x \in M
    <3>1. PICK i \in 1..m : x \in rs[i].start..rs[i].stop
      BY <1>5, LineIs
    <3>2. x \in Nat /\ Nth(S, i) <= x /\ x <= Stop(M, Nth(S, i)) /\ Nth(S, i) \in M
      BY <1>1, <1>4, <3>1
    <3> QED BY <3>2, StopIs
  <2>2. ASSUME NEW x \in M
        PROVE  x \in LinesOf(rs)
    <3>1. PICK s \in S : s <= x /\ x <= Stop(M, s)
      BY StartBefore DEF S
    <3>2. PICK i \in 1..m : Nth(S, i) = s
      BY <1>2
    <3>3. x \in rs[i].start..rs[i].stop
      BY <1>4, <3>1, <3>2
    <3> QED BY <1>5, <3>3, LineIs
  <2> QED BY <2>1, <2>2
<1>7. InOrder(rs)
  <2> SUFFICES ASSUME NEW i \in 1..m, NEW j \in 1..m, i < j
               PROVE  rs[i].stop < rs[j].start
    BY <1>5 DEF InOrder
  <2> DEFINE a == rs[i].start
             b == rs[j].start
             t == rs[i].stop
  <2>1. a < b
    BY <1>2, <1>4
  <2>2. a \in M /\ b \in Nat /\ a \in Nat /\ b - 1 \notin M /\ t = Stop(M, a) /\ t \in Nat
    BY <1>1, <1>4 DEF S, Starts
  <2>3. \A x \in Nat : a <= x /\ x <= t => x \in M
    <3> HIDE DEF a, t
    <3> QED BY <2>2, StopIs
  <2> HIDE DEF a, b, t
  <2>4. ~(b <= t)
    <3>1. b - 1 \in Nat /\ a <= b - 1
      BY <2>1, <2>2
    <3> QED BY <2>2, <2>3, <3>1
  <2>5. t < b
    BY <2>2, <2>4
  <2> QED BY <2>5 DEF b, t
<1>8. Cardinality(LinesOf(rs)) = Cardinality(Slots(rs))
  BY <1>5, <1>7, OrderedCount
<1>9. Cardinality(M) \in Nat
  BY <1>1, FS_CardinalityType
<1> QED BY <1>5, <1>6, <1>7, <1>8, <1>9 DEF Awaits, rs

-----------------------------------------------------------------------------
(* The ranges that are left                                                *)

\* Dropping the exhausted ranges in front drops no line.
LEMMA RemainingIs ==
    ASSUME NEW rs \in Ranges, Remaining(rs) # <<>>
    PROVE  LET q == Remaining(rs)
           IN  /\ q \in Ranges /\ Len(q) \in Nat \ {0} /\ Live(q[1])
               /\ LinesOf(q) = LinesOf(rs)
               /\ InOrder(rs) => InOrder(q)
               /\ Cardinality(Slots(q)) <= Cardinality(Slots(rs))
               /\ Len(rs) = 1 => q = rs
<1> DEFINE n == Len(rs)
           live == {i \in 1..n : Live(rs[i])}
           q == Remaining(rs)
<1>1. n \in Nat /\ \A i \in 1..n : rs[i].start \in Nat /\ rs[i].stop \in Nat
  BY RangeType
<1>2. live # {}
  BY DEF Remaining
<1>3. PICK m \in live : \A i \in live : m <= i
  <2>1. live \subseteq Nat
    OBVIOUS
  <2> HIDE DEF live
  <2> QED BY <1>2, <2>1, Least
<1>4. Min(live) = m
  <2>1. \A i \in live : i \in Nat
    OBVIOUS
  <2> HIDE DEF live
  <2>2. Min(live) \in live /\ \A y \in live : Min(live) <= y
    BY <1>3 DEF Min
  <2> DEFINE u == Min(live)
  <2>3. u \in Nat /\ m \in Nat /\ u <= m /\ m <= u
    BY <1>3, <2>1, <2>2
  <2> HIDE DEF u
  <2>4. u = m
    BY <2>3
  <2> QED BY <2>4 DEF u
<1>5. q = SubSeq(rs, m, n)
  BY <1>2, <1>4 DEF Remaining
<1>6. m \in 1..n /\ Live(rs[m]) /\ \A i \in 1..n : i < m => ~Live(rs[i])
  <2>1. m \in 1..n /\ Live(rs[m])
    BY <1>3
  <2>2. ASSUME NEW i \in 1..n, i < m
        PROVE  ~Live(rs[i])
    <3>1. ~(m <= i)
      BY <1>1, <2>1, <2>2
    <3> QED BY <1>3, <3>1
  <2> QED BY <2>1, <2>2
<1> HIDE DEF live, q
<1>7. /\ q \in Ranges /\ Len(q) = n - m + 1
      /\ \A i \in 1..(n - m + 1) : q[i] = rs[m + i - 1]
  <2>1. m \in Int /\ n \in Int /\ m <= n /\ \A i \in m..n : rs[i] \in LineRange
    BY <1>1, <1>6, RangeType
  <2> HIDE DEF n
  <2> QED BY <2>1, <1>5, SubSeqProperties DEF Ranges
<1>8. ASSUME NEW i \in 1..Len(q)
      PROVE  m + i - 1 \in 1..n /\ q[i] = rs[m + i - 1]
  BY <1>1, <1>6, <1>7, <1>8
<1>9. ASSUME NEW j \in 1..n, m <= j
      PROVE  j - m + 1 \in 1..Len(q) /\ q[j - m + 1] = rs[j]
  <2> DEFINE i == j - m + 1
  <2>1. i \in 1..(n - m + 1) /\ m + i - 1 = j
    BY <1>1, <1>6, <1>9
  <2> HIDE DEF i
  <2> QED BY <2>1, <1>7 DEF i
<1>10. Len(q) \in Nat \ {0} /\ Live(q[1])
  <2>1. m - m + 1 = 1 /\ m <= m
    BY <1>6
  <2>2. 1 \in 1..Len(q) /\ q[1] = rs[m]
    BY <1>6, <1>9, <2>1
  <2>3. Len(q) \in Nat \ {0}
    BY <1>1, <1>6, <1>7
  <2> QED BY <1>6, <2>2, <2>3
<1>11. LinesOf(q) = LinesOf(rs)
  <2>1. ASSUME NEW x \in LinesOf(q)
        PROVE  x \in LinesOf(rs)
    <3>1. PICK i \in 1..Len(q) : x \in q[i].start..q[i].stop
      BY LineIs
    <3> QED BY <1>8, <3>1, LineIs
  <2>2. ASSUME NEW x \in LinesOf(rs)
        PROVE  x \in LinesOf(q)
    <3>1. PICK j \in 1..n : x \in rs[j].start..rs[j].stop
      BY LineIs
    <3>2. Live(rs[j])
      BY <1>1, <3>1 DEF Live
    <3>3. m <= j
      BY <1>1, <1>6, <3>2
    <3> QED BY <1>9, <3>1, <3>3, LineIs
  <2> QED BY <2>1, <2>2
<1>12. ASSUME InOrder(rs)
       PROVE  InOrder(q)
  <2> SUFFICES ASSUME NEW i \in 1..Len(q), NEW j \in 1..Len(q), i < j, Live(q[i]), Live(q[j])
               PROVE  q[i].stop < q[j].start
    BY DEF InOrder
  <2>1. m + i - 1 \in 1..n /\ m + j - 1 \in 1..n /\ m + i - 1 < m + j - 1
    BY <1>6, <1>8
  <2>2. q[i] = rs[m + i - 1] /\ q[j] = rs[m + j - 1]
    BY <1>8
  <2> QED BY <1>12, <2>1, <2>2 DEF InOrder
<1>13. Cardinality(Slots(q)) <= Cardinality(Slots(rs))
  <2> DEFINE a == SubSeq(rs, 1, m - 1)
  <2>1. 1 \in 1..(n + 1) /\ m - 1 \in 0..n /\ n \in (m - 1)..n /\ (m - 1) + 1 = m /\ 1 - 1 = 0
    BY <1>1, <1>6
  <2>2. a \o SubSeq(rs, m, n) = SubSeq(rs, 1, n)
    BY <2>1, ConcatAdjacentSubSeq DEF Ranges
  <2>3. SubSeq(rs, 1, n) = rs
    BY SubSeqFull DEF Ranges
  <2>4. a \in Ranges
    <3>1. 1 \in Int /\ m - 1 \in Int
      BY <1>6
    <3>2. \A i \in 1..(m - 1) : rs[i] \in LineRange
      BY <1>1, <1>6, RangeType
    <3> QED BY <3>1, <3>2, SubSeqProperties DEF Ranges
  <2> HIDE DEF a
  <2>5. Cardinality(Slots(rs)) = Cardinality(Slots(a)) + Cardinality(Slots(q))
    <3>1. a \o q = rs
      BY <1>5, <2>2, <2>3
    <3>2. q \in Ranges
      BY <1>7
    <3>3. Cardinality(Slots(a \o q)) = Cardinality(Slots(a)) + Cardinality(Slots(q))
      BY <2>4, <3>2, SlotsConcat
    <3> QED BY <3>1, <3>3
  <2>6. Cardinality(Slots(a)) \in Nat /\ Cardinality(Slots(q)) \in Nat
    BY <1>7, <2>4, SlotsFinite
  <2> QED BY <2>5, <2>6
<1>14. ASSUME n = 1
       PROVE  q = rs
  <2>1. m = 1
    BY <1>6, <1>14
  <2> QED BY <1>5, <1>14, <2>1, SubSeqFull DEF Ranges
<1> QED BY <1>7, <1>10, <1>11, <1>12, <1>13, <1>14 DEF q

\* The ranges without the line that is run next.
UsedUp(q) == [q EXCEPT ![1].start = @ + 1]

LEMMA UsedUpIs ==
    ASSUME NEW q \in Ranges, Len(q) \in Nat \ {0}, Live(q[1])
    PROVE  LET p == UsedUp(q)
           IN  /\ p \in Ranges /\ Len(p) = Len(q)
               /\ p[1].start = q[1].start + 1 /\ p[1].stop = q[1].stop
               /\ \A i \in 1..Len(q) : i # 1 => p[i] = q[i]
<1> DEFINE p == UsedUp(q)
           n == Len(q)
           r == [start |-> q[1].start + 1, stop |-> q[1].stop]
<1>1. n \in Nat /\ 1 \in 1..n /\ q \in [1..n -> LineRange]
  BY LenProperties DEF Ranges
<1>2. q[1] \in LineRange /\ q[1].start \in Nat /\ q[1].stop \in Nat
  BY <1>1, RangeType
<1>3. r \in LineRange /\ r.start = q[1].start + 1 /\ r.stop = q[1].stop
  BY <1>2 DEF LineRange
<1>4. [q[1] EXCEPT !.start = q[1].start + 1] = r
  BY <1>2 DEF LineRange
<1>5. p = [q EXCEPT ![1] = r]
  BY <1>4 DEF UsedUp
<1> HIDE DEF p, r
<1>6. p \in [1..n -> LineRange] /\ p[1] = r /\ \A i \in 1..n : i # 1 => p[i] = q[i]
  BY <1>1, <1>3, <1>5
<1>7. p \in Ranges /\ Len(p) = n
  BY <1>1, <1>6, FcnIsSeq DEF Ranges
<1> QED BY <1>3, <1>6, <1>7 DEF p

LEMMA UsedUpSlots ==
    ASSUME NEW q \in Ranges, Len(q) \in Nat \ {0}, Live(q[1])
    PROVE  /\ Cardinality(Slots(UsedUp(q))) = Cardinality(Slots(q)) - 1
           /\ Cardinality(Slots(q)) \in Nat \ {0}
<1> DEFINE p == UsedUp(q)
           n == Len(q)
           s == q[1].start
<1>1. /\ p \in Ranges /\ Len(p) = n /\ p[1].start = s + 1 /\ p[1].stop = q[1].stop
      /\ \A i \in 1..n : i # 1 => p[i] = q[i]
  BY UsedUpIs
<1>2. 1 \in 1..n /\ \A i \in 1..n : q[i].start \in Nat /\ q[i].stop \in Nat
  BY RangeType
<1> HIDE DEF p
<1>3. ASSUME NEW i \in 1..n, NEW k
      PROVE  k \in p[i].start..p[i].stop <=> k \in q[i].start..q[i].stop /\ <<i, k>> # <<1, s>>
  <2>1. CASE i = 1
    <3>1. k \in (s + 1)..q[1].stop <=> k \in s..q[1].stop /\ k # s
      BY <1>2
    <3> QED BY <1>1, <2>1, <3>1
  <2>2. CASE i # 1
    BY <1>1, <2>2
  <2> QED BY <2>1, <2>2
<1>4. Slots(p) = Slots(q) \ {<<1, s>>}
  <2>1. ASSUME NEW x \in Slots(p)
        PROVE  x \in Slots(q) /\ x # <<1, s>>
    <3>1. PICK i, k : i \in 1..n /\ k \in p[i].start..p[i].stop /\ x = <<i, k>>
      BY <1>1, SlotIs
    <3> HIDE DEF s
    <3> QED BY <1>3, <3>1, SlotPair
  <2>2. ASSUME NEW x \in Slots(q), x # <<1, s>>
        PROVE  x \in Slots(p)
    <3>1. PICK i, k : i \in 1..n /\ k \in q[i].start..q[i].stop /\ x = <<i, k>>
      BY SlotIs
    <3> HIDE DEF s
    <3> QED BY <1>1, <1>3, <2>2, <3>1, SlotPair
  <2> QED BY <2>1, <2>2
<1>5. <<1, s>> \in Slots(q)
  <2>1. s \in q[1].start..q[1].stop
    BY <1>2 DEF Live
  <2> QED BY <1>2, <2>1, SlotPair
<1>6. IsFiniteSet(Slots(q)) /\ Cardinality(Slots(q)) \in Nat
  BY SlotsFinite
<1>7. Cardinality(Slots(p)) = Cardinality(Slots(q)) - 1
  <2> HIDE DEF s
  <2> QED BY <1>4, <1>5, <1>6, FS_RemoveElement
<1>8. Cardinality(Slots(q)) # 0
  BY <1>5, <1>6, FS_EmptySet
<1> QED BY <1>6, <1>7, <1>8 DEF p

LEMMA UsedUpAwaits ==
    ASSUME NEW q \in Ranges, Len(q) \in Nat \ {0}, Live(q[1]), InOrder(q)
    PROVE  /\ Awaits(UsedUp(q), LinesOf(q) \ {q[1].start})
           /\ q[1].start \in LinesOf(q)
<1> DEFINE p == UsedUp(q)
           n == Len(q)
           s == q[1].start
<1>1. /\ p \in Ranges /\ Len(p) = n /\ p[1].start = s + 1 /\ p[1].stop = q[1].stop
      /\ \A i \in 1..n : i # 1 => p[i] = q[i]
  BY UsedUpIs
<1>2. 1 \in 1..n /\ n \in Nat /\ \A i \in 1..n : q[i].start \in Nat /\ q[i].stop \in Nat
  BY RangeType
<1> HIDE DEF p
<1>3. ASSUME NEW i \in 1..n, NEW k
      PROVE  k \in p[i].start..p[i].stop <=> k \in q[i].start..q[i].stop /\ k # s
  <2>1. CASE i = 1
    <3>1. k \in (s + 1)..q[1].stop <=> k \in s..q[1].stop /\ k # s
      BY <1>2
    <3> QED BY <1>1, <2>1, <3>1
  <2>2. CASE i # 1
    <3>1. ASSUME k \in q[i].start..q[i].stop
          PROVE  k # s
      <4>1. q[i].start <= q[i].stop /\ q[i].start <= k
        BY <1>2, <3>1
      <4>2. q[1].stop < q[i].start
        <5>1. 1 < i
          BY <1>2, <2>2
        <5> QED BY <1>2, <4>1, <5>1 DEF InOrder, Live
      <4>3. s <= q[1].stop
        BY DEF Live
      <4> QED BY <1>2, <3>1, <4>1, <4>2, <4>3
    <3> QED BY <1>1, <2>2, <3>1
  <2> QED BY <2>1, <2>2
<1>4. LinesOf(p) = LinesOf(q) \ {s}
  <2>1. ASSUME NEW x
        PROVE  x \in LinesOf(p) <=> x \in LinesOf(q) /\ x # s
    <3>1. x \in LinesOf(p) <=> \E i \in 1..n : x \in p[i].start..p[i].stop
      BY <1>1, LineIs
    <3>2. x \in LinesOf(q) <=> \E i \in 1..n : x \in q[i].start..q[i].stop
      BY LineIs
    <3> HIDE DEF s
    <3> QED BY <1>3, <3>1, <3>2
  <2> QED BY <2>1
<1>5. InOrder(p)
  <2> SUFFICES ASSUME NEW i \in 1..n, NEW j \in 1..n, i < j,
                      p[i].start <= p[i].stop, p[j].start <= p[j].stop
               PROVE  p[i].stop < p[j].start
    BY <1>1 DEF InOrder, Live
  <2>1. j # 1 /\ p[j] = q[j]
    BY <1>1, <1>2
  <2>2. q[i].start <= q[i].stop /\ p[i].stop = q[i].stop
    BY <1>1, <1>2
  <2> QED BY <2>1, <2>2 DEF InOrder, Live
<1>6. s \in LinesOf(q)
  <2>1. s \in q[1].start..q[1].stop
    BY <1>2 DEF Live
  <2> QED BY <1>2, <2>1, LineIs
<1> QED BY <1>4, <1>5, <1>6 DEF Awaits, p

-----------------------------------------------------------------------------
(* The lines a command is due on                                           *)

LEMMA LinesIn ==
    ASSUME NEW f \in Seq(SUBSET Place)
    PROVE  Len(f) \in Nat /\ \A k \in 1..Len(f) : f[k] \in SUBSET Place
  BY LenProperties, ElementOf

LEMMA DueIs ==
    ASSUME NEW f \in Seq(SUBSET Place), NEW d \in Place, NEW M
    PROVE  /\ Due(f, d, M) \in Seq(SUBSET Place) /\ Len(Due(f, d, M)) = Len(f)
           /\ OwedOf(Due(f, d, M), d) = M \cap 1..Len(f)
           /\ \A e : e # d => OwedOf(Due(f, d, M), e) = OwedOf(f, e)
<1> DEFINE n == Len(f)
           g == Due(f, d, M)
<1>1. n \in Nat /\ \A k \in 1..n : f[k] \in SUBSET Place
  BY LinesIn
<1>2. g = [k \in 1..n |-> IF k \in M THEN f[k] \cup {d} ELSE f[k] \ {d}]
  BY DEF Due
<1> HIDE DEF n, g
<1>3. g \in [1..n -> SUBSET Place]
  <2>1. ASSUME NEW k \in 1..n
        PROVE  (IF k \in M THEN f[k] \cup {d} ELSE f[k] \ {d}) \in SUBSET Place
    BY <1>1
  <2> QED BY <1>2, <2>1
<1>4. g \in Seq(SUBSET Place) /\ Len(g) = n
  BY <1>1, <1>3, FcnIsSeq
<1>5. \A k \in 1..n : g[k] = IF k \in M THEN f[k] \cup {d} ELSE f[k] \ {d}
  BY <1>2
<1>6. OwedOf(g, d) = M \cap 1..n
  BY <1>4, <1>5 DEF OwedOf
<1>7. ASSUME NEW e, e # d
      PROVE  OwedOf(g, e) = OwedOf(f, e)
  BY <1>4, <1>5, <1>7 DEF OwedOf, n
<1> QED BY <1>4, <1>6, <1>7 DEF n, g

\* When line k goes, the lines due go with the others.
LEMMA DeleteOwed ==
    ASSUME NEW f \in Seq(SUBSET Place), NEW k \in 1..Len(f), NEW d
    PROVE  /\ RecDelete(f, k) \in Seq(SUBSET Place)
           /\ OwedOf(RecDelete(f, k), d) = Deleted(OwedOf(f, d), k)
<1> DEFINE n == Len(f)
           g == RecDelete(f, k)
<1>1. n \in Nat
  BY LinesIn
<1>2. g \in Seq(SUBSET Place) /\ Len(g) = n - 1
  BY DeleteType
<1>3. \A i \in 1..(n - 1) : g[i] = IF i < k THEN f[i] ELSE f[i + 1]
  BY DEF RecDelete
<1> HIDE DEF g, n
<1>4. k \in 1..n
  BY DEF n
<1>5. ASSUME NEW x \in Nat
      PROVE  x \in OwedOf(g, d) <=> IF x < k THEN x \in OwedOf(f, d) ELSE x + 1 \in OwedOf(f, d)
  <2>1. x \in OwedOf(g, d) <=> x \in 1..(n - 1) /\ d \in g[x]
    BY <1>2 DEF OwedOf
  <2>2. \A y : y \in OwedOf(f, d) <=> y \in 1..n /\ d \in f[y]
    BY DEF OwedOf, n
  <2>3. CASE x < k
    <3>1. x \in 1..(n - 1) <=> x \in 1..n
      BY <1>1, <1>4, <2>3
    <3> QED BY <1>3, <2>1, <2>2, <2>3, <3>1
  <2>4. CASE ~(x < k)
    <3>1. x \in 1..(n - 1) <=> x + 1 \in 1..n
      BY <1>1, <1>4, <2>4
    <3> QED BY <1>3, <2>1, <2>2, <2>4, <3>1
  <2> QED BY <2>3, <2>4
<1>6. OwedOf(g, d) \subseteq Nat
  BY DEF OwedOf
<1>7. OwedOf(g, d) = Deleted(OwedOf(f, d), k)
  BY <1>5, <1>6 DEF Deleted
<1> QED BY <1>2, <1>7 DEF g

\* Nobody is due on a new line.
LEMMA InsertOwed ==
    ASSUME NEW f \in Seq(SUBSET Place), NEW k \in 1..(Len(f) + 1), NEW d
    PROVE  /\ RecInsert(f, k, {}) \in Seq(SUBSET Place)
           /\ OwedOf(RecInsert(f, k, {}), d) = Inserted(OwedOf(f, d), k)
<1> DEFINE n == Len(f)
           g == RecInsert(f, k, {})
<1>1. n \in Nat
  BY LinesIn
<1>2. g \in Seq(SUBSET Place) /\ Len(g) = n + 1
  <2>1. {} \in SUBSET Place
    OBVIOUS
  <2> QED BY <2>1, InsertType
<1>3. \A i \in 1..(n + 1) : g[i] = IF i < k THEN f[i] ELSE IF i = k THEN {} ELSE f[i - 1]
  BY DEF RecInsert
<1> HIDE DEF g, n
<1>4. k \in 1..(n + 1)
  BY DEF n
<1>5. ASSUME NEW x \in Nat
      PROVE  x \in OwedOf(g, d) <=>
               IF x < k THEN x \in OwedOf(f, d) ELSE x > k /\ x - 1 \in OwedOf(f, d)
  <2>1. x \in OwedOf(g, d) <=> x \in 1..(n + 1) /\ d \in g[x]
    BY <1>2 DEF OwedOf
  <2>2. \A y : y \in OwedOf(f, d) <=> y \in 1..n /\ d \in f[y]
    BY DEF OwedOf, n
  <2>3. CASE x < k
    <3>1. x \in 1..(n + 1) <=> x \in 1..n
      BY <1>1, <1>4, <2>3
    <3>2. x \in 1..(n + 1) => g[x] = f[x]
      BY <1>3, <2>3
    <3> QED BY <2>1, <2>2, <2>3, <3>1, <3>2
  <2>4. CASE x = k
    <3>1. x \in 1..(n + 1) /\ ~(x < k) /\ ~(x > k)
      BY <1>1, <1>4, <2>4
    <3>2. g[x] = {}
      BY <1>3, <2>4, <3>1
    <3> QED BY <2>1, <3>1, <3>2
  <2>5. CASE x > k
    <3>1. (x \in 1..(n + 1) <=> x - 1 \in 1..n) /\ ~(x < k) /\ x # k
      BY <1>1, <1>4, <2>5
    <3>2. x \in 1..(n + 1) => g[x] = f[x - 1]
      BY <1>3, <3>1
    <3> QED BY <2>1, <2>2, <2>5, <3>1, <3>2
  <2> QED BY <1>4, <2>3, <2>4, <2>5
<1>6. OwedOf(g, d) \subseteq Nat
  BY DEF OwedOf
<1>7. OwedOf(g, d) = Inserted(OwedOf(f, d), k)
  BY <1>5, <1>6 DEF Inserted
<1> QED BY <1>2, <1>7 DEF g

-----------------------------------------------------------------------------
(* The command stack                                                       *)

LEMMA FrameType ==
    ASSUME NEW fr \in Frame
    PROVE  /\ fr.kind \in Kind /\ fr.ranges \in Ranges /\ fr.range_lno \in Nat
           /\ fr.left \in Nat /\ fr.quota \in Nat
  BY DEF Frame, Ranges, LineRange

LEMMA NewFrame ==
    ASSUME NEW kind \in Kind, NEW rs \in Ranges, NEW l \in Nat, NEW n \in Nat, NEW q \in Nat
    PROVE  LET fr == [kind |-> kind, ranges |-> rs, range_lno |-> l, left |-> n, quota |-> q]
           IN  /\ fr \in Frame /\ fr.kind = kind /\ fr.ranges = rs /\ fr.left = n
               /\ fr.quota = q
  BY DEF Frame, Ranges, LineRange

\* A command as it was, in a file in which it is due on the same lines.
LEMMA StillSettled ==
    ASSUME NEW fr, NEW d, NEW f, NEW g, NEW lost, NEW more, Settled(fr, d, f, lost),
           OwedOf(g, d) = OwedOf(f, d), more = {} => lost = {}
    PROVE  Settled(fr, d, g, more)
  BY DEF Settled

\* A command that differs in no more than range_lno and what is left to parse.
LEMMA SameSettled ==
    ASSUME NEW fr, NEW gr \in Frame, NEW d, NEW f, NEW lost, Settled(fr, d, f, lost),
           gr.kind = fr.kind, gr.ranges = fr.ranges, gr.quota = fr.quota
    PROVE  Settled(gr, d, f, lost)
  BY DEF Settled

\* Only the line the user typed is on the stack.
LEMMA BaseSettled ==
    ASSUME NEW n \in Nat, NEW f, NEW lost
    PROVE  /\ Base(n) \in Frame /\ Base(n).kind = "line" /\ Settled(Base(n), 1, f, lost)
           /\ <<Base(n)>> \in Seq(Frame) /\ Len(<<Base(n)>>) = 1 /\ <<Base(n)>>[1] = Base(n)
           /\ 1 \in Place
<1> DEFINE b == Base(n)
<1>1. b \in Frame /\ b.kind = "line"
  <2>1. "line" \in Kind /\ <<>> \in Ranges /\ OOBLNO \in Nat /\ 0 \in Nat
    BY DEF Kind, Ranges, OOBLNO
  <2> QED BY <2>1, NewFrame DEF Base
<1> HIDE DEF b
<1>2. Settled(b, 1, f, lost)
  BY <1>1 DEF Settled, Kept
<1>3. <<b>> \in Seq(Frame) /\ Len(<<b>>) = 1 /\ <<b>>[1] = b
  BY <1>1
<1>4. 1 \in Place
  BY BoundAssumption DEF Place
<1> QED BY <1>1, <1>2, <1>3, <1>4 DEF b

\* Every line of a file that nobody is due on.
LEMMA Blank ==
    ASSUME NEW n \in Nat
    PROVE  [k \in 1..n |-> {}] \in Seq(SUBSET Place) /\ Len([k \in 1..n |-> {}]) = n
<1> DEFINE f == [k \in 1..n |-> {}]
<1>1. f \in [1..n -> SUBSET Place]
  OBVIOUS
<1> HIDE DEF f
<1> QED BY <1>1, FcnIsSeq DEF f

-----------------------------------------------------------------------------
(* ex_g_insdel() on the stack                                              *)

Moved(op, rs, k) == IF op = "DELETE" THEN DeleteInRanges(rs, k) ELSE InsertInRanges(rs, k)

MovedTo(fr, rs, k) == [fr EXCEPT !.ranges = rs, !.range_lno = k]

LEMMA MovedFrame ==
    ASSUME NEW fr \in Frame, NEW rs \in Ranges, NEW k \in Nat
    PROVE  LET gr == MovedTo(fr, rs, k)
           IN  /\ gr \in Frame /\ gr.ranges = rs /\ gr.kind = fr.kind /\ gr.quota = fr.quota
               /\ gr.left = fr.left
<1> DEFINE gr == [fr EXCEPT !.ranges = rs, !.range_lno = k]
<1>1. fr \in [kind : Kind, ranges : Ranges, range_lno : Nat, left : Nat, quota : Nat]
  BY DEF Frame, Ranges, LineRange
<1>2. gr \in [kind : Kind, ranges : Ranges, range_lno : Nat, left : Nat, quota : Nat]
  BY <1>1
<1>3. gr.ranges = rs /\ gr.kind = fr.kind
  BY <1>1
<1>4. gr.quota = fr.quota /\ gr.left = fr.left
  BY <1>1
<1>5. gr \in Frame
  BY <1>2 DEF Frame, Ranges, LineRange
<1> QED BY <1>3, <1>4, <1>5 DEF MovedTo

LEMMA InsDelIs ==
    ASSUME Frames, NEW op, NEW k \in Nat \ {0}
    PROVE  LET st == InsDel(op, k)
           IN  /\ st \in Seq(Frame) /\ Len(st) = Depth
               /\ \A d \in 1..Depth :
                    /\ st[d] \in Frame /\ st[d].kind = stack[d].kind
                    /\ st[d].quota = stack[d].quota /\ st[d].left = stack[d].left
                    /\ st[d].ranges = IF stack[d].kind \in Kept THEN Moved(op, stack[d].ranges, k)
                                      ELSE stack[d].ranges
<1> DEFINE st == InsDel(op, k)
           gr(d) == MovedTo(stack[d], Moved(op, stack[d].ranges, k), k)
<1>1. Depth \in Nat /\ \A d \in 1..Depth : stack[d] \in Frame
  BY LenProperties, ElementOf DEF Frames, Depth
<1>2. st = [d \in 1..Depth |-> IF stack[d].kind \in Kept THEN gr(d) ELSE stack[d]]
  BY DEF InsDel, Moved, MovedTo
<1>3. ASSUME NEW d \in 1..Depth
      PROVE  /\ gr(d) \in Frame /\ gr(d).ranges = Moved(op, stack[d].ranges, k)
             /\ gr(d).kind = stack[d].kind /\ gr(d).quota = stack[d].quota
             /\ gr(d).left = stack[d].left
  <2> DEFINE rs == Moved(op, stack[d].ranges, k)
  <2>1. stack[d] \in Frame /\ stack[d].ranges \in Ranges
    BY <1>1, FrameType
  <2>2. rs \in Ranges
    BY <2>1, DeleteIs, InsertSlots DEF Moved
  <2> HIDE DEF rs
  <2>3. k \in Nat
    OBVIOUS
  <2>5. LET g == MovedTo(stack[d], rs, k)
        IN  /\ g \in Frame /\ g.ranges = rs /\ g.kind = stack[d].kind /\ g.quota = stack[d].quota
            /\ g.left = stack[d].left
    BY <2>1, <2>2, <2>3, MovedFrame
  <2> QED BY <2>5 DEF rs
<1> HIDE DEF gr, st
<1>4. \A d \in 1..Depth : st[d] = IF stack[d].kind \in Kept THEN gr(d) ELSE stack[d]
  BY <1>2
<1>5. st \in [1..Depth -> Frame]
  BY <1>1, <1>2, <1>3
<1>6. st \in Seq(Frame) /\ Len(st) = Depth
  BY <1>1, <1>5, FcnIsSeq
<1> QED BY <1>1, <1>3, <1>4, <1>6 DEF st

\* A command stays in step when line k goes, unless one of its ranges began there.
LEMMA DeleteSettled ==
    ASSUME NEW f \in Seq(SUBSET Place), NEW k \in 1..Len(f), NEW d, NEW lost, NEW more,
           NEW fr, NEW gr \in Frame, Settled(fr, d, f, lost),
           gr.kind = fr.kind, gr.quota = fr.quota,
           gr.ranges = IF fr.kind \in Kept THEN DeleteInRanges(fr.ranges, k) ELSE fr.ranges,
           more = {} => lost = {},
           more = {} /\ fr.kind \in Kept =>
             \A i \in 1..Len(fr.ranges) : ~(Live(fr.ranges[i]) /\ fr.ranges[i].start = k)
    PROVE  Settled(gr, d, RecDelete(f, k), more)
<1>1. fr \in Frame /\ fr.ranges \in Ranges /\ gr.ranges \in Ranges /\ fr.quota \in Nat /\ k \in Nat \ {0}
  <2>1. Len(f) \in Nat
    BY LinesIn
  <2> QED BY <2>1, FrameType DEF Settled
<1>2. gr.kind = "line" <=> d = 1
  BY DEF Settled
<1>3. ASSUME d # 1
      PROVE  Cardinality(Slots(gr.ranges)) <= gr.quota
  <2>1. Cardinality(Slots(fr.ranges)) <= fr.quota
    BY <1>3 DEF Settled
  <2>2. Cardinality(Slots(gr.ranges)) <= Cardinality(Slots(fr.ranges))
        \/ gr.ranges = fr.ranges
    BY <1>1, DeleteSlots
  <2>3. Cardinality(Slots(gr.ranges)) \in Nat /\ Cardinality(Slots(fr.ranges)) \in Nat
    BY <1>1, SlotsFinite
  <2>4. CASE gr.ranges = fr.ranges
    BY <2>1, <2>4
  <2>5. CASE Cardinality(Slots(gr.ranges)) <= Cardinality(Slots(fr.ranges))
    BY <1>1, <2>1, <2>3, <2>5
  <2> QED BY <2>2, <2>4, <2>5
<1>4. ASSUME more = {}, gr.kind \in Kept
      PROVE  Awaits(gr.ranges, OwedOf(RecDelete(f, k), d))
  <2>1. Awaits(fr.ranges, OwedOf(f, d))
    BY <1>4 DEF Settled
  <2>2. Awaits(DeleteInRanges(fr.ranges, k), Deleted(OwedOf(f, d), k))
    BY <1>1, <1>4, <2>1, DeleteAwaits
  <2>3. OwedOf(RecDelete(f, k), d) = Deleted(OwedOf(f, d), k)
    BY DeleteOwed
  <2>4. gr.ranges = DeleteInRanges(fr.ranges, k)
    BY <1>4
  <2> QED BY <2>2, <2>3, <2>4
<1> QED BY <1>2, <1>3, <1>4 DEF Settled

\* A command stays in step when line k is new, unless it is inside one of its ranges.
LEMMA InsertSettled ==
    ASSUME NEW f \in Seq(SUBSET Place), NEW k \in 1..(Len(f) + 1), NEW d, NEW lost, NEW more,
           NEW fr, NEW gr \in Frame, Settled(fr, d, f, lost),
           gr.kind = fr.kind, gr.quota = fr.quota,
           gr.ranges = IF fr.kind \in Kept THEN InsertInRanges(fr.ranges, k) ELSE fr.ranges,
           more = {} => lost = {},
           more = {} /\ fr.kind \in Kept =>
             \A i \in 1..Len(fr.ranges) : ~(fr.ranges[i].start < k /\ k <= fr.ranges[i].stop)
    PROVE  Settled(gr, d, RecInsert(f, k, {}), more)
<1>1. fr \in Frame /\ fr.ranges \in Ranges /\ gr.ranges \in Ranges /\ k \in Nat \ {0}
  <2>1. Len(f) \in Nat
    BY LinesIn
  <2> QED BY <2>1, FrameType DEF Settled
<1>2. gr.kind = "line" <=> d = 1
  BY DEF Settled
<1>3. ASSUME d # 1
      PROVE  Cardinality(Slots(gr.ranges)) <= gr.quota
  <2>1. Cardinality(Slots(fr.ranges)) <= fr.quota
    BY <1>3 DEF Settled
  <2>2. Cardinality(Slots(gr.ranges)) = Cardinality(Slots(fr.ranges))
    BY <1>1, InsertSlots
  <2> QED BY <2>1, <2>2
<1>4. ASSUME more = {}, gr.kind \in Kept
      PROVE  Awaits(gr.ranges, OwedOf(RecInsert(f, k, {}), d))
  <2>1. Awaits(fr.ranges, OwedOf(f, d))
    BY <1>4 DEF Settled
  <2>2. Awaits(InsertInRanges(fr.ranges, k), Inserted(OwedOf(f, d), k))
    BY <1>1, <1>4, <2>1, InsertAwaits
  <2>3. OwedOf(RecInsert(f, k, {}), d) = Inserted(OwedOf(f, d), k)
    BY InsertOwed
  <2>4. gr.ranges = InsertInRanges(fr.ranges, k)
    BY <1>4
  <2> QED BY <2>2, <2>3, <2>4
<1> QED BY <1>2, <1>3, <1>4 DEF Settled

-----------------------------------------------------------------------------
(* Steps                                                                   *)

\* What the invariant says of the stack and the file.
LEMMA Facts ==
    ASSUME IInv
    PROVE  /\ Depth \in Nat \ {0} /\ Depth \in Place /\ Top = stack[Depth] /\ Top \in Frame
           /\ Top.ranges \in Ranges /\ Top.quota \in Nat /\ Top.left \in Nat
           /\ \A d \in 1..Depth : stack[d] \in Frame /\ Settled(stack[d], d, file, slips)
                                  /\ (stack[d].kind = "line" <=> d = 1)
           /\ file \in Seq(SUBSET Place) /\ Len(file) \in Nat /\ stack \in Seq(Frame)
           /\ Len(stack) = Depth /\ ValidLine(file) \subseteq Nat /\ MaxDepth \in Nat
<1>1. Depth \in Place /\ stack \in Seq(Frame) /\ Len(stack) = Depth
      /\ \A d \in 1..Depth : Settled(stack[d], d, file, slips)
  BY DEF IInv, Frames, Depth
<1>2. MaxDepth \in Nat /\ Depth \in Nat \ {0}
  BY <1>1, BoundAssumption DEF Place
<1>3. Depth \in 1..Depth
  BY <1>2
<1>4. \A d \in 1..Depth : stack[d] \in Frame /\ (stack[d].kind = "line" <=> d = 1)
  BY <1>1 DEF Settled
<1>5. Top = stack[Depth]
  BY DEF Top, Last, Depth
<1>6. file \in Seq(SUBSET Place) /\ Len(file) \in Nat
  BY LinesIn DEF IInv, Session
<1>7. ValidLine(file) \subseteq Nat
  BY DEF ValidLine
<1>8. Top \in Frame
  BY <1>3, <1>4, <1>5
<1>9. Top.ranges \in Ranges /\ Top.quota \in Nat /\ Top.left \in Nat
  BY <1>8, FrameType
<1> QED BY <1>1, <1>2, <1>4, <1>5, <1>6, <1>7, <1>8, <1>9

Spent(fr) == \A i \in 1..Len(fr.ranges) : ~Live(fr.ranges[i])

\* While a command runs, no @ without addresses is still to be run.
LEMMA RunningSpent ==
    ASSUME AllFresh, running
    PROVE  \A d \in 1..Depth : stack[d].kind = "at_norange" => Spent(stack[d])
  BY DEF AllFresh, Fresh, Spent

\* The stack after a step has the commands that it had: place for place.
SameStack ==
    /\ Depth' = Depth
    /\ \A d \in 1..Depth : stack'[d].kind = stack[d].kind
    /\ \A d \in 1..Depth : stack[d].kind \notin Kept => stack'[d].ranges = stack[d].ranges

LEMMA SameStackFlag ==
    ASSUME FlagMeansGlobal, SameStack, inglobal' = inglobal
    PROVE  FlagMeansGlobal'
  BY DEF FlagMeansGlobal, SameStack

LEMMA SameStackFresh ==
    ASSUME AllFresh, SameStack, running
    PROVE  AllFresh'
<1> SUFFICES ASSUME NEW d \in 1..Depth', stack'[d].kind = "at_norange"
             PROVE  \A i \in 1..Len(stack'[d].ranges) : ~Live(stack'[d].ranges[i])
  BY DEF AllFresh, Fresh
<1>1. d \in 1..Depth /\ stack[d].kind = "at_norange" /\ stack[d].kind \notin Kept
  BY DEF SameStack, Kept
<1>2. stack'[d].ranges = stack[d].ranges
  BY <1>1 DEF SameStack
<1>3. Spent(stack[d])
  BY <1>1, RunningSpent
<1> QED BY <1>2, <1>3 DEF Spent

LEMMA SameFrames ==
    ASSUME Frames, stack' = stack, file' = file, slips' = slips
    PROVE  Frames' /\ SameStack
  BY DEF Frames, SameStack, Depth

LEMMA DoneStep ==
    ASSUME IInv, NEW l, Done(l)
    PROVE  IInv'
<1>1. Session'
  <2>1. l \in Nat
    BY Facts DEF Done, IInv, Session
  <2>2. 0 \in 0..MaxEdits
    BY BoundAssumption
  <2>3. slips = {} => l \in ValidLine(file)
    BY DEF Done, IInv, Session
  <2> QED BY <2>1, <2>2, <2>3 DEF Done, IInv, Session
<1>2. Frames' /\ SameStack
  BY SameFrames DEF Done, IInv
<1>3. AllFresh' /\ FlagMeansGlobal'
  BY <1>2, SameStackFresh, SameStackFlag DEF Done, IInv
<1> QED BY <1>1, <1>2, <1>3 DEF IInv

LEMMA DeleteStep ==
    ASSUME IInv, NEW k \in Lines, DeleteLine(k)
    PROVE  IInv'
<1>1. k \in 1..Len(file) /\ k \in Nat \ {0} /\ Frames
  BY Facts DEF Lines, IInv
<1>2. /\ stack' \in Seq(Frame) /\ Depth' = Depth
      /\ \A d \in 1..Depth :
           /\ stack'[d] \in Frame /\ stack'[d].kind = stack[d].kind
           /\ stack'[d].quota = stack[d].quota
           /\ stack'[d].ranges = IF stack[d].kind \in Kept THEN DeleteInRanges(stack[d].ranges, k)
                                 ELSE stack[d].ranges
  <2>1. stack' = InsDel("DELETE", k)
    BY DEF DeleteLine
  <2> QED BY <1>1, <2>1, InsDelIs DEF Moved, Depth
<1>3. SameStack
  BY <1>2 DEF SameStack
<1>4. file' = RecDelete(file, k) /\ file' \in Seq(SUBSET Place)
  BY <1>1, Facts, DeleteOwed DEF DeleteLine
<1>5. slips' = {} =>
        /\ slips = {}
        /\ \A d \in 1..Depth : stack[d].kind \in Kept =>
             \A i \in 1..Len(stack[d].ranges) :
               ~(Live(stack[d].ranges[i]) /\ stack[d].ranges[i].start = k)
  BY DEF DeleteLine, SomeRange
<1>6. Frames'
  <2>1. ASSUME NEW d \in 1..Depth
        PROVE  Settled(stack'[d], d, file', slips')
    <3>1. Settled(stack[d], d, file, slips) /\ file \in Seq(SUBSET Place)
      BY Facts
    <3>2. /\ stack'[d] \in Frame /\ stack'[d].kind = stack[d].kind
          /\ stack'[d].quota = stack[d].quota
          /\ stack'[d].ranges = IF stack[d].kind \in Kept THEN DeleteInRanges(stack[d].ranges, k)
                                ELSE stack[d].ranges
      BY <1>2
    <3>3. slips' = {} => slips = {}
      BY <1>5
    <3>4. slips' = {} /\ stack[d].kind \in Kept =>
             \A i \in 1..Len(stack[d].ranges) :
               ~(Live(stack[d].ranges[i]) /\ stack[d].ranges[i].start = k)
      BY <1>5
    <3>5. Settled(stack'[d], d, RecDelete(file, k), slips')
      BY <1>1, <3>1, <3>2, <3>3, <3>4, DeleteSettled
    <3> QED BY <1>4, <3>5
  <2>2. stack' \in Seq(Frame) /\ Depth' \in Place
    BY <1>2, Facts
  <2> QED BY <1>2, <2>1, <2>2 DEF Frames
<1>7. Session'
  <2>1. edits' \in 0..MaxEdits /\ edits' # 0 /\ running' /\ lno' = lno /\ inglobal' = inglobal
        /\ running' = running
    BY BoundAssumption DEF DeleteLine, IInv, Session
  <2>2. slips' \in SUBSET Slip
    BY DEF DeleteLine, IInv, Session, Slip
  <2> QED BY <1>4, <2>1, <2>2 DEF IInv, Session
<1>8. AllFresh' /\ FlagMeansGlobal'
  BY <1>3, SameStackFresh, SameStackFlag DEF DeleteLine, IInv
<1> QED BY <1>6, <1>7, <1>8 DEF IInv

LEMMA InsertStep ==
    ASSUME IInv, NEW k \in 1..(Len(file) + 1), InsertLine(k)
    PROVE  IInv'
<1>1. k \in 1..(Len(file) + 1) /\ k \in Nat \ {0} /\ Frames
  BY Facts DEF IInv
<1>2. /\ stack' \in Seq(Frame) /\ Depth' = Depth
      /\ \A d \in 1..Depth :
           /\ stack'[d] \in Frame /\ stack'[d].kind = stack[d].kind
           /\ stack'[d].quota = stack[d].quota
           /\ stack'[d].ranges = IF stack[d].kind \in Kept THEN InsertInRanges(stack[d].ranges, k)
                                 ELSE stack[d].ranges
  <2>1. stack' = InsDel("INSERT", k) /\ "INSERT" # "DELETE"
    BY DEF InsertLine
  <2> QED BY <1>1, <2>1, InsDelIs DEF Moved, Depth
<1>3. SameStack
  BY <1>2 DEF SameStack
<1>4. file' = RecInsert(file, k, {}) /\ file' \in Seq(SUBSET Place)
  BY <1>1, Facts, InsertOwed DEF InsertLine
<1>5. slips' = {} =>
        /\ slips = {}
        /\ \A d \in 1..Depth : stack[d].kind \in Kept =>
             \A i \in 1..Len(stack[d].ranges) :
               ~(stack[d].ranges[i].start < k /\ k <= stack[d].ranges[i].stop)
  BY DEF InsertLine, SomeRange
<1>6. Frames'
  <2>1. ASSUME NEW d \in 1..Depth
        PROVE  Settled(stack'[d], d, file', slips')
    <3>1. Settled(stack[d], d, file, slips) /\ file \in Seq(SUBSET Place)
      BY Facts
    <3>2. /\ stack'[d] \in Frame /\ stack'[d].kind = stack[d].kind
          /\ stack'[d].quota = stack[d].quota
          /\ stack'[d].ranges = IF stack[d].kind \in Kept THEN InsertInRanges(stack[d].ranges, k)
                                ELSE stack[d].ranges
      BY <1>2
    <3>3. slips' = {} => slips = {}
      BY <1>5
    <3>4. slips' = {} /\ stack[d].kind \in Kept =>
             \A i \in 1..Len(stack[d].ranges) :
               ~(stack[d].ranges[i].start < k /\ k <= stack[d].ranges[i].stop)
      BY <1>5
    <3>5. Settled(stack'[d], d, RecInsert(file, k, {}), slips')
      BY <1>1, <3>1, <3>2, <3>3, <3>4, InsertSettled
    <3> QED BY <1>4, <3>5
  <2>2. stack' \in Seq(Frame) /\ Depth' \in Place
    BY <1>2, Facts
  <2> QED BY <1>2, <2>1, <2>2 DEF Frames
<1>7. Session'
  <2>1. edits' \in 0..MaxEdits /\ edits' # 0 /\ running' /\ lno' = lno /\ inglobal' = inglobal
        /\ running' = running
    BY BoundAssumption DEF InsertLine, IInv, Session
  <2>2. slips' \in SUBSET Slip
    BY DEF InsertLine, IInv, Session, Slip
  <2> QED BY <1>4, <2>1, <2>2 DEF IInv, Session
<1>8. AllFresh' /\ FlagMeansGlobal'
  BY <1>3, SameStackFresh, SameStackFlag DEF InsertLine, IInv
<1> QED BY <1>6, <1>7, <1>8 DEF IInv

\* A command line whose next command has been parsed.
Parsed(fr) == [fr EXCEPT !.left = @ - 1]

LEMMA ParsedIs ==
    ASSUME NEW fr \in Frame, fr.left > 0
    PROVE  /\ Parsed(fr) \in Frame /\ Parsed(fr).kind = fr.kind /\ Parsed(fr).ranges = fr.ranges
           /\ Parsed(fr).quota = fr.quota
<1>1. fr \in [kind : Kind, ranges : Ranges, range_lno : Nat, left : Nat, quota : Nat]
  BY DEF Frame, Ranges, LineRange
<1>2. fr.left - 1 \in Nat
  BY <1>1
<1> DEFINE gr == [fr EXCEPT !.left = fr.left - 1]
<1>3. gr \in [kind : Kind, ranges : Ranges, range_lno : Nat, left : Nat, quota : Nat]
  BY <1>1, <1>2
<1>4. gr.kind = fr.kind /\ gr.ranges = fr.ranges /\ gr.quota = fr.quota
  BY <1>1
<1>5. gr \in Frame
  BY <1>3 DEF Frame, Ranges, LineRange
<1> QED BY <1>4, <1>5 DEF Parsed

\* A stack whose last command is replaced.
LEMMA TopReplaced ==
    ASSUME IInv, NEW fr \in Frame, stack' = [stack EXCEPT ![Depth] = fr]
    PROVE  /\ stack' \in Seq(Frame) /\ Depth' = Depth /\ stack'[Depth] = fr
           /\ \A d \in 1..Depth : d # Depth => stack'[d] = stack[d]
<1> DEFINE n == Depth
           st == [stack EXCEPT ![n] = fr]
<1>1. stack \in Seq(Frame) /\ n \in 1..Len(stack) /\ n = Len(stack)
  BY Facts
<1> HIDE DEF n
<1>2. /\ st \in Seq(Frame) /\ Len(st) = Len(stack)
      /\ \A j \in 1..Len(stack) : st[j] = IF j = n THEN fr ELSE stack[j]
  BY <1>1, ExceptSeq
<1>3. stack' = st
  BY DEF n
<1> HIDE DEF st
<1>4. stack' \in Seq(Frame) /\ Len(stack') = n /\ stack'[n] = fr
      /\ \A d \in 1..n : d # n => stack'[d] = stack[d]
  BY <1>1, <1>2, <1>3
<1> QED BY <1>4 DEF n, Depth

LEMMA BeginStep ==
    ASSUME IInv, Begin
    PROVE  IInv'
<1>1. Top \in Frame /\ Top = stack[Depth] /\ Top.left > 0 /\ ~running
  BY Facts DEF Begin
<1>2. /\ Parsed(Top) \in Frame /\ Parsed(Top).kind = Top.kind
      /\ Parsed(Top).ranges = Top.ranges /\ Parsed(Top).quota = Top.quota
  BY <1>1, ParsedIs
<1>3. stack' = [stack EXCEPT ![Depth] = Parsed(Top)]
  BY <1>1 DEF Begin, Parsed
<1>4. /\ stack' \in Seq(Frame) /\ Depth' = Depth /\ stack'[Depth] = Parsed(Top)
      /\ \A d \in 1..Depth : d # Depth => stack'[d] = stack[d]
  BY <1>2, <1>3, TopReplaced
<1>5. \A d \in 1..Depth : /\ stack'[d] \in Frame /\ stack'[d].kind = stack[d].kind
                          /\ stack'[d].ranges = stack[d].ranges
                          /\ stack'[d].quota = stack[d].quota
  BY <1>1, <1>2, <1>4, Facts
<1>6. SameStack
  BY <1>4, <1>5 DEF SameStack
<1>7. Frames'
  <2>1. \A d \in 1..Depth : Settled(stack'[d], d, file, slips)
    BY <1>5, Facts, SameSettled
  <2>2. file' = file /\ slips' = slips /\ Depth' \in Place
    BY <1>4, Facts DEF Begin
  <2> QED BY <1>4, <2>1, <2>2 DEF Frames
<1>8. Session'
  BY DEF Begin, IInv, Session
<1>9. AllFresh'
  <2> SUFFICES ASSUME NEW d \in 1..Depth', stack'[d].kind = "at_norange"
               PROVE  \A i \in 1..Len(stack'[d].ranges) : ~Live(stack'[d].ranges[i])
    BY DEF AllFresh, Fresh
  <2>1. d \in 1..Depth /\ stack[d].kind = "at_norange" /\ stack'[d].ranges = stack[d].ranges
    BY <1>4, <1>5
  <2>2. Fresh(d)
    BY <2>1 DEF IInv, AllFresh
  <2>3. ~(d = Depth /\ stack[d].left = 0)
    BY <1>1
  <2> QED BY <2>1, <2>2, <2>3 DEF Fresh
<1>10. FlagMeansGlobal'
  BY <1>6, SameStackFlag DEF Begin, IInv
<1> QED BY <1>7, <1>8, <1>9, <1>10 DEF IInv

\* The stack back to a line the user typed.
LEMMA BaseStack ==
    ASSUME NEW n \in Nat, stack' = <<Base(n)>>
    PROVE  Frames' /\ AllFresh' /\ Depth' = 1
<1>1. /\ stack' \in Seq(Frame) /\ Depth' = 1 /\ 1 \in Place /\ stack'[1] = Base(n)
      /\ Settled(stack'[1], 1, file', slips') /\ stack'[1].kind = "line"
  BY BaseSettled DEF Depth
<1>2. \A d \in 1..Depth' : d = 1
  BY <1>1
<1>3. Frames'
  BY <1>1, <1>2 DEF Frames
<1>4. AllFresh'
  BY <1>1, <1>2 DEF AllFresh
<1> QED BY <1>1, <1>3, <1>4

LEMMA EnterStep ==
    ASSUME IInv, Enter
    PROVE  IInv'
<1>1. Frames' /\ AllFresh'
  BY BaseStack DEF Enter
<1>2. inglobal' = FALSE
  <2>1. Depth = 1 /\ stack[1].kind = "line" /\ \A d \in 1..Depth : d = 1
    BY Facts DEF Enter
  <2>2. inglobal = FALSE
    BY <2>1 DEF IInv, Session, FlagMeansGlobal
  <2> QED BY <2>2 DEF Enter
<1>3. Session'
  <2>1. slips' \in SUBSET Slip
    BY DEF Enter, IInv, Session
  <2>2. slips' = {} => lno \in ValidLine(file)
    BY DEF Enter, IInv, Session
  <2> QED BY <2>1, <2>2 DEF Enter, IInv, Session
<1>4. FlagMeansGlobal'
  BY <1>2 DEF FlagMeansGlobal
<1> QED BY <1>1, <1>3, <1>4 DEF IInv

LEMMA FailStep ==
    ASSUME IInv, Fail
    PROVE  IInv'
<1>1. Frames' /\ AllFresh'
  BY BaseStack DEF Fail, Discard
<1>2. file' \in Seq(SUBSET Place) /\ Len(file') = Len(file)
  BY Facts, Blank DEF Fail
<1>3. lno' \in ValidLine(file') /\ lno' \in Nat
  BY <1>2, Facts DEF Fail, ValidLine
<1>4. 0 \in 0..MaxEdits
  BY BoundAssumption
<1>5. Session'
  BY <1>2, <1>3, <1>4 DEF Fail, Discard, IInv, Session
<1>6. FlagMeansGlobal'
  BY DEF Fail, Discard, FlagMeansGlobal
<1> QED BY <1>1, <1>5, <1>6 DEF IInv

LEMMA SwitchStep ==
    ASSUME IInv, NEW n \in 0..MaxLines, Switch(n)
    PROVE  IInv'
<1>1. file' \in Seq(SUBSET Place) /\ Len(file') = n /\ n \in Nat
  BY BoundAssumption, Blank DEF Switch
<1>2. lno' \in ValidLine(file') /\ lno' \in Nat
  BY <1>1 DEF Switch, ValidLine, Longer
<1>3. 0 \in 0..MaxEdits
  BY BoundAssumption
<1>4. CASE \E d \in 1..Depth : stack[d].kind \in Kept
  <2>1. Discard /\ slips' = slips
    BY <1>4 DEF Switch
  <2>2. Frames' /\ AllFresh'
    BY <2>1, BaseStack DEF Discard
  <2>3. Session'
    BY <1>1, <1>2, <1>3, <2>1 DEF Discard, IInv, Session
  <2>4. FlagMeansGlobal'
    BY <2>1 DEF Discard, FlagMeansGlobal
  <2> QED BY <2>2, <2>3, <2>4 DEF IInv
<1>5. CASE ~\E d \in 1..Depth : stack[d].kind \in Kept
  <2>1. /\ running /\ edits = 0 /\ running' = FALSE /\ stack' = stack /\ inglobal' = inglobal
        /\ edits' = edits /\ slips' = slips
    BY <1>5 DEF Switch
  <2>2. Frames'
    <3>1. ASSUME NEW d \in 1..Depth
          PROVE  Settled(stack[d], d, file', slips)
      <4>1. Settled(stack[d], d, file, slips) /\ stack[d].kind \notin Kept
        BY <1>5, Facts
      <4> QED BY <4>1 DEF Settled
    <3> QED BY <2>1, <3>1 DEF IInv, Frames, Depth
  <2>3. SameStack
    BY <2>1 DEF SameStack, Depth
  <2>4. AllFresh' /\ FlagMeansGlobal'
    BY <2>1, <2>3, SameStackFresh, SameStackFlag DEF IInv
  <2>5. Session'
    BY <1>1, <1>2, <1>3, <2>1 DEF IInv, Session
  <2> QED BY <2>2, <2>4, <2>5 DEF IInv
<1> QED BY <1>4, <1>5

\* The stack with one command more.
LEMMA OneMore ==
    ASSUME IInv, NEW fr \in Frame, stack' = Append(stack, fr)
    PROVE  /\ stack' \in Seq(Frame) /\ Depth' = Depth + 1 /\ stack'[Depth + 1] = fr
           /\ \A d \in 1..Depth : stack'[d] = stack[d]
<1>1. stack \in Seq(Frame) /\ Len(stack) = Depth
  BY Facts
<1>2. /\ Append(stack, fr) \in Seq(Frame) /\ Len(Append(stack, fr)) = Len(stack) + 1
      /\ \A i \in 1..Len(stack) : Append(stack, fr)[i] = stack[i]
      /\ Append(stack, fr)[Len(stack) + 1] = fr
  BY <1>1, AppendProperties
<1> QED BY <1>1, <1>2 DEF Depth

\* A command line is pushed: it is due on the lines its ranges name.
LEMMA PushStep ==
    ASSUME IInv, NEW kind \in Kind \ {"line"}, NEW rs \in Ranges, NEW M, Push(kind, rs, M),
           slips' \in SUBSET Slip, slips' = {} => slips = {},
           Cardinality(M) \in Nat, Cardinality(Slots(rs)) <= Cardinality(M),
           kind = "at_norange" => rs = <<[start |-> lno, stop |-> lno]>>,
           slips' = {} /\ kind \in Kept => Awaits(rs, M) /\ M \subseteq 1..Len(file)
    PROVE  IInv'
<1> DEFINE n == Depth
           fr == [kind |-> kind, ranges |-> rs, range_lno |-> OOBLNO, left |-> 0,
                  quota |-> Cardinality(M)]
<1>1. fr \in Frame /\ fr.kind = kind /\ fr.ranges = rs /\ fr.quota = Cardinality(M) /\ fr.left = 0
  <2>1. kind \in Kind /\ OOBLNO \in Nat /\ 0 \in Nat
    BY DEF OOBLNO
  <2> QED BY <2>1, NewFrame
<1>2. /\ running /\ edits = 0 /\ Depth < MaxDepth /\ stack' = Append(stack, fr)
      /\ file' = Due(file, Depth + 1, M) /\ running' = FALSE
      /\ lno' = lno /\ inglobal' = inglobal /\ edits' = edits
  BY DEF Push
<1> HIDE DEF fr
<1>3. /\ stack' \in Seq(Frame) /\ Depth' = n + 1 /\ stack'[n + 1] = fr
      /\ \A d \in 1..n : stack'[d] = stack[d]
  BY <1>1, <1>2, OneMore
<1>4. n \in Nat \ {0} /\ n + 1 \in Place
  BY <1>2, Facts DEF Place
<1>5. /\ file' \in Seq(SUBSET Place) /\ Len(file') = Len(file)
      /\ OwedOf(file', n + 1) = M \cap 1..Len(file)
      /\ \A e : e # n + 1 => OwedOf(file', e) = OwedOf(file, e)
  BY <1>2, <1>4, Facts, DueIs
<1>6. \A d \in 1..Depth' : d \in 1..n \/ d = n + 1
  BY <1>3, <1>4
<1>7. Frames'
  <2>1. ASSUME NEW d \in 1..n
        PROVE  Settled(stack'[d], d, file', slips')
    <3>1. Settled(stack[d], d, file, slips) /\ stack'[d] = stack[d] /\ d # n + 1
      BY <1>3, <1>4, Facts
    <3>2. OwedOf(file', d) = OwedOf(file, d)
      BY <1>5, <3>1
    <3>3. Settled(stack[d], d, file', slips')
      BY <3>1, <3>2, StillSettled
    <3> QED BY <3>1, <3>3
  <2>2. Settled(fr, n + 1, file', slips')
    <3>1. n + 1 # 1 /\ fr.kind # "line"
      BY <1>1, <1>4
    <3>2. ASSUME slips' = {}, fr.kind \in Kept
          PROVE  Awaits(fr.ranges, OwedOf(file', n + 1))
      <4>1. Awaits(rs, M) /\ M \subseteq 1..Len(file)
        BY <1>1, <3>2
      <4>2. OwedOf(file', n + 1) = M
        BY <1>5, <4>1
      <4> QED BY <1>1, <4>1, <4>2
    <3>3. Cardinality(Slots(fr.ranges)) <= fr.quota
      BY <1>1
    <3> QED BY <1>1, <3>1, <3>2, <3>3 DEF Settled
  <2>3. \A d \in 1..Depth' : Settled(stack'[d], d, file', slips')
    BY <1>3, <1>6, <2>1, <2>2
  <2> QED BY <1>3, <1>4, <2>3 DEF Frames
<1>8. Session'
  <2>1. slips' = {} => lno' \in ValidLine(file')
    BY <1>2, <1>5 DEF IInv, Session, ValidLine
  <2> QED BY <1>2, <1>5, <2>1 DEF IInv, Session
<1>9. AllFresh'
  <2> SUFFICES ASSUME NEW d \in 1..Depth', stack'[d].kind = "at_norange"
               PROVE  Fresh(d)'
    BY DEF AllFresh
  <2>1. CASE d \in 1..n
    <3>1. stack'[d] = stack[d]
      BY <1>3, <2>1
    <3>2. Spent(stack[d])
      BY <1>2, <2>1, <3>1, RunningSpent DEF IInv
    <3> QED BY <3>1, <3>2 DEF Fresh, Spent
  <2>2. CASE d = n + 1
    BY <1>1, <1>2, <1>3, <2>2 DEF Fresh
  <2> QED BY <1>6, <2>1, <2>2
<1>10. FlagMeansGlobal'
  <2> SUFFICES ASSUME inglobal'
               PROVE  \E d \in 1..Depth' : stack'[d].kind = "global"
    BY DEF FlagMeansGlobal
  <2>1. PICK d \in 1..n : stack[d].kind = "global"
    BY <1>2 DEF IInv, FlagMeansGlobal
  <2>2. d \in 1..Depth'
    BY <1>3, <1>4
  <2> QED BY <1>3, <2>1, <2>2
<1> QED BY <1>7, <1>8, <1>9, <1>10 DEF IInv

LEMMA StartGlobalStep ==
    ASSUME IInv, NEW M \in SUBSET Lines, StartGlobal(M)
    PROVE  IInv'
<1>1. Len(file) \in Nat /\ M \in SUBSET (1..Len(file))
  BY Facts DEF Lines
<1>2. /\ RangesOf(M) \in Ranges /\ Awaits(RangesOf(M), M)
      /\ Cardinality(Slots(RangesOf(M))) = Cardinality(M) /\ Cardinality(M) \in Nat
  BY <1>1, RangesOfAwaits
<1>3. Cardinality(Slots(RangesOf(M))) <= Cardinality(M)
  BY <1>2
<1>4. Push("global", RangesOf(M), M) /\ slips' = slips
  BY DEF StartGlobal
<1>5. "global" \in Kind \ {"line"} /\ "global" # "at_norange"
  BY DEF Kind
<1>6. slips \in SUBSET Slip
  BY DEF IInv, Session
<1> QED BY <1>1, <1>2, <1>3, <1>4, <1>5, <1>6, PushStep

\* One range.
LEMMA OneRange ==
    ASSUME NEW a \in Nat, NEW b \in Nat, a <= b
    PROVE  LET rs == <<[start |-> a, stop |-> b]>>
           IN  /\ rs \in Ranges /\ Awaits(rs, a..b) /\ Cardinality(a..b) \in Nat
               /\ Cardinality(Slots(rs)) <= Cardinality(a..b)
<1> DEFINE r == [start |-> a, stop |-> b]
           rs == <<r>>
<1>1. r \in LineRange /\ r.start = a /\ r.stop = b
  BY DEF LineRange
<1> HIDE DEF r
<1>2. rs \in Ranges /\ Len(rs) = 1 /\ rs[1] = r
  BY <1>1 DEF Ranges
<1> HIDE DEF rs
<1>3. LinesOf(rs) = a..b
  <2>1. \A k : k \in LinesOf(rs) <=> \E i \in 1..1 : k \in rs[i].start..rs[i].stop
    BY <1>2, LineIs
  <2>2. 1..1 = {1}
    OBVIOUS
  <2> QED BY <1>1, <1>2, <2>1, <2>2
<1>4. InOrder(rs)
  <2>1. \A i, j \in 1..1 : ~(i < j)
    OBVIOUS
  <2> QED BY <1>2, <2>1 DEF InOrder
<1>5. Cardinality(LinesOf(rs)) = Cardinality(Slots(rs)) /\ Cardinality(Slots(rs)) \in Nat
  BY <1>2, <1>4, OrderedCount, SlotsFinite
<1>6. Cardinality(Slots(rs)) <= Cardinality(a..b) /\ Cardinality(a..b) \in Nat
  BY <1>3, <1>5
<1> QED BY <1>2, <1>3, <1>4, <1>6 DEF Awaits, rs, r

LEMMA StartAtStep ==
    ASSUME IInv, NEW a \in Lines, NEW b \in Lines, StartAt(a, b)
    PROVE  IInv'
<1> DEFINE rs == <<[start |-> a, stop |-> b]>>
<1>1. a \in Nat /\ b \in Nat /\ a..b \subseteq 1..Len(file)
  BY Facts DEF Lines
<1>2. a <= b /\ Push("at", rs, a..b) /\ slips' = slips
  BY DEF StartAt
<1>3. /\ rs \in Ranges /\ Awaits(rs, a..b) /\ Cardinality(a..b) \in Nat
      /\ Cardinality(Slots(rs)) <= Cardinality(a..b)
  BY <1>1, <1>2, OneRange
<1> HIDE DEF rs
<1>4. "at" \in Kind \ {"line"} /\ "at" # "at_norange"
  BY DEF Kind
<1>5. slips \in SUBSET Slip
  BY DEF IInv, Session
<1> QED BY <1>1, <1>2, <1>3, <1>4, <1>5, PushStep

\* The ranges that are one line.
LEMMA OneLine ==
    ASSUME NEW a \in Nat
    PROVE  LET rs == <<[start |-> a, stop |-> a]>>
           IN  rs \in Ranges /\ Cardinality({a}) \in Nat /\ Cardinality(Slots(rs)) <= Cardinality({a})
<1>1. a..a = {a} /\ a <= a
  OBVIOUS
<1> QED BY <1>1, OneRange

LEMMA StartAtNoRangeStep ==
    ASSUME IInv, StartAtNoRange
    PROVE  IInv'
<1> DEFINE rs == <<[start |-> lno, stop |-> lno]>>
<1>1. Push("at_norange", rs, {lno}) /\ slips' = slips
  BY DEF StartAtNoRange
<1>2. rs \in Ranges /\ Cardinality({lno}) \in Nat /\ Cardinality(Slots(rs)) <= Cardinality({lno})
  BY OneLine DEF IInv, Session
<1>3. "at_norange" \in Kind \ {"line"} /\ "at_norange" \notin Kept
  BY DEF Kind, Kept
<1>4. slips \in SUBSET Slip
  BY DEF IInv, Session
<1>5. "at_norange" = "at_norange" => rs = <<[start |-> lno, stop |-> lno]>>
  OBVIOUS
<1> HIDE DEF rs
<1> QED BY <1>1, <1>2, <1>3, <1>4, <1>5, PushStep

LEMMA StartStarStep ==
    ASSUME IInv, StartStar
    PROVE  IInv'
<1> DEFINE rs == <<[start |-> OOBLNO, stop |-> OOBLNO]>>
<1>1. Push("at", rs, {OOBLNO}) /\ slips' = slips \cup {"star"}
  BY DEF StartStar
<1>2. rs \in Ranges /\ Cardinality({OOBLNO}) \in Nat /\ Cardinality(Slots(rs)) <= Cardinality({OOBLNO})
  <2>1. OOBLNO \in Nat
    BY DEF OOBLNO
  <2> QED BY <2>1, OneLine
<1>3. "at" \in Kind \ {"line"} /\ "at" # "at_norange"
  BY DEF Kind
<1>4. slips' \in SUBSET Slip /\ slips' # {}
  BY <1>1 DEF IInv, Session, Slip
<1> HIDE DEF rs
<1> QED BY <1>1, <1>2, <1>3, <1>4, PushStep

\* A command line that is run again, on line l.
Again(fr, rs, l) == [fr EXCEPT !.ranges = rs, !.range_lno = l, !.left = Cmds, !.quota = @ - 1]

LEMMA AgainIs ==
    ASSUME NEW fr \in Frame, NEW rs \in Ranges, NEW l \in Nat, fr.quota # 0
    PROVE  LET gr == Again(fr, rs, l)
           IN  /\ gr \in Frame /\ gr.kind = fr.kind /\ gr.ranges = rs
               /\ gr.quota = fr.quota - 1
<1> DEFINE gr == [fr EXCEPT !.ranges = rs, !.range_lno = l, !.left = Cmds, !.quota = fr.quota - 1]
<1>1. fr \in [kind : Kind, ranges : Ranges, range_lno : Nat, left : Nat, quota : Nat]
  BY DEF Frame, Ranges, LineRange
<1>2. fr.quota - 1 \in Nat /\ Cmds \in Nat
  BY <1>1, BoundAssumption
<1>3. gr \in [kind : Kind, ranges : Ranges, range_lno : Nat, left : Nat, quota : Nat]
  BY <1>1, <1>2
<1>4. gr.kind = fr.kind /\ gr.ranges = rs
  BY <1>1
<1>5. gr.quota = fr.quota - 1
  BY <1>1
<1>6. gr \in Frame
  BY <1>3 DEF Frame, Ranges, LineRange
<1>7. gr = Again(fr, rs, l)
  BY DEF Again
<1> HIDE DEF gr
<1> QED BY <1>4, <1>5, <1>6, <1>7

\* Command d is no longer due on line l.
WithoutOne(f, d, l) == [k \in 1..Len(f) |-> IF k = l THEN f[k] \ {d} ELSE f[k]]

LEMMA OneDone ==
    ASSUME NEW f \in Seq(SUBSET Place), NEW d, NEW l
    PROVE  LET g == WithoutOne(f, d, l)
           IN  /\ g \in Seq(SUBSET Place) /\ Len(g) = Len(f)
               /\ OwedOf(g, d) = OwedOf(f, d) \ {l}
               /\ \A e : e # d => OwedOf(g, e) = OwedOf(f, e)
<1> DEFINE n == Len(f)
           g == [k \in 1..n |-> IF k = l THEN f[k] \ {d} ELSE f[k]]
<1>1. n \in Nat /\ \A k \in 1..n : f[k] \in SUBSET Place
  BY LinesIn
<1> HIDE DEF n
<1>2. g \in [1..n -> SUBSET Place] /\ \A k \in 1..n : g[k] = IF k = l THEN f[k] \ {d} ELSE f[k]
  BY <1>1
<1> HIDE DEF g
<1>3. g \in Seq(SUBSET Place) /\ Len(g) = n
  BY <1>1, <1>2, FcnIsSeq
<1>4. OwedOf(g, d) = OwedOf(f, d) \ {l}
  BY <1>2, <1>3 DEF OwedOf, n
<1>5. ASSUME NEW e, e # d
      PROVE  OwedOf(g, e) = OwedOf(f, e)
  BY <1>2, <1>3, <1>5 DEF OwedOf, n
<1> QED BY <1>3, <1>4, <1>5 DEF g, n, WithoutOne

\* The command on top is run on the next of its lines.
LEMMA LoadAgainStep ==
    ASSUME IInv, LoadAgain
    PROVE  IInv'
<1> DEFINE rs == Remaining(Top.ranges)
           next == rs[1].start
           p == UsedUp(rs)
           n == Depth
           fr == Again(Top, p, next)
<1>1. /\ ~running /\ n > 1 /\ Top.left = 0 /\ rs # <<>>
      /\ lno' = next /\ inglobal' = (Top.kind = "global")
      /\ running' = running /\ edits' = edits /\ slips' = slips
  BY DEF LoadAgain, Exhausted
<1>2. stack' = [stack EXCEPT ![n] = fr]
  BY DEF LoadAgain, Again, UsedUp
<1>3. file' = WithoutOne(file, n, next)
  BY DEF LoadAgain, WithoutOne
<1>4. /\ n \in Nat \ {0} /\ n \in Place /\ Top = stack[n] /\ Top \in Frame
      /\ Top.ranges \in Ranges /\ Top.quota \in Nat /\ n \in 1..n
      /\ file \in Seq(SUBSET Place) /\ Len(file) \in Nat
      /\ Settled(Top, n, file, slips)
  BY Facts
<1>5. /\ rs \in Ranges /\ Len(rs) \in Nat \ {0} /\ Live(rs[1])
      /\ LinesOf(rs) = LinesOf(Top.ranges)
      /\ InOrder(Top.ranges) => InOrder(rs)
      /\ Cardinality(Slots(rs)) <= Cardinality(Slots(Top.ranges))
      /\ Len(Top.ranges) = 1 => rs = Top.ranges
  BY <1>1, <1>4, RemainingIs
<1> HIDE DEF rs, n
<1>6. /\ p \in Ranges /\ Len(p) = Len(rs) /\ p[1].start = next + 1 /\ p[1].stop = rs[1].stop
      /\ Cardinality(Slots(p)) = Cardinality(Slots(rs)) - 1
      /\ Cardinality(Slots(rs)) \in Nat \ {0}
      /\ next \in Nat
  <2>1. 1 \in 1..Len(rs)
    BY <1>5
  <2>2. next \in Nat
    BY <1>5, <2>1, RangeType
  <2> QED BY <1>5, <2>2, UsedUpIs, UsedUpSlots
<1> HIDE DEF p, next
<1>7. Cardinality(Slots(Top.ranges)) <= Top.quota /\ Cardinality(Slots(Top.ranges)) \in Nat
  BY <1>1, <1>4, SlotsFinite DEF Settled
<1>8. Top.quota # 0
  BY <1>4, <1>5, <1>6, <1>7
<1>9. fr \in Frame /\ fr.kind = Top.kind /\ fr.ranges = p /\ fr.quota = Top.quota - 1
  BY <1>4, <1>6, <1>8, AgainIs
<1> HIDE DEF fr
<1>10. /\ stack' \in Seq(Frame) /\ Depth' = n /\ stack'[n] = fr
       /\ \A d \in 1..n : d # n => stack'[d] = stack[d]
  BY <1>2, <1>9, TopReplaced DEF n
<1>11. /\ file' \in Seq(SUBSET Place) /\ Len(file') = Len(file)
       /\ OwedOf(file', n) = OwedOf(file, n) \ {next}
       /\ \A e : e # n => OwedOf(file', e) = OwedOf(file, e)
  BY <1>3, <1>4, OneDone
<1>12. ASSUME slips = {}, Top.kind \in Kept
       PROVE  Awaits(p, OwedOf(file', n)) /\ next \in OwedOf(file, n)
  <2>1. LinesOf(Top.ranges) = OwedOf(file, n) /\ InOrder(Top.ranges)
    BY <1>4, <1>12 DEF Settled, Awaits
  <2>2. LinesOf(rs) = OwedOf(file, n) /\ InOrder(rs)
    BY <1>5, <2>1
  <2>3. Awaits(p, LinesOf(rs) \ {next}) /\ next \in LinesOf(rs)
    BY <1>5, <2>2, UsedUpAwaits DEF p, next
  <2> QED BY <1>11, <2>2, <2>3
<1>13. ASSUME Top.kind = "at_norange"
       PROVE  Top.ranges = <<[start |-> lno, stop |-> lno]>> /\ next = lno
  <2>1. Fresh(n)
    BY <1>4, <1>13 DEF IInv, AllFresh, n
  <2>2. ~Spent(Top)
    <3>1. PICK i \in 1..Len(rs) : next \in rs[i].start..rs[i].stop
      <4>1. 1 \in 1..Len(rs) /\ rs[1].start \in Nat /\ rs[1].stop \in Nat
        BY <1>5, RangeType
      <4>2. next \in rs[1].start..rs[1].stop
        BY <1>5, <4>1 DEF Live, next
      <4> QED BY <4>1, <4>2
    <3>2. next \in LinesOf(Top.ranges)
      BY <1>5, <3>1, LineIs
    <3>3. PICK j \in 1..Len(Top.ranges) : next \in Top.ranges[j].start..Top.ranges[j].stop
      BY <3>2, LineIs
    <3>4. Live(Top.ranges[j])
      <4>1. Top.ranges[j].start \in Nat /\ Top.ranges[j].stop \in Nat
        BY <1>4, <3>3, RangeType
      <4> QED BY <3>3, <4>1 DEF Live
    <3> QED BY <3>4 DEF Spent
  <2>3. Top.ranges = <<[start |-> lno, stop |-> lno]>>
    BY <1>4, <2>1, <2>2 DEF Fresh, Spent
  <2>4. Len(Top.ranges) = 1 /\ Top.ranges[1].start = lno
    BY <2>3
  <2> QED BY <1>5, <2>3, <2>4 DEF next
<1>14. Frames'
  <2>1. ASSUME NEW d \in 1..n, d # n
        PROVE  Settled(stack'[d], d, file', slips')
    <3>1. Settled(stack[d], d, file, slips) /\ stack'[d] = stack[d]
      BY <1>10, <2>1, Facts DEF n
    <3>2. OwedOf(file', d) = OwedOf(file, d)
      BY <1>11, <2>1
    <3>3. Settled(stack[d], d, file', slips')
      BY <1>1, <3>1, <3>2, StillSettled
    <3> QED BY <3>1, <3>3
  <2>2. Settled(fr, n, file', slips')
    <3>1. fr.kind = "line" <=> n = 1
      BY <1>4, <1>9 DEF Settled
    <3>2. Cardinality(Slots(fr.ranges)) <= fr.quota
      <4> DEFINE cp == Cardinality(Slots(p))
                 cr == Cardinality(Slots(rs))
                 ct == Cardinality(Slots(Top.ranges))
      <4>1. cp = cr - 1 /\ cr <= ct /\ ct <= Top.quota /\ cr \in Nat /\ ct \in Nat
            /\ Top.quota \in Nat
        BY <1>4, <1>5, <1>6, <1>7
      <4> HIDE DEF cp, cr, ct
      <4>2. cp <= Top.quota - 1
        BY <4>1
      <4> QED BY <1>9, <4>2 DEF cp
    <3>3. slips' = {} /\ fr.kind \in Kept => Awaits(fr.ranges, OwedOf(file', n))
      BY <1>1, <1>9, <1>12
    <3> QED BY <1>9, <3>1, <3>2, <3>3 DEF Settled
  <2> QED BY <1>4, <1>10, <2>1, <2>2 DEF Frames
<1>15. Session'
  <2>1. ASSUME slips = {}
        PROVE  next \in ValidLine(file)
    <3>1. edits = 0
      BY <1>1 DEF IInv, Session
    <3>2. CASE Top.kind \in Kept
      <4>1. next \in 1..Len(file)
        BY <1>12, <2>1, <3>2 DEF OwedOf
      <4> QED BY <1>4, <4>1 DEF ValidLine, Longer
    <3>3. CASE Top.kind = "at_norange"
      BY <1>13, <2>1, <3>1, <3>3 DEF IInv, Session
    <3>4. Top.kind \in {"at_norange"} \cup Kept
      <4>1. Top.kind \in Kind /\ Top.kind # "line"
        BY <1>1, <1>4, FrameType DEF Settled
      <4> QED BY <4>1 DEF Kind, Kept
    <3> QED BY <3>2, <3>3, <3>4
  <2>2. ValidLine(file') = ValidLine(file)
    BY <1>11 DEF ValidLine
  <2>3. inglobal' \in BOOLEAN
    BY <1>1
  <2>4. next \in Nat
    BY <1>6
  <2> QED BY <1>1, <1>11, <2>1, <2>2, <2>3, <2>4 DEF IInv, Session
<1>16. AllFresh'
  <2> SUFFICES ASSUME NEW d \in 1..n, stack'[d].kind = "at_norange"
               PROVE  \A i \in 1..Len(stack'[d].ranges) : ~Live(stack'[d].ranges[i])
    BY <1>10 DEF AllFresh, Fresh
  <2>1. CASE d # n
    <3>1. stack'[d] = stack[d]
      BY <1>10, <2>1
    <3>2. Fresh(d) /\ d # Depth
      BY <2>1, <3>1 DEF IInv, AllFresh, n
    <3> QED BY <3>1, <3>2 DEF Fresh
  <2>2. CASE d = n
    <3>1. stack'[d].ranges = p /\ Top.kind = "at_norange"
      BY <1>9, <1>10, <2>2
    <3>2. Top.ranges = <<[start |-> lno, stop |-> lno]>> /\ next = lno
      BY <1>13, <3>1
    <3>3. Len(Top.ranges) = 1 /\ Top.ranges[1].stop = lno
      BY <3>2
    <3>4. rs = Top.ranges
      BY <1>5, <3>3
    <3>5. Len(p) = 1 /\ p[1].start = lno + 1 /\ p[1].stop = lno /\ lno \in Nat
      BY <1>6, <3>2, <3>3, <3>4
    <3>6. \A i \in 1..Len(p) : i = 1
      BY <3>5
    <3>7. ~Live(p[1])
      BY <3>5 DEF Live
    <3> QED BY <3>1, <3>6, <3>7
  <2> QED BY <2>1, <2>2
<1>17. FlagMeansGlobal'
  <2> SUFFICES ASSUME inglobal'
               PROVE  stack'[n].kind = "global" /\ n \in 1..Depth'
    BY DEF FlagMeansGlobal
  <2> QED BY <1>1, <1>4, <1>9, <1>10
<1> QED BY <1>14, <1>15, <1>16, <1>17 DEF IInv

\* The command on top has run on all its lines.
LEMMA LoadPopStep ==
    ASSUME IInv, LoadPop
    PROVE  IInv'
<1> DEFINE n == Depth
<1>1. /\ ~running /\ n > 1 /\ lno' = LastLine(Top) /\ stack' = Front(stack)
      /\ file' = Due(file, n, {}) /\ inglobal' = FALSE
      /\ running' = running /\ edits' = edits /\ slips' = slips
  BY DEF LoadPop, Exhausted
<1>2. /\ n \in Nat \ {0} /\ n \in Place /\ stack \in Seq(Frame) /\ Len(stack) = n
      /\ file \in Seq(SUBSET Place) /\ Len(file) \in Nat
      /\ \A d \in 1..n : stack[d] \in Frame
  BY Facts
<1> HIDE DEF n
<1>3. /\ stack' \in Seq(Frame) /\ Depth' = n - 1
      /\ \A d \in 1..(n - 1) : stack'[d] = stack[d]
  <2>1. 1 \in Int /\ n - 1 \in Int /\ 1 <= n - 1 /\ \A i \in 1..(n - 1) : stack[i] \in Frame
    BY <1>1, <1>2
  <2> DEFINE st == SubSeq(stack, 1, n - 1)
  <2>2. /\ st \in Seq(Frame) /\ Len(st) = (n - 1) - 1 + 1
        /\ \A i \in 1..((n - 1) - 1 + 1) : st[i] = stack[1 + i - 1]
    BY <2>1, SubSeqProperties
  <2>3. stack' = st
    BY <1>1, <1>2 DEF Front
  <2> HIDE DEF st
  <2>4. (n - 1) - 1 + 1 = n - 1 /\ \A i \in 1..(n - 1) : 1 + i - 1 = i
    BY <1>2
  <2> QED BY <2>2, <2>3, <2>4 DEF Depth
<1>4. /\ file' \in Seq(SUBSET Place) /\ Len(file') = Len(file)
      /\ \A e : e # n => OwedOf(file', e) = OwedOf(file, e)
  BY <1>1, <1>2, DueIs
<1>5. \A d \in 1..(n - 1) : d \in 1..n /\ d # n
  BY <1>2
<1>6. Frames'
  <2>1. ASSUME NEW d \in 1..(n - 1)
        PROVE  Settled(stack'[d], d, file', slips')
    <3>1. d \in 1..n /\ OwedOf(file', d) = OwedOf(file, d)
      BY <1>4, <1>5
    <3>2. Settled(stack[d], d, file, slips)
      BY <3>1, Facts DEF n
    <3>3. Settled(stack[d], d, file', slips')
      BY <1>1, <3>1, <3>2, StillSettled
    <3> QED BY <1>3, <3>3
  <2>2. n - 1 \in Place
    BY <1>1, <1>2, Facts DEF Place
  <2> QED BY <1>3, <2>1, <2>2 DEF Frames
<1>7. Session'
  <2>1. edits = 0 /\ (slips = {} => lno \in ValidLine(file)) /\ lno \in Nat
    BY <1>1 DEF IInv, Session
  <2>2. Longer(1, Len(file)) \in ValidLine(file)
    BY <1>2 DEF ValidLine, Longer
  <2>3. \A k \in 1..Len(file) : k \in ValidLine(file)
    BY <1>2 DEF ValidLine, Longer
  <2>4. lno' \in ValidLine(file) \/ lno' = lno
    BY <1>1, <2>2, <2>3 DEF LastLine
  <2>5. lno' \in Nat
    BY <2>1, <2>4, Facts
  <2>6. ValidLine(file') = ValidLine(file)
    BY <1>4 DEF ValidLine
  <2> QED BY <1>1, <1>4, <2>1, <2>4, <2>5, <2>6 DEF IInv, Session
<1>8. AllFresh'
  <2> SUFFICES ASSUME NEW d \in 1..(n - 1), stack'[d].kind = "at_norange"
               PROVE  \A i \in 1..Len(stack'[d].ranges) : ~Live(stack'[d].ranges[i])
    BY <1>3 DEF AllFresh, Fresh
  <2>1. stack'[d] = stack[d] /\ d \in 1..Depth /\ d # Depth
    BY <1>3, <1>5 DEF n
  <2>2. Fresh(d)
    BY <2>1 DEF IInv, AllFresh
  <2> QED BY <2>1, <2>2 DEF Fresh
<1>9. FlagMeansGlobal'
  BY <1>1 DEF FlagMeansGlobal
<1> QED BY <1>6, <1>7, <1>8, <1>9 DEF IInv

-----------------------------------------------------------------------------
(* Theorems                                                                *)

LEMMA InitInvariant == Init => IInv
<1> SUFFICES ASSUME Init
             PROVE  IInv
  OBVIOUS
<1>1. PICK n \in 0..MaxLines : file = [k \in 1..n |-> {}]
  BY DEF Init
<1>2. file \in Seq(SUBSET Place) /\ Len(file) = n /\ n \in Nat
  BY <1>1, BoundAssumption, Blank
<1>3. /\ stack \in Seq(Frame) /\ Depth = 1 /\ stack[1].kind = "line" /\ 1 \in Place
      /\ Settled(stack[1], 1, file, slips)
  BY BaseSettled DEF Init, Depth
<1>4. \A d \in 1..Depth : d = 1
  BY <1>3
<1>5. Frames
  BY <1>3, <1>4 DEF Frames
<1>6. AllFresh
  BY <1>3, <1>4 DEF AllFresh
<1>7. FlagMeansGlobal
  BY DEF Init, FlagMeansGlobal
<1>8. Session
  <2>1. lno \in ValidLine(file) /\ lno \in Nat
    BY <1>2 DEF Init, ValidLine, Longer
  <2>2. 0 \in 0..MaxEdits
    BY BoundAssumption
  <2> QED BY <1>2, <2>1, <2>2 DEF Init, Session
<1> QED BY <1>5, <1>6, <1>7, <1>8 DEF IInv

LEMMA StepInvariant == IInv /\ [Next]_vars => IInv'
<1> SUFFICES ASSUME IInv, [Next]_vars
             PROVE  IInv'
  OBVIOUS
<1>1. CASE Enter
  BY <1>1, EnterStep
<1>2. CASE Begin
  BY <1>2, BeginStep
<1>3. CASE Fail
  BY <1>3, FailStep
<1>4. CASE LoadAgain
  BY <1>4, LoadAgainStep
<1>5. CASE LoadPop
  BY <1>5, LoadPopStep
<1>6. CASE \E k \in Lines : DeleteLine(k)
  BY <1>6, DeleteStep
<1>7. CASE \E k \in 1..Len(file) + 1 : InsertLine(k)
  BY <1>7, InsertStep
<1>8. CASE \E l \in ValidLine(file) \cup {lno} : Done(l)
  BY <1>8, DoneStep
<1>9. CASE \E M \in SUBSET Lines : StartGlobal(M)
  BY <1>9, StartGlobalStep
<1>10. CASE \E a, b \in Lines : StartAt(a, b)
  BY <1>10, StartAtStep
<1>11. CASE StartAtNoRange
  BY <1>11, StartAtNoRangeStep
<1>12. CASE StartStar
  BY <1>12, StartStarStep
<1>13. CASE \E n \in 0..MaxLines : Switch(n)
  BY <1>13, SwitchStep
<1>14. CASE UNCHANGED vars
  <2>1. /\ stack' = stack /\ file' = file /\ slips' = slips /\ lno' = lno
        /\ inglobal' = inglobal /\ running' = running /\ edits' = edits
    BY <1>14 DEF vars
  <2>2. Frames'
    BY <2>1, SameFrames DEF IInv
  <2>3. Session'
    BY <2>1 DEF IInv, Session
  <2>4. AllFresh'
    BY <2>1 DEF IInv, AllFresh, Fresh, Depth
  <2>5. FlagMeansGlobal'
    BY <2>1 DEF IInv, FlagMeansGlobal, Depth
  <2> QED BY <2>2, <2>3, <2>4, <2>5 DEF IInv
<1>15. Next \/ UNCHANGED vars
  OBVIOUS
<1> QED BY <1>1, <1>2, <1>3, <1>4, <1>5, <1>6, <1>7, <1>8, <1>9, <1>10, <1>11, <1>12, <1>13,
           <1>14, <1>15 DEF Next, Run

\* Whatever command lines are typed and whatever their commands do to the file, each
\* pending command stays in step with it (ex_g_insdel(), ex_load(), ex_g_setup()).
THEOREM InvariantHolds == Spec => []IInv
  BY InitInvariant, StepInvariant, PTL DEF Spec

LEMMA TypeFollows == IInv => TypeOK
<1> SUFFICES ASSUME IInv
             PROVE  TypeOK
  OBVIOUS
<1> QED BY Facts DEF TypeOK, IInv, Session

\* The type invariant.
THEOREM TypesHold == Spec => []TypeOK
  BY InvariantHolds, TypeFollows, PTL

LEMMA RangesFollow == IInv => RangesSound
<1> SUFFICES ASSUME IInv
             PROVE  RangesSound
  OBVIOUS
<1>1. ASSUME slips = {}, NEW d \in KeptFrames
      PROVE  /\ Waits(d) = Owed(d) /\ WaitCount(d) = Cardinality(Owed(d))
             /\ InOrder(stack[d].ranges)
  <2>1. d \in 1..Depth /\ stack[d].kind \in Kept
    BY DEF KeptFrames
  <2>2. stack[d] \in Frame /\ Settled(stack[d], d, file, slips)
    BY <2>1, Facts
  <2>3. stack[d].ranges \in Ranges
    BY <2>2, FrameType
  <2>4. LinesOf(stack[d].ranges) = OwedOf(file, d) /\ InOrder(stack[d].ranges)
    BY <1>1, <2>1, <2>2 DEF Settled, Awaits
  <2>5. Cardinality(LinesOf(stack[d].ranges)) = Cardinality(Slots(stack[d].ranges))
    BY <2>3, <2>4, OrderedCount
  <2>6. Owed(d) = OwedOf(file, d)
    BY DEF Owed, OwedOf
  <2> QED BY <2>4, <2>5, <2>6 DEF Waits, WaitCount
<1>2. ASSUME NEW d \in Pushed
      PROVE  WaitCount(d) <= stack[d].quota
  <2>1. d \in 1..Depth /\ stack[d].kind # "line"
    BY DEF Pushed
  <2>2. Settled(stack[d], d, file, slips)
    BY <2>1, Facts
  <2> QED BY <2>1, <2>2 DEF Settled, WaitCount
<1> QED BY <1>1, <1>2 DEF RangesSound, RangesKeepTheirLines, NoExtraRuns

\* The ranges of a pending :global or @ name exactly the lines it was pushed for and has
\* not run on, in order, while no range loses its line in one of the ways of Slip; and even
\* then no command runs more often than there were lines for it (ex_g_insdel()).
THEOREM RangesAreSound == Spec => []RangesSound
  BY InvariantHolds, RangesFollow, PTL

LEMMA StackFollows == IInv => StackSound
  BY DEF IInv, Session, StackSound, CursorInFile

\* Between commands the cursor is in the file, and SC_EX_GLOBAL is set for a pending
\* :global or :v only (ex_load(), ex_discard()).
THEOREM StackIsSound == Spec => []StackSound
  BY InvariantHolds, StackFollows, PTL

LEMMA NextIsDue ==
    ASSUME IInv, LoadAgain, slips = {}, Top.kind \in Kept
    PROVE  lno' \in OwedOf(file, Depth)
<1> DEFINE rs == Remaining(Top.ranges)
<1>1. rs # <<>> /\ lno' = rs[1].start /\ Top.ranges \in Ranges /\ Top \in Frame
      /\ Depth \in 1..Depth /\ Settled(Top, Depth, file, slips)
  BY Facts DEF LoadAgain
<1>2. LinesOf(Top.ranges) = OwedOf(file, Depth) /\ InOrder(Top.ranges)
  BY <1>1 DEF Settled, Awaits
<1>3. /\ rs \in Ranges /\ Len(rs) \in Nat \ {0} /\ Live(rs[1])
      /\ LinesOf(rs) = OwedOf(file, Depth) /\ InOrder(rs)
  BY <1>1, <1>2, RemainingIs
<1> HIDE DEF rs
<1> QED BY <1>1, <1>3, UsedUpAwaits

\* A pending :global or @ runs its commands on a line it was pushed for and has not run
\* on, whatever the commands before did to the file, while no range has lost its line
\* (the choice of the next line in ex_load()).
THEOREM RunsOnItsLines == Spec => [][OnItsLine({})]_vars
<1>1. IInv /\ [Next]_vars => [OnItsLine({})]_vars
  <2> SUFFICES ASSUME IInv
               PROVE  OnItsLine({})
    OBVIOUS
  <2>1. ASSUME LoadAgain, Top.kind \in Kept, slips \subseteq {}
        PROVE  lno' \in 1..Len(file) /\ Depth \in file[lno']
    <3>1. slips = {}
      BY <2>1
    <3>2. lno' \in OwedOf(file, Depth)
      BY <2>1, <3>1, NextIsDue
    <3> QED BY <3>2 DEF OwedOf
  <2> QED BY <2>1 DEF OnItsLine
<1> QED BY <1>1, InvariantHolds, PTL DEF Spec
=============================================================================
