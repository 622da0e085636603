--------------------------- MODULE SessionProofs ---------------------------
(***************************************************************************)
(* Proofs about Session: no command without ! drops the only copy of a     *)
(* text or overwrites a file this session has not seen, EXFs, FREFs and    *)
(* temporary files are there just as long as screens use them, and a       *)
(* command that fails leaves every screen its file.                        *)
(*                                                                         *)
(* A screen shows a file when it has an EXF.  What the handlers keep is    *)
(* Sound, a fact about files and the screens that show them; where the     *)
(* screens are is Queued.  A file being opened is shown by nobody yet:     *)
(* Sound has the FREFs in that state as P.                                 *)
(***************************************************************************)
EXTENDS Session, FiniteSetTheorems, FunctionTheorems, SequenceTheorems,
        NaturalsInduction, WellFoundedInduction, TLAPS

-----------------------------------------------------------------------------
(* The inductive invariant                                                 *)

ScrRec == [ep : Exf \cup {None}, frp : Fref \cup {None}, argv : Seq(Path \cup {Null}),
           pos : Nat, ro : BOOLEAN, quit : 0..2]
FrefRec == [name : Path \cup {Null}, tname : Tmp \cup {Null}, flags : SUBSET Flag]
ExfRec == [refcnt : Int, modified : BOOLEAN, work : BOOLEAN, kept : Tmp \cup {Null},
           saw : Path \cup {Null}, knows : SUBSET Path, slips : SUBSET Slip]
State == [disk : SUBSET Path, lock : [Path -> Exf \cup {None, Other}], temps : SUBSET Tmp,
          frefq : Seq(Fref), fref : [Fref -> FrefRec], exf : [Exf -> ExfRec],
          scr : [Scr -> ScrRec], dq : Seq(Scr), hq : Seq(Scr), cur : Scr \cup {None},
          rc : {0, 1}, forced : BOOLEAN, lost : SUBSET (Slip \cup {"plain"}),
          clobbered : SUBSET (Slip \cup {"plain"}), broken : BOOLEAN, cmds : Nat]

Shown(S) == {s \in Scr : S.scr[s].ep # None}
FrefOf(S, s) == S.fref[S.scr[s].frp]
ExfOf(S, s) == S.exf[S.scr[s].ep]

\* A screen without an EXF has no FREF, and the place in the argument list is in it.
Screened(S) ==
    \A s \in Scr : /\ S.scr[s].ep = None => S.scr[s].frp = None
                   /\ S.scr[s].pos <= Len(S.scr[s].argv)

Counted(S) == \A e \in Exf : S.exf[e].refcnt = Cardinality(Users(S, e))

Listed(S) ==
    S.broken \/ \A s \in Shown(S) : S.scr[s].frp \in Range(S.frefq) /\ FrefOf(S, s).name # Null

\* Screens that share an EXF share the FREF, and the other way round while the
\* FREF is that of a temporary file.
Together(S) ==
    \A s, t \in Shown(S) :
        /\ S.scr[s].ep = S.scr[t].ep => S.scr[s].frp = S.scr[t].frp
        /\ S.scr[s].frp = S.scr[t].frp /\ "TMPFILE" \in FrefOf(S, s).flags
             => S.scr[s].ep = S.scr[t].ep

\* Each temporary file has one FREF, one of P or one that a screen shows.
Named(S) ==
    /\ S.temps \subseteq S.disk
    /\ \A f \in Fref : S.fref[f].tname # Null => S.fref[f].tname \in S.temps
    /\ \A f, g \in Fref : S.fref[f].tname = S.fref[g].tname => f = g \/ S.fref[f].tname = Null
Used(S, P) ==
    \A t \in S.temps : \E f \in P \cup {S.scr[s].frp : s \in Shown(S)} :
        f \in Fref /\ S.fref[f].tname = t

\* Text that no file holds is guarded, by the flags or by a slip.
Guarded(S) ==
    /\ \A f \in Fref : "TMPEXIT" \in S.fref[f].flags => "TMPFILE" \in S.fref[f].flags
    /\ \A s \in Shown(S) :
         /\ FrefOf(S, s).name \in Tmp /\ "TMPFILE" \notin FrefOf(S, s).flags
              => "tmp" \in ExfOf(S, s).slips
         /\ ExfOf(S, s).work /\ ExfOf(S, s).slips = {}
              => ExfOf(S, s).modified \/ "TMPEXIT" \in FrefOf(S, s).flags

\* The contents that file_write() compares with are contents this session knows.
Saw(S) == \A e \in Exf : S.exf[e].saw \in S.exf[e].knows \cup {Null} \/ "appended" \in S.exf[e].slips

Sound(S, P) ==
    /\ S \in State
    /\ Screened(S) /\ Counted(S) /\ Listed(S) /\ Together(S)
    /\ Named(S) /\ Used(S, P) /\ Guarded(S) /\ Saw(S)

Queued(S) ==
    /\ IsInjective(S.dq) /\ Range(S.dq) \cap Range(S.hq) = {}
    /\ Shown(S) = Linked(S)
    /\ S.cur # None => S.cur \in Range(S.dq)

Clean(S) == "plain" \notin S.lost /\ "plain" \notin S.clobbered

IInv == Sound(gs, {}) /\ Queued(gs) /\ Clean(gs)

-----------------------------------------------------------------------------
(* Numbers and queues                                                      *)

\* A set of numbers has a least one.
LEMMA LeastOne ==
    ASSUME NEW U, U \subseteq Nat, U # {}
    PROVE  Least(U) \in U /\ \A y \in U : Least(U) <= y
<1> DEFINE R == OpToRel(<, Nat)
<1>1. \E x \in U : \A y \in U : ~(<<y, x>> \in R)
  BY NatLessThanWellFounded, WFMin
<1>2. \A x, y \in Nat : y < x => <<y, x>> \in R
  BY DEF OpToRel
<1> HIDE DEF R
<1>3. PICK x \in U : \A y \in U : ~(<<y, x>> \in R)
  BY <1>1
<1>4. ASSUME NEW y \in U
      PROVE  x <= y
  <2>1. x \in Nat /\ y \in Nat /\ ~(y < x)
    BY <1>2, <1>3, Zenon
  <2> QED BY <2>1
<1> QED BY <1>4 DEF Least

\* Induction over the numbers.
LEMMA Induct ==
    ASSUME NEW T, 0 \in T, \A n \in Nat : n \in T => n + 1 \in T
    PROVE  Nat \subseteq T
<1> SUFFICES ASSUME Nat \ T # {}
             PROVE  FALSE
  OBVIOUS
<1>1. PICK m \in Nat \ T : \A j \in Nat \ T : m <= j
  BY LeastOne
<1>2. m - 1 \in Nat
  BY <1>1
<1>3. m - 1 \notin Nat \ T
  BY <1>1, <1>2
<1> QED BY <1>1, <1>2, <1>3

\* The function that Without() takes the last value of.
Taking(q, D, n, f) ==
    f = [i \in 0..n |-> IF i = 0 THEN <<>>
                        ELSE IF q[i] \in D THEN f[i - 1] ELSE Append(f[i - 1], q[i])]

LEMMA TakingExists ==
    ASSUME NEW q, NEW D, NEW m \in Nat
    PROVE  \E f : Taking(q, D, m, f)
<1> DEFINE T == {n \in Nat : \E f : Taking(q, D, n, f)}
<1>1. 0 \in T
  <2> DEFINE f == [i \in 0..0 |-> <<>>]
  <2>1. f = [i \in 0..0 |-> IF i = 0 THEN <<>>
                            ELSE IF q[i] \in D THEN f[i - 1] ELSE Append(f[i - 1], q[i])]
    OBVIOUS
  <2>2. Taking(q, D, 0, f)
    BY <2>1 DEF Taking
  <2> QED BY <2>2
<1>2. ASSUME NEW n \in Nat, n \in T
      PROVE  n + 1 \in T
  <2>1. PICK f : Taking(q, D, n, f)
    BY <1>2
  <2> DEFINE g == [i \in 0..(n + 1) |->
                     IF i <= n THEN f[i]
                     ELSE IF q[i] \in D THEN f[i - 1] ELSE Append(f[i - 1], q[i])]
             h == [i \in 0..(n + 1) |->
                     IF i = 0 THEN <<>>
                     ELSE IF q[i] \in D THEN g[i - 1] ELSE Append(g[i - 1], q[i])]
  <2>2. ASSUME NEW i \in 0..(n + 1)
        PROVE  g[i] = h[i]
    <3>1. CASE i <= n
      <4>1. i \in 0..n /\ g[i] = f[i] /\ (i # 0 => g[i - 1] = f[i - 1])
        BY <3>1
      <4>2. f[i] = IF i = 0 THEN <<>>
                   ELSE IF q[i] \in D THEN f[i - 1] ELSE Append(f[i - 1], q[i])
        BY <4>1, <2>1 DEF Taking
      <4> QED BY <4>1, <4>2
    <3>2. CASE ~(i <= n)
      <4>1. i = n + 1 /\ i # 0 /\ g[i - 1] = f[i - 1]
            /\ g[i] = (IF q[i] \in D THEN f[i - 1] ELSE Append(f[i - 1], q[i]))
        BY <3>2
      <4> QED BY <4>1
    <3> QED BY <3>1, <3>2
  <2>3. g = h
    BY <2>2
  <2> HIDE DEF g
  <2>4. Taking(q, D, n + 1, g)
    BY <2>3 DEF Taking
  <2> QED BY <2>4
<1> HIDE DEF T
<1>3. Nat \subseteq T
  BY <1>1, <1>2, Induct
<1> QED BY <1>3 DEF T

LEMMA AppendIs ==
    ASSUME NEW X, NEW q \in Seq(X), NEW x \in X
    PROVE  /\ Append(q, x) \in Seq(X) /\ Range(Append(q, x)) = Range(q) \cup {x}
           /\ IsInjective(q) /\ x \notin Range(q) => IsInjective(Append(q, x))
<1> DEFINE r == Append(q, x)
           n == Len(q)
<1>1. /\ r \in Seq(X) /\ Len(r) = n + 1 /\ n \in Nat
      /\ \A i \in 1..n : r[i] = q[i]
      /\ r[n + 1] = x
  BY AppendProperties, LenProperties
<1>2. DOMAIN q = 1..n /\ DOMAIN r = 1..(n + 1)
  BY <1>1, LenProperties
<1> HIDE DEF r, n
<1>3. Range(r) = Range(q) \cup {x}
  <2>1. ASSUME NEW y \in Range(r)
        PROVE  y \in Range(q) \cup {x}
    BY <1>1, <1>2 DEF Range
  <2>2. ASSUME NEW y \in Range(q)
        PROVE  y \in Range(r)
    <3>1. PICK i \in 1..n : y = q[i]
      BY <1>2 DEF Range
    <3>2. i \in 1..(n + 1) /\ r[i] = y
      BY <1>1, <3>1
    <3> QED BY <3>2, <1>2 DEF Range
  <2>3. x \in Range(r)
    BY <1>1, <1>2 DEF Range
  <2> QED BY <2>1, <2>2, <2>3
<1>4. ASSUME IsInjective(q), x \notin Range(q), NEW i \in 1..(n + 1), NEW j \in 1..(n + 1),
             r[i] = r[j]
      PROVE  i = j
  <2>1. \A k \in 1..n : q[k] # x
    BY <1>2, <1>4 DEF Range
  <2>2. \A k, l \in 1..n : q[k] = q[l] => k = l
    BY <1>2, <1>4 DEF IsInjective
  <2>3. CASE i \in 1..n /\ j \in 1..n
    BY <2>2, <2>3, <1>1, <1>4
  <2>4. CASE i = n + 1 \/ j = n + 1
    BY <2>1, <2>4, <1>1, <1>4
  <2> QED BY <2>3, <2>4, <1>1
<1> QED BY <1>1, <1>2, <1>3, <1>4 DEF IsInjective, r

\* TAILQ_REMOVE, as often as it is done.
LEMMA WithoutIs ==
    ASSUME NEW X, NEW q \in Seq(X), NEW D
    PROVE  /\ Without(q, D) \in Seq(X) /\ Range(Without(q, D)) = Range(q) \ D
           /\ IsInjective(q) => IsInjective(Without(q, D))
<1> DEFINE f == CHOOSE g : Taking(q, D, Len(q), g)
           Upto(n) == {q[i] : i \in 1..n} \ D
           T == {n \in Nat : n <= Len(q) =>
                    /\ f[n] \in Seq(X) /\ Range(f[n]) = Upto(n)
                    /\ IsInjective(q) => IsInjective(f[n])}
<1>1. Len(q) \in Nat /\ DOMAIN q = 1..Len(q) /\ \A i \in 1..Len(q) : q[i] \in X
  BY LenProperties, ElementOfSeq
<1>2. Taking(q, D, Len(q), f)
  BY <1>1, TakingExists
<1>3. Without(q, D) = f[Len(q)]
  BY DEF Without, Taking
<1> HIDE DEF f
<1>4. \A i \in 0..Len(q) : f[i] = IF i = 0 THEN <<>> ELSE IF q[i] \in D THEN f[i - 1]
                                  ELSE Append(f[i - 1], q[i])
  BY <1>2 DEF Taking
<1>5. 0 \in T
  <2>1. f[0] = <<>> /\ Upto(0) = {}
    BY <1>1, <1>4
  <2>2. <<>> \in Seq(X) /\ Range(<<>>) = {} /\ IsInjective(<<>>)
    BY DEF Range, IsInjective
  <2> QED BY <2>1, <2>2
<1>6. ASSUME NEW n \in Nat, n \in T
      PROVE  n + 1 \in T
  <2> SUFFICES ASSUME n + 1 <= Len(q)
               PROVE  /\ f[n + 1] \in Seq(X) /\ Range(f[n + 1]) = Upto(n + 1)
                      /\ IsInjective(q) => IsInjective(f[n + 1])
    OBVIOUS
  <2> DEFINE x == q[n + 1]
  <2>1. f[n] \in Seq(X) /\ Range(f[n]) = Upto(n) /\ (IsInjective(q) => IsInjective(f[n]))
    BY <1>1, <1>6
  <2>2. f[n + 1] = IF x \in D THEN f[n] ELSE Append(f[n], x)
    BY <1>1, <1>4
  <2>3. x \in X
    BY <1>1
  <2>4. Upto(n + 1) = IF x \in D THEN Upto(n) ELSE Upto(n) \cup {x}
    <3>1. \A i : i \in 1..(n + 1) <=> i \in 1..n \/ i = n + 1
      OBVIOUS
    <3> QED BY <3>1
  <2>5. IsInjective(q) => x \notin Upto(n)
    BY <1>1 DEF IsInjective
  <2>6. CASE x \in D
    BY <2>1, <2>2, <2>4, <2>6
  <2>7. CASE x \notin D
    <3>1. /\ Append(f[n], x) \in Seq(X) /\ Range(Append(f[n], x)) = Range(f[n]) \cup {x}
          /\ IsInjective(f[n]) /\ x \notin Range(f[n]) => IsInjective(Append(f[n], x))
      BY <2>1, <2>3, AppendIs
    <3> HIDE DEF Upto, x
    <3> QED BY <2>1, <2>2, <2>4, <2>5, <2>7, <3>1
  <2> QED BY <2>6, <2>7
<1> HIDE DEF T
<1>7. Nat \subseteq T
  BY <1>5, <1>6, Induct
<1>8. Upto(Len(q)) = Range(q) \ D
  BY <1>1 DEF Range
<1> HIDE DEF Upto
<1>9. /\ f[Len(q)] \in Seq(X) /\ Range(f[Len(q)]) = Upto(Len(q))
      /\ IsInjective(q) => IsInjective(f[Len(q)])
  BY <1>1, <1>7 DEF T
<1> QED BY <1>3, <1>8, <1>9

LEMMA ConcatIs ==
    ASSUME NEW X, NEW a \in Seq(X), NEW b \in Seq(X)
    PROVE  /\ a \o b \in Seq(X) /\ Range(a \o b) = Range(a) \cup Range(b)
           /\ IsInjective(a) /\ IsInjective(b) /\ Range(a) \cap Range(b) = {} => IsInjective(a \o b)
<1> DEFINE r == a \o b
           m == Len(a)
           n == Len(b)
<1>1. /\ r \in Seq(X) /\ Len(r) = m + n /\ m \in Nat /\ n \in Nat
      /\ \A i \in 1..(m + n) : r[i] = IF i <= m THEN a[i] ELSE b[i - m]
  BY ConcatProperties, LenProperties
<1>2. DOMAIN r = 1..(m + n) /\ DOMAIN a = 1..m /\ DOMAIN b = 1..n
  BY <1>1, LenProperties
<1> HIDE DEF r, m, n
<1>3. Range(r) = Range(a) \cup Range(b)
  <2>1. ASSUME NEW y \in Range(r)
        PROVE  y \in Range(a) \cup Range(b)
    <3>1. PICK i \in 1..(m + n) : y = r[i]
      BY <1>2 DEF Range
    <3>2. CASE i <= m
      BY <3>1, <3>2, <1>1, <1>2 DEF Range
    <3>3. CASE ~(i <= m)
      <4>1. i - m \in 1..n /\ y = b[i - m]
        BY <3>1, <3>3, <1>1
      <4> QED BY <4>1, <1>2 DEF Range
    <3> QED BY <3>2, <3>3
  <2>2. ASSUME NEW y \in Range(a)
        PROVE  y \in Range(r)
    <3>1. PICK i \in 1..m : y = a[i]
      BY <1>2 DEF Range
    <3>2. i \in 1..(m + n) /\ r[i] = y
      BY <3>1, <1>1
    <3> QED BY <3>2, <1>2 DEF Range
  <2>3. ASSUME NEW y \in Range(b)
        PROVE  y \in Range(r)
    <3>1. PICK i \in 1..n : y = b[i]
      BY <1>2 DEF Range
    <3>2. m + i \in 1..(m + n) /\ ~(m + i <= m) /\ (m + i) - m = i
      BY <1>1
    <3>3. r[m + i] = y
      BY <3>1, <3>2, <1>1
    <3> QED BY <3>2, <3>3, <1>2 DEF Range
  <2> QED BY <2>1, <2>2, <2>3
<1>4. ASSUME IsInjective(a), IsInjective(b), Range(a) \cap Range(b) = {},
             NEW i \in 1..(m + n), NEW j \in 1..(m + n), r[i] = r[j]
      PROVE  i = j
  <2>1. \A k, l \in 1..m : a[k] = a[l] => k = l
    BY <1>2, <1>4 DEF IsInjective
  <2>2. \A k, l \in 1..n : b[k] = b[l] => k = l
    BY <1>2, <1>4 DEF IsInjective
  <2>3. \A k \in 1..m, l \in 1..n : a[k] # b[l]
    BY <1>2, <1>4 DEF Range
  <2>4. \A k \in 1..(m + n) : ~(k <= m) => k - m \in 1..n
    BY <1>1
  <2>5. CASE i <= m /\ j <= m
    BY <2>1, <2>5, <1>1, <1>4
  <2>6. CASE ~(i <= m) /\ ~(j <= m)
    <3>1. i - m = j - m
      BY <2>2, <2>4, <2>6, <1>1, <1>4
    <3> QED BY <3>1, <1>1
  <2>7. CASE i <= m /\ ~(j <= m)
    <3>1. r[i] = a[i] /\ r[j] = b[j - m] /\ j - m \in 1..n
      BY <2>4, <2>7, <1>1, <1>4
    <3>2. i \in 1..m
      BY <2>7, <1>1, <1>4
    <3> QED BY <3>1, <3>2, <2>3, <1>4
  <2>8. CASE ~(i <= m) /\ j <= m
    <3>1. r[j] = a[j] /\ r[i] = b[i - m] /\ i - m \in 1..n
      BY <2>4, <2>8, <1>1, <1>4
    <3>2. j \in 1..m
      BY <2>8, <1>1, <1>4
    <3> QED BY <3>1, <3>2, <2>3, <1>4
  <2> QED BY <2>5, <2>6, <2>7, <2>8
<1> QED BY <1>1, <1>2, <1>3, <1>4 DEF IsInjective, r

LEMMA OneIs ==
    ASSUME NEW X, NEW x \in X
    PROVE  <<x>> \in Seq(X) /\ Range(<<x>>) = {x} /\ IsInjective(<<x>>)
<1>1. <<x>> \in Seq(X) /\ DOMAIN <<x>> = 1..1 /\ <<x>>[1] = x
  OBVIOUS
<1> QED BY <1>1 DEF Range, IsInjective

LEMMA EmptyIs ==
    ASSUME NEW X
    PROVE  <<>> \in Seq(X) /\ Range(<<>>) = {} /\ IsInjective(<<>>)
BY DEF Range, IsInjective

LEMMA RangeIn ==
    ASSUME NEW X, NEW q \in Seq(X)
    PROVE  /\ Range(q) \subseteq X /\ \A i \in 1..Len(q) : q[i] \in Range(q)
           /\ DOMAIN q = 1..Len(q) /\ Len(q) \in Nat
           /\ q # <<>> <=> Range(q) # {}
<1>1. DOMAIN q = 1..Len(q) /\ Len(q) \in Nat /\ \A i \in 1..Len(q) : q[i] \in X
  BY LenProperties, ElementOfSeq
<1>2. q # <<>> => 1 \in 1..Len(q)
  BY EmptySeq
<1>3. q = <<>> => Range(q) = {}
  BY DEF Range
<1> QED BY <1>1, <1>2, <1>3 DEF Range

\* vs_split() links a screen into the queue.
LEMMA InsertIs ==
    ASSUME NEW X, NEW q \in Seq(X), NEW i \in 1..(Len(q) + 1), NEW x \in X
    PROVE  /\ InsertAt(q, i, x) \in Seq(X) /\ Range(InsertAt(q, i, x)) = Range(q) \cup {x}
           /\ IsInjective(q) /\ x \notin Range(q) => IsInjective(InsertAt(q, i, x))
<1> DEFINE a == SubSeq(q, 1, i - 1)
           b == SubSeq(q, i, Len(q))
           o == <<x>>
<1>1. /\ Len(q) \in Nat /\ DOMAIN q = 1..Len(q)
      /\ \A k \in 1..Len(q) : q[k] \in X
  BY LenProperties, ElementOfSeq
<1>2. /\ a \in Seq(X) /\ Len(a) = i - 1
      /\ \A j \in 1..(i - 1) : a[j] = q[j]
  BY <1>1, SubSeqProperties
<1>3. /\ b \in Seq(X) /\ Len(b) = Len(q) - i + 1
      /\ \A j \in 1..(Len(q) - i + 1) : b[j] = q[i + j - 1]
  BY <1>1, SubSeqProperties
<1>4. o \in Seq(X) /\ Range(o) = {x} /\ IsInjective(o)
  BY OneIs
<1>5. InsertAt(q, i, x) = (a \o o) \o b
  BY DEF InsertAt
<1>6. DOMAIN a = 1..(i - 1) /\ DOMAIN b = 1..(Len(q) - i + 1)
  BY <1>2, <1>3, LenProperties
<1> HIDE DEF a, b, o
<1>7. Range(a) \cup Range(b) = Range(q)
  <2>1. ASSUME NEW k \in 1..Len(q)
        PROVE  q[k] \in Range(a) \cup Range(b)
    <3>1. CASE k <= i - 1
      BY <3>1, <1>1, <1>2, <1>6 DEF Range
    <3>2. CASE ~(k <= i - 1)
      <4>1. k - i + 1 \in 1..(Len(q) - i + 1) /\ i + (k - i + 1) - 1 = k
        BY <3>2, <1>1
      <4>2. b[k - i + 1] = q[k]
        BY <4>1, <1>3
      <4> QED BY <4>1, <4>2, <1>6 DEF Range
    <3> QED BY <3>1, <3>2
  <2>2. \A j \in 1..(i - 1) : j \in 1..Len(q)
    BY <1>1
  <2>3. \A j \in 1..(Len(q) - i + 1) : i + j - 1 \in 1..Len(q)
    BY <1>1
  <2>4. Range(a) \subseteq Range(q)
    BY <2>2, <1>1, <1>2, <1>6 DEF Range
  <2>5. Range(b) \subseteq Range(q)
    BY <2>3, <1>1, <1>3, <1>6 DEF Range
  <2> QED BY <2>1, <2>4, <2>5, <1>1 DEF Range
<1>8. IsInjective(q) => IsInjective(a) /\ IsInjective(b) /\ Range(a) \cap Range(b) = {}
  <2> SUFFICES ASSUME IsInjective(q)
               PROVE  IsInjective(a) /\ IsInjective(b) /\ Range(a) \cap Range(b) = {}
    OBVIOUS
  <2>1. \A k, l \in 1..Len(q) : q[k] = q[l] => k = l
    BY <1>1 DEF IsInjective
  <2>2. IsInjective(a)
    <3>1. \A k, l \in 1..(i - 1) : a[k] = a[l] => k = l
      <4>1. \A k \in 1..(i - 1) : k \in 1..Len(q) /\ a[k] = q[k]
        BY <1>1, <1>2
      <4> QED BY <4>1, <2>1
    <3> QED BY <3>1, <1>6 DEF IsInjective
  <2>3. ASSUME NEW k \in 1..(Len(q) - i + 1), NEW l \in 1..(Len(q) - i + 1), b[k] = b[l]
        PROVE  k = l
    <3>1. i + k - 1 \in 1..Len(q) /\ i + l - 1 \in 1..Len(q)
      BY <1>1
    <3>2. i + k - 1 = i + l - 1
      BY <3>1, <2>1, <2>3, <1>3
    <3> QED BY <3>2
  <2>4. ASSUME NEW k \in 1..(i - 1), NEW l \in 1..(Len(q) - i + 1), a[k] = b[l]
        PROVE  FALSE
    <3>1. k \in 1..Len(q) /\ i + l - 1 \in 1..Len(q) /\ k # i + l - 1
      BY <1>1
    <3> QED BY <3>1, <2>1, <2>4, <1>2, <1>3
  <2> QED BY <2>2, <2>3, <2>4, <1>6 DEF IsInjective, Range
<1>9. /\ a \o o \in Seq(X) /\ Range(a \o o) = Range(a) \cup Range(o)
      /\ IsInjective(a) /\ IsInjective(o) /\ Range(a) \cap Range(o) = {} => IsInjective(a \o o)
  BY <1>2, <1>4, ConcatIs
<1>10. /\ (a \o o) \o b \in Seq(X) /\ Range((a \o o) \o b) = Range(a \o o) \cup Range(b)
       /\ IsInjective(a \o o) /\ IsInjective(b) /\ Range(a \o o) \cap Range(b) = {}
            => IsInjective((a \o o) \o b)
  BY <1>3, <1>9, ConcatIs
<1>11. x \notin Range(q) => x \notin Range(a) /\ x \notin Range(b)
  BY <1>7
<1>12. Range((a \o o) \o b) = Range(q) \cup {x}
  BY <1>4, <1>7, <1>9, <1>10
<1>13. IsInjective(q) /\ x \notin Range(q) => IsInjective((a \o o) \o b)
  BY <1>4, <1>8, <1>9, <1>10, <1>11
<1> QED BY <1>5, <1>10, <1>12, <1>13

\* vs_swap() puts a screen in the place of another.
LEMMA SwapIs ==
    ASSUME NEW X, NEW q \in Seq(X), NEW s \in X, NEW h \in X
    PROVE  LET r == [i \in DOMAIN q |-> IF q[i] = s THEN h ELSE q[i]]
           IN  /\ r \in Seq(X)
               /\ s \in Range(q) => Range(r) = (Range(q) \ {s}) \cup {h}
               /\ IsInjective(q) /\ h \notin Range(q) => IsInjective(r)
<1> DEFINE r == [i \in DOMAIN q |-> IF q[i] = s THEN h ELSE q[i]]
<1>1. DOMAIN q = 1..Len(q) /\ Len(q) \in Nat /\ \A i \in 1..Len(q) : q[i] \in X
  BY LenProperties, ElementOfSeq
<1>2. r \in [1..Len(q) -> X]
  BY <1>1
<1>3. r \in Seq(X)
  BY <1>1, <1>2, SeqDef
<1>4. DOMAIN r = DOMAIN q /\ \A i \in DOMAIN q : r[i] = IF q[i] = s THEN h ELSE q[i]
  OBVIOUS
<1> HIDE DEF r
<1>5. s \in Range(q) => Range(r) = (Range(q) \ {s}) \cup {h}
  BY <1>4 DEF Range
<1>6. IsInjective(q) /\ h \notin Range(q) => IsInjective(r)
  BY <1>4 DEF Range, IsInjective
<1> QED BY <1>3, <1>5, <1>6 DEF r

-----------------------------------------------------------------------------
(* The parts of the state, and what the small helpers change               *)

LEMMA Constants ==
    /\ None \notin Scr /\ None \notin Exf /\ None \notin Fref /\ None # Other /\ Other \notin Exf
    /\ Null \notin Path /\ Name \cap Tmp = {} /\ Name \subseteq Path /\ Tmp \subseteq Path
    /\ Scr \subseteq Nat /\ Exf \subseteq Nat /\ Fref \subseteq Nat /\ 1 \in Scr
BY NameAssumption, BoundAssumption DEF None, Scr, Exf, Fref, Other, Path

LEMMA Sized ==
    ASSUME NEW U \in SUBSET Scr
    PROVE  /\ Cardinality(U) \in Nat
           /\ Cardinality(U) = 0 <=> U = {}
           /\ \A s \in U : Cardinality(U \ {s}) = Cardinality(U) - 1
           /\ \A s \in Scr \ U : Cardinality(U \cup {s}) = Cardinality(U) + 1
<1>1. IsFiniteSet(Scr)
  BY FS_Interval, BoundAssumption DEF Scr
<1>2. IsFiniteSet(U)
  BY <1>1, FS_Subset
<1> QED BY <1>2, FS_CardinalityType, FS_EmptySet, FS_AddElement, FS_RemoveElement

LEMMA StateIs ==
    ASSUME NEW S \in State
    PROVE  /\ S.disk \in SUBSET Path /\ S.lock \in [Path -> Exf \cup {None, Other}]
           /\ S.temps \in SUBSET Tmp /\ S.frefq \in Seq(Fref) /\ S.fref \in [Fref -> FrefRec]
           /\ S.exf \in [Exf -> ExfRec] /\ S.scr \in [Scr -> ScrRec]
           /\ S.dq \in Seq(Scr) /\ S.hq \in Seq(Scr) /\ S.cur \in Scr \cup {None}
           /\ S.rc \in {0, 1} /\ S.forced \in BOOLEAN
           /\ S.lost \in SUBSET (Slip \cup {"plain"})
           /\ S.clobbered \in SUBSET (Slip \cup {"plain"})
           /\ S.broken \in BOOLEAN /\ S.cmds \in Nat
BY DEF State

\* What Sound() is about besides files: the same in both.
SameQueues(S, T) == T.dq = S.dq /\ T.hq = S.hq /\ T.cur = S.cur
SameTold(S, T) == /\ T.rc = S.rc /\ T.forced = S.forced /\ T.lost = S.lost
                  /\ T.clobbered = S.clobbered /\ T.broken = S.broken /\ T.cmds = S.cmds
SameFrefs(S, T) == T.frefq = S.frefq /\ T.fref = S.fref
SameDisk(S, T) == T.disk = S.disk /\ T.temps = S.temps /\ T.lock = S.lock

\* An EXF after its path p changed.
Touched(x, p) ==
    [x EXCEPT !.saw = IF @ = p THEN Null ELSE @, !.kept = IF @ = p THEN Null ELSE @,
              !.knows = @ \ {p}]

LEMMA TouchedIs ==
    ASSUME NEW x \in ExfRec, NEW p
    PROVE  LET y == Touched(x, p)
           IN  /\ y \in ExfRec /\ y.refcnt = x.refcnt /\ y.modified = x.modified
               /\ y.work = x.work /\ y.slips = x.slips /\ y.knows = x.knows \ {p}
               /\ y.saw = IF x.saw = p THEN Null ELSE x.saw
               /\ y.kept = IF x.kept = p THEN Null ELSE x.kept
BY DEF Touched, ExfRec

LEMMA TouchIs ==
    ASSUME NEW S \in State, NEW p
    PROVE  LET T == Touch(S, p)
           IN  /\ T \in State /\ T.scr = S.scr
               /\ SameQueues(S, T) /\ SameTold(S, T) /\ SameFrefs(S, T) /\ SameDisk(S, T)
               /\ \A e \in Exf : T.exf[e] = Touched(S.exf[e], p)
<1> DEFINE X == [e \in Exf |-> Touched(S.exf[e], p)]
           T == [S EXCEPT !.exf = X]
<1>1. Touch(S, p) = T
  BY DEF Touch, Touched
<1>2. X \in [Exf -> ExfRec]
  BY StateIs, TouchedIs
<1>3. \A e \in Exf : X[e] = Touched(S.exf[e], p)
  OBVIOUS
<1> HIDE DEF X
<1>4. T.exf = X /\ T.scr = S.scr
  BY DEF State
<1>5. SameQueues(S, T) /\ SameTold(S, T) /\ SameFrefs(S, T) /\ SameDisk(S, T)
  BY DEF State, SameQueues, SameTold, SameFrefs, SameDisk
<1>6. T \in State
  BY <1>2 DEF State
<1> HIDE DEF T
<1> QED BY <1>1, <1>3, <1>4, <1>5, <1>6

\* The screens show the same files.
SameShown(S, T) ==
    \A s \in Scr : T.scr[s].ep = S.scr[s].ep /\ T.scr[s].frp = S.scr[s].frp

\* What may happen to an EXF and leaves Sound() as it was.
Grows(x, y) ==
    /\ y.refcnt = x.refcnt
    /\ "tmp" \in x.slips => "tmp" \in y.slips
    /\ y.work /\ y.slips = {} => y.modified \/ (x.work /\ x.slips = {} /\ ~x.modified)
    /\ y.saw \in y.knows \cup {Null} \/ "appended" \in y.slips

LEMMA GrowsSound ==
    ASSUME NEW S, NEW T \in State, NEW P, Sound(S, P), SameShown(S, T), Screened(T),
           SameFrefs(S, T), T.temps = S.temps, T.temps \subseteq T.disk, T.broken = S.broken,
           \A e \in Exf : Grows(S.exf[e], T.exf[e])
    PROVE  Sound(T, P)
<1>1. S \in State /\ S.temps = T.temps /\ S.fref = T.fref /\ S.frefq = T.frefq
  BY DEF Sound, SameFrefs
<1>2. \A e \in Exf : Users(T, e) = Users(S, e)
  BY DEF Users, SameShown
<1>3. Shown(T) = Shown(S) /\ Shown(T) \subseteq Scr
  BY DEF Shown, SameShown
<1>4. Counted(T)
  BY <1>2 DEF Sound, Counted, Grows
<1>5. Listed(T) /\ Together(T)
  BY <1>1, <1>3 DEF Sound, Listed, Together, SameShown, FrefOf
<1>6. Named(T)
  BY <1>1 DEF Sound, Named
<1>7. Used(T, P)
  <2>1. {T.scr[s].frp : s \in Shown(T)} = {S.scr[s].frp : s \in Shown(S)}
    BY <1>3 DEF SameShown
  <2> QED BY <1>1, <2>1 DEF Sound, Used
<1>8. Guarded(T)
  <2>1. \A s \in Shown(S) : T.scr[s].ep = S.scr[s].ep /\ S.scr[s].ep \in Exf
    BY <1>1, StateIs DEF Shown, SameShown, ScrRec
  <2>2. \A s \in Shown(S) : Grows(ExfOf(S, s), ExfOf(T, s)) /\ FrefOf(T, s) = FrefOf(S, s)
    BY <2>1, <1>1 DEF ExfOf, FrefOf, SameShown, Shown
  <2> QED BY <1>1, <1>3, <2>2 DEF Sound, Guarded, Grows
<1>9. Saw(T)
  BY DEF Grows, Saw
<1> QED BY <1>4, <1>5, <1>6, <1>7, <1>8, <1>9 DEF Sound

LEMMA TouchSound ==
    ASSUME NEW S, NEW P, Sound(S, P), NEW p
    PROVE  Sound(Touch(S, p), P)
<1> DEFINE T == Touch(S, p)
<1>1. S \in State
  BY DEF Sound
<1>2. /\ T \in State /\ T.scr = S.scr
      /\ SameTold(S, T) /\ SameFrefs(S, T) /\ SameDisk(S, T)
      /\ \A e \in Exf : T.exf[e] = Touched(S.exf[e], p)
  BY <1>1, TouchIs
<1> HIDE DEF T
<1>3. \A e \in Exf : Grows(S.exf[e], T.exf[e])
  <2> TAKE e \in Exf
  <2>1. S.exf[e] \in ExfRec
    BY <1>1, StateIs
  <2>2. S.exf[e].saw \in S.exf[e].knows \cup {Null} \/ "appended" \in S.exf[e].slips
    BY DEF Sound, Saw
  <2> QED BY <1>2, <2>1, <2>2, TouchedIs DEF Grows
<1>4. SameShown(S, T) /\ Screened(T)
  BY <1>2 DEF SameShown, Screened, Sound
<1>5. T.temps = S.temps /\ T.temps \subseteq T.disk /\ T.broken = S.broken
  BY <1>2 DEF SameDisk, SameTold, Sound, Named
<1> QED BY <1>2, <1>3, <1>4, <1>5, GrowsSound DEF T

LEMMA UnlinkIs ==
    ASSUME NEW S \in State, NEW p \in Path \cup {Null}
    PROVE  LET T == Unlink(S, p)
           IN  /\ T \in State /\ T.scr = S.scr
               /\ SameQueues(S, T) /\ SameTold(S, T) /\ SameFrefs(S, T)
               /\ T.disk = S.disk \ {p} /\ T.temps = S.temps \ {p}
               /\ p = Null => T = S
               /\ p # Null => \A e \in Exf : T.exf[e] = Touched(S.exf[e], p)
<1>1. CASE p = Null
  <2>1. Unlink(S, p) = S
    BY <1>1 DEF Unlink
  <2>2. S.disk = S.disk \ {p} /\ S.temps = S.temps \ {p}
    BY <1>1, StateIs, Constants
  <2> QED BY <1>1, <2>1, <2>2 DEF SameQueues, SameTold, SameFrefs
<1>2. CASE p # Null
  <2> DEFINE R == Touch(S, p)
             T == [R EXCEPT !.disk = @ \ {p}, !.temps = @ \ {p}, !.lock[p] = None]
  <2>1. Unlink(S, p) = T
    BY <1>2 DEF Unlink
  <2>2. /\ R \in State /\ R.scr = S.scr
        /\ SameQueues(S, R) /\ SameTold(S, R) /\ SameFrefs(S, R) /\ SameDisk(S, R)
        /\ \A e \in Exf : R.exf[e] = Touched(S.exf[e], p)
    BY TouchIs
  <2> HIDE DEF R
  <2>3. T \in State
    BY <2>2 DEF State
  <2>4. /\ T.scr = R.scr /\ T.exf = R.exf /\ SameQueues(R, T) /\ SameTold(R, T) /\ SameFrefs(R, T)
        /\ T.disk = R.disk \ {p} /\ T.temps = R.temps \ {p}
    BY <2>2 DEF State, SameQueues, SameTold, SameFrefs
  <2> HIDE DEF T
  <2>5. T.disk = S.disk \ {p} /\ T.temps = S.temps \ {p}
    BY <2>2, <2>4 DEF SameDisk
  <2>6. SameQueues(S, T) /\ SameTold(S, T) /\ SameFrefs(S, T)
    BY <2>2, <2>4 DEF SameQueues, SameTold, SameFrefs
  <2> QED BY <1>2, <2>1, <2>2, <2>3, <2>4, <2>5, <2>6
<1> QED BY <1>1, <1>2

LEMMA SlippedIs ==
    ASSUME NEW S \in State, NEW f, NEW x \in Slip
    PROVE  LET T == Slipped(S, f, x)
           IN  /\ T \in State /\ T.scr = S.scr
               /\ SameQueues(S, T) /\ SameTold(S, T) /\ SameFrefs(S, T) /\ SameDisk(S, T)
               /\ \A e \in Exf : T.exf[e] = IF \E s \in FrefUsers(S, f) : S.scr[s].ep = e
                                           THEN [S.exf[e] EXCEPT !.slips = @ \cup {x}]
                                           ELSE S.exf[e]
<1> DEFINE X == [e \in Exf |-> IF \E s \in FrefUsers(S, f) : S.scr[s].ep = e
                               THEN [S.exf[e] EXCEPT !.slips = @ \cup {x}] ELSE S.exf[e]]
           T == [S EXCEPT !.exf = X]
<1>1. Slipped(S, f, x) = T
  BY DEF Slipped
<1>2. ASSUME NEW y \in ExfRec
      PROVE  [y EXCEPT !.slips = @ \cup {x}] \in ExfRec
  BY DEF ExfRec
<1>3. X \in [Exf -> ExfRec]
  BY <1>2, StateIs
<1>4. \A e \in Exf : X[e] = IF \E s \in FrefUsers(S, f) : S.scr[s].ep = e
                            THEN [S.exf[e] EXCEPT !.slips = @ \cup {x}] ELSE S.exf[e]
  OBVIOUS
<1> HIDE DEF X
<1>5. T.exf = X /\ T.scr = S.scr
  BY DEF State
<1>6. SameQueues(S, T) /\ SameTold(S, T) /\ SameFrefs(S, T) /\ SameDisk(S, T)
  BY DEF State, SameQueues, SameTold, SameFrefs, SameDisk
<1>7. T \in State
  BY <1>3 DEF State
<1> HIDE DEF T
<1> QED BY <1>1, <1>4, <1>5, <1>6, <1>7

\* The EXF of a screen that shows f slipped.
LEMMA SlippedSound ==
    ASSUME NEW S, NEW P, Sound(S, P), NEW f, NEW x \in Slip
    PROVE  LET T == Slipped(S, f, x)
           IN  /\ Sound(T, P)
               /\ \A e \in Exf : /\ T.exf[e].refcnt = S.exf[e].refcnt
                                 /\ T.exf[e].modified = S.exf[e].modified
                                 /\ T.exf[e].work = S.exf[e].work
                                 /\ T.exf[e].saw = S.exf[e].saw
                                 /\ T.exf[e].knows = S.exf[e].knows
                                 /\ S.exf[e].slips \subseteq T.exf[e].slips
               /\ \A s \in Shown(S) : S.scr[s].frp = f => x \in ExfOf(T, s).slips
<1> DEFINE T == Slipped(S, f, x)
<1>1. S \in State
  BY DEF Sound
<1>2. /\ T \in State /\ T.scr = S.scr
      /\ SameTold(S, T) /\ SameFrefs(S, T) /\ SameDisk(S, T)
      /\ \A e \in Exf : T.exf[e] = IF \E s \in FrefUsers(S, f) : S.scr[s].ep = e
                                  THEN [S.exf[e] EXCEPT !.slips = @ \cup {x}]
                                  ELSE S.exf[e]
  BY <1>1, SlippedIs
<1> HIDE DEF T
<1>3. \A e \in Exf : /\ T.exf[e].refcnt = S.exf[e].refcnt
                     /\ T.exf[e].modified = S.exf[e].modified
                     /\ T.exf[e].work = S.exf[e].work
                     /\ T.exf[e].saw = S.exf[e].saw
                     /\ T.exf[e].knows = S.exf[e].knows
                     /\ S.exf[e].slips \subseteq T.exf[e].slips
  <2> TAKE e \in Exf
  <2> DEFINE y == S.exf[e]
             z == [y EXCEPT !.slips = @ \cup {x}]
  <2>1. y \in ExfRec
    BY <1>1, StateIs
  <2>2. /\ z.refcnt = y.refcnt /\ z.modified = y.modified /\ z.work = y.work
        /\ z.saw = y.saw /\ z.knows = y.knows /\ z.slips = y.slips \cup {x}
    BY <2>1 DEF ExfRec
  <2>3. T.exf[e] = z \/ T.exf[e] = y
    BY <1>2
  <2> HIDE DEF y, z
  <2>4. CASE T.exf[e] = z
    BY <2>2, <2>4 DEF y
  <2>5. CASE T.exf[e] = y
    BY <2>5 DEF y
  <2> QED BY <2>3, <2>4, <2>5
<1>4. \A e \in Exf : Grows(S.exf[e], T.exf[e])
  <2> TAKE e \in Exf
  <2>1. S.exf[e].saw \in S.exf[e].knows \cup {Null} \/ "appended" \in S.exf[e].slips
    BY DEF Sound, Saw
  <2>2. T.exf[e].slips = {} => S.exf[e].slips = {}
    BY <1>3
  <2> QED BY <1>3, <2>1, <2>2 DEF Grows
<1>5. SameShown(S, T) /\ Screened(T)
  BY <1>2 DEF SameShown, Screened, Sound
<1>6. T.temps = S.temps /\ T.temps \subseteq T.disk /\ T.broken = S.broken
  BY <1>2 DEF SameDisk, SameTold, Sound, Named
<1>7. Sound(T, P)
  BY <1>2, <1>4, <1>5, <1>6, GrowsSound
<1>8. ASSUME NEW s \in Shown(S), S.scr[s].frp = f
      PROVE  x \in ExfOf(T, s).slips
  <2>1. s \in Scr /\ S.scr[s].ep \in Exf /\ T.scr[s].ep = S.scr[s].ep
    BY <1>1, <1>2, StateIs DEF Shown, ScrRec
  <2>2. s \in FrefUsers(S, f)
    BY <1>8, <2>1 DEF FrefUsers
  <2>3. T.exf[S.scr[s].ep] = [S.exf[S.scr[s].ep] EXCEPT !.slips = @ \cup {x}]
    BY <1>2, <2>1, <2>2
  <2>4. S.exf[S.scr[s].ep] \in ExfRec
    BY <1>1, <2>1, StateIs
  <2> QED BY <2>1, <2>3, <2>4 DEF ExfOf, ExfRec
<1> QED BY <1>3, <1>7, <1>8 DEF T

-----------------------------------------------------------------------------
(* FREFs come and go: file_add()                                           *)

\* What a screen shows is there, unless the editor is beyond repair.
LEMMA ShownIs ==
    ASSUME NEW S, NEW P, Sound(S, P), NEW s \in Shown(S)
    PROVE  /\ s \in Scr /\ S.scr[s].ep \in Exf /\ S.scr[s] \in ScrRec
           /\ ExfOf(S, s) \in ExfRec
           /\ ~S.broken => /\ S.scr[s].frp \in Fref /\ S.scr[s].frp \in Range(S.frefq)
                           /\ FrefOf(S, s) \in FrefRec /\ FrefOf(S, s).name # Null
<1>1. S \in State /\ s \in Scr /\ S.scr[s].ep # None
  BY DEF Sound, Shown
<1>2. S.scr[s] \in ScrRec /\ S.scr[s].ep \in Exf
  BY <1>1, StateIs DEF ScrRec
<1>3. ExfOf(S, s) \in ExfRec
  BY <1>1, <1>2, StateIs DEF ExfOf
<1>4. ~S.broken => S.scr[s].frp \in Range(S.frefq) /\ FrefOf(S, s).name # Null
  BY DEF Sound, Listed
<1>5. Range(S.frefq) \subseteq Fref
  BY <1>1, StateIs, RangeIn
<1>6. S.scr[s].frp \in Fref => FrefOf(S, s) \in FrefRec
  BY <1>1, StateIs DEF FrefOf
<1> QED BY <1>1, <1>2, <1>3, <1>4, <1>5, <1>6

\* FREFs that no screen shows may change.
LEMMA FrefsSound ==
    ASSUME NEW S, NEW T \in State, Sound(S, {}), ~S.broken, T.scr = S.scr, T.exf = S.exf,
           SameDisk(S, T), T.broken = S.broken,
           \A s \in Shown(S) : S.scr[s].frp \in Range(T.frefq) /\ FrefOf(T, s) = FrefOf(S, s),
           \A f \in Fref : T.fref[f] = S.fref[f]
                           \/ (T.fref[f].tname = Null /\ T.fref[f].flags = {})
    PROVE  Sound(T, {})
<1>1. S \in State
  BY DEF Sound
<1>2. Shown(T) = Shown(S) /\ \A e \in Exf : Users(T, e) = Users(S, e)
  BY DEF Shown, Users
<1>3. \A s \in Shown(S) : /\ S.scr[s].frp \in Fref /\ FrefOf(S, s).name # Null
                          /\ ExfOf(T, s) = ExfOf(S, s)
  BY ShownIs DEF ExfOf
<1>4. Screened(T) /\ Counted(T) /\ Saw(T)
  BY <1>2 DEF Sound, Screened, Counted, Saw
<1>5. Listed(T)
  BY <1>2, <1>3 DEF Listed
<1>6. Together(T)
  BY <1>2 DEF Sound, Together
<1>7. Named(T)
  BY DEF Sound, Named, SameDisk
<1>8. Used(T, {})
  <2>1. ASSUME NEW t \in T.temps
        PROVE  \E s \in Shown(S) : S.scr[s].frp \in Fref /\ T.fref[S.scr[s].frp].tname = t
    <3>1. t \in S.temps
      BY DEF SameDisk
    <3>2. PICK s \in Shown(S) : S.fref[S.scr[s].frp].tname = t
      BY <3>1 DEF Sound, Used
    <3>3. T.fref[S.scr[s].frp] = S.fref[S.scr[s].frp]
      BY DEF FrefOf
    <3> QED BY <1>3, <3>2, <3>3
  <2> QED BY <1>2, <2>1 DEF Used
<1>9. Guarded(T)
  BY <1>2, <1>3 DEF Sound, Guarded
<1> QED BY <1>4, <1>5, <1>6, <1>7, <1>8, <1>9 DEF Sound

LEMMA FileAddIs ==
    ASSUME NEW S, Sound(S, {}), ~S.broken, NEW n \in Path \cup {Null}
    PROVE  LET T == FileAdd(S, n).st
               f == FileAdd(S, n).f
           IN  /\ Sound(T, {}) /\ T.scr = S.scr /\ T.exf = S.exf
               /\ SameQueues(S, T) /\ SameTold(S, T) /\ SameDisk(S, T)
               /\ \A s \in Shown(S) : FrefOf(T, s) = FrefOf(S, s)
               /\ f # None => f \in Fref /\ f \in Range(T.frefq)
<1> DEFINE at == {i \in DOMAIN S.frefq : S.fref[S.frefq[i]].name = n}
           end == IF at = {} THEN Len(S.frefq) + 1 ELSE Least(at)
           dead == IF n = Null THEN {}
                   ELSE {S.frefq[i] : i \in {j \in 1..(end - 1) :
                                             S.fref[S.frefq[j]].name = Null}}
           F == [f \in Fref |-> IF f \in dead THEN NoFref ELSE S.fref[f]]
           T == [S EXCEPT !.frefq = Without(@, dead), !.fref = F]
           fresh == Fref \ (Range(T.frefq) \cup {S.scr[s].frp : s \in Scr})
           f == Least(fresh)
           U == [T EXCEPT !.frefq = Append(@, f), !.fref[f] = [NoFref EXCEPT !.name = n]]
<1>1. FileAdd(S, n) = IF n # Null /\ at # {} THEN [st |-> T, f |-> S.frefq[end]]
                      ELSE IF fresh = {} THEN [st |-> T, f |-> None] ELSE [st |-> U, f |-> f]
  BY DEF FileAdd
<1>2. /\ S \in State /\ S.frefq \in Seq(Fref) /\ S.fref \in [Fref -> FrefRec]
      /\ Range(S.frefq) \subseteq Fref /\ DOMAIN S.frefq = 1..Len(S.frefq) /\ Len(S.frefq) \in Nat
      /\ \A i \in 1..Len(S.frefq) : S.frefq[i] \in Range(S.frefq)
  BY StateIs, RangeIn DEF Sound
<1>3. end \in 1..(Len(S.frefq) + 1) /\ (at # {} => end \in at)
  <2>1. at \subseteq Nat
    BY <1>2
  <2>2. CASE at = {}
    <3>1. end = Len(S.frefq) + 1
      BY <2>2
    <3> HIDE DEF end, at
    <3>2. end \in 1..(Len(S.frefq) + 1)
      BY <1>2, <3>1
    <3> QED BY <2>2, <3>2
  <2>3. CASE at # {}
    <3>1. end = Least(at) /\ Least(at) \in at
      BY <2>1, <2>3, LeastOne
    <3>2. at \subseteq 1..Len(S.frefq) /\ Len(S.frefq) \in Nat
      BY <1>2
    <3> HIDE DEF end, at
    <3>3. end \in at
      BY <3>1
    <3>4. end \in 1..Len(S.frefq)
      BY <3>2, <3>3
    <3>5. end \in 1..(Len(S.frefq) + 1)
      BY <3>2, <3>4
    <3> QED BY <3>3, <3>5
  <2> HIDE DEF end, at
  <2> QED BY <2>2, <2>3
<1> HIDE DEF end
<1>4. \A g \in dead : g \in Fref /\ S.fref[g].name = Null
  BY <1>2, <1>3
<1>5. at # {} => S.frefq[end] \in Range(S.frefq) /\ S.fref[S.frefq[end]].name = n
  BY <1>2, <1>3
<1> HIDE DEF at, dead
<1>6. NoFref \in FrefRec /\ [NoFref EXCEPT !.name = n] \in FrefRec
      /\ NoFref.tname = Null /\ NoFref.flags = {}
      /\ [NoFref EXCEPT !.name = n].tname = Null /\ [NoFref EXCEPT !.name = n].flags = {}
  BY DEF NoFref, FrefRec
<1>7. F \in [Fref -> FrefRec] /\ \A g \in Fref : F[g] = IF g \in dead THEN NoFref ELSE S.fref[g]
  BY <1>2, <1>6
<1> HIDE DEF F
<1>8. Without(S.frefq, dead) \in Seq(Fref) /\ Range(Without(S.frefq, dead)) = Range(S.frefq) \ dead
  BY <1>2, WithoutIs
<1>9. /\ T \in State /\ T.frefq = Without(S.frefq, dead) /\ T.fref = F /\ T.scr = S.scr
      /\ T.exf = S.exf
  BY <1>2, <1>7, <1>8 DEF State
<1>10. SameQueues(S, T) /\ SameTold(S, T) /\ SameDisk(S, T)
  BY <1>2 DEF State, SameQueues, SameTold, SameDisk
<1> HIDE DEF T
<1>11. \A s \in Shown(S) : S.scr[s].frp \in Range(T.frefq) /\ FrefOf(T, s) = FrefOf(S, s)
  <2> TAKE s \in Shown(S)
  <2>1. S.scr[s].frp \in Fref /\ S.scr[s].frp \in Range(S.frefq) /\ FrefOf(S, s).name # Null
    BY ShownIs
  <2>2. S.scr[s].frp \notin dead
    BY <1>4, <2>1 DEF FrefOf
  <2> QED BY <1>7, <1>8, <1>9, <2>1, <2>2 DEF FrefOf
<1>12. Sound(T, {})
  <2>1. T.broken = S.broken
    BY <1>10 DEF SameTold
  <2>2. \A g \in Fref : T.fref[g] = S.fref[g] \/ (T.fref[g].tname = Null /\ T.fref[g].flags = {})
    BY <1>6, <1>7, <1>9
  <2>3. T.scr = S.scr /\ T.exf = S.exf /\ T \in State
    BY <1>9
  <2> QED BY <1>10, <1>11, <2>1, <2>2, <2>3, FrefsSound
<1>13. CASE n # Null /\ at # {}
  <2>1. S.frefq[end] \notin dead
    BY <1>4, <1>5, <1>13
  <2> QED BY <1>1, <1>2, <1>5, <1>8, <1>9, <1>10, <1>11, <1>12, <1>13, <2>1
<1>14. CASE ~(n # Null /\ at # {}) /\ fresh = {}
  BY <1>1, <1>9, <1>10, <1>11, <1>12, <1>14
<1>15. CASE ~(n # Null /\ at # {}) /\ fresh # {}
  <2>1. f \in Fref /\ f \notin Range(T.frefq) /\ \A s \in Scr : S.scr[s].frp # f
    <3>1. fresh \subseteq Nat
      BY Constants
    <3>2. f \in fresh
      BY <1>15, <3>1, LeastOne
    <3> QED BY <3>2
  <2> HIDE DEF f
  <2>2. /\ Append(T.frefq, f) \in Seq(Fref)
        /\ Range(Append(T.frefq, f)) = Range(T.frefq) \cup {f}
    BY <1>8, <1>9, <2>1, AppendIs
  <2> DEFINE G == [T.fref EXCEPT ![f] = [NoFref EXCEPT !.name = n]]
  <2>3. G \in [Fref -> FrefRec] /\ G[f] = [NoFref EXCEPT !.name = n]
        /\ \A g \in Fref : g # f => G[g] = T.fref[g]
    BY <1>6, <1>7, <1>9, <2>1
  <2>4. /\ U \in State /\ U.frefq = Append(T.frefq, f) /\ U.fref = G /\ U.scr = T.scr
        /\ U.exf = T.exf
    BY <1>9, <2>2, <2>3 DEF State
  <2>5. SameQueues(T, U) /\ SameTold(T, U) /\ SameDisk(T, U)
    BY <1>9 DEF State, SameQueues, SameTold, SameDisk
  <2> HIDE DEF U, G
  <2>6. Shown(T) = Shown(S)
    BY <1>9 DEF Shown
  <2>7. \A s \in Shown(T) : T.scr[s].frp \in Range(U.frefq) /\ FrefOf(U, s) = FrefOf(T, s)
    <3> TAKE s \in Shown(T)
    <3>1. s \in Scr /\ T.scr[s].frp # f
      BY <1>9, <2>1 DEF Shown
    <3>2. T.scr[s].frp \in Range(T.frefq) /\ T.scr[s].frp \in Fref
      BY <1>9, <1>11, <2>6, ShownIs
    <3> QED BY <2>2, <2>3, <2>4, <3>1, <3>2 DEF FrefOf
  <2>8. ~T.broken /\ U.broken = T.broken
    BY <1>10, <2>5 DEF SameTold
  <2>9. Sound(U, {})
    <3>1. \A g \in Fref : U.fref[g] = T.fref[g] \/ (U.fref[g].tname = Null /\ U.fref[g].flags = {})
      BY <1>6, <2>3, <2>4
    <3>2. U.scr = T.scr /\ U.exf = T.exf /\ U \in State
      BY <2>4
    <3> QED BY <1>12, <2>5, <2>7, <2>8, <3>1, <3>2, FrefsSound
  <2>10. SameQueues(S, U) /\ SameTold(S, U) /\ SameDisk(S, U)
    BY <1>10, <2>5 DEF SameQueues, SameTold, SameDisk
  <2>11. \A s \in Shown(S) : FrefOf(U, s) = FrefOf(S, s)
    BY <1>11, <2>6, <2>7
  <2>12. FileAdd(S, n).st = U /\ FileAdd(S, n).f = f
    BY <1>1, <1>15
  <2>13. U.scr = S.scr /\ U.exf = S.exf /\ f \in Range(U.frefq)
    BY <1>9, <2>2, <2>4
  <2> QED BY <2>1, <2>9, <2>10, <2>11, <2>12, <2>13
<1> QED BY <1>13, <1>14, <1>15

-----------------------------------------------------------------------------
(* A screen leaves its file: file_end()                                    *)

LEMMA Nothings ==
    /\ NoScr \in ScrRec /\ NoScr.ep = None /\ NoScr.frp = None
    /\ NoScr.pos = 0 /\ NoScr.argv = <<>> /\ NoScr.pos <= Len(NoScr.argv)
    /\ NoExf \in ExfRec /\ NoExf.refcnt = 0 /\ NoExf.saw = Null /\ ~NoExf.work
    /\ NoFref \in FrefRec /\ NoFref.tname = Null /\ NoFref.flags = {}
BY DEF NoScr, ScrRec, NoExf, ExfRec, NoFref, FrefRec

\* Screen s as if it had no file any more.
Gone(S, s) == [S EXCEPT !.scr[s] = NoScr]

LEMMA GoneIs ==
    ASSUME NEW S \in State, NEW s \in Scr
    PROVE  LET U == Gone(S, s)
           IN  /\ U \in State /\ U.scr = [S.scr EXCEPT ![s] = NoScr] /\ U.exf = S.exf
               /\ SameQueues(S, U) /\ SameTold(S, U) /\ SameFrefs(S, U) /\ SameDisk(S, U)
               /\ \A t \in Scr : U.scr[t] = IF t = s THEN NoScr ELSE S.scr[t]
<1> DEFINE X == [S.scr EXCEPT ![s] = NoScr]
           U == [S EXCEPT !.scr = X]
<1>1. Gone(S, s) = U
  BY DEF Gone
<1>2. X \in [Scr -> ScrRec] /\ \A t \in Scr : X[t] = IF t = s THEN NoScr ELSE S.scr[t]
  BY StateIs, Nothings
<1>3. X = [S.scr EXCEPT ![s] = NoScr]
  OBVIOUS
<1> HIDE DEF X
<1>4. U \in State /\ U.scr = X /\ U.exf = S.exf
  BY <1>2 DEF State
<1>5. SameQueues(S, U) /\ SameTold(S, U) /\ SameFrefs(S, U) /\ SameDisk(S, U)
  BY DEF State, SameQueues, SameTold, SameFrefs, SameDisk
<1> HIDE DEF U
<1> QED BY <1>1, <1>2, <1>3, <1>4, <1>5

\* The other screens, and who uses what without s.
LEMMA OthersIs ==
    ASSUME NEW S, NEW P, Sound(S, P), NEW s \in Shown(S), NEW U,
           U.scr = [S.scr EXCEPT ![s] = NoScr]
    PROVE  /\ Shown(U) = Shown(S) \ {s} /\ Screened(U)
           /\ \A t \in Shown(U) : U.scr[t] = S.scr[t]
           /\ \A x \in Exf : Users(U, x) = Users(S, x) \ {s}
           /\ Cardinality(Users(U, S.scr[s].ep)) = S.exf[S.scr[s].ep].refcnt - 1
           /\ \A x \in Exf : x # S.scr[s].ep => Cardinality(Users(U, x)) = S.exf[x].refcnt
<1> DEFINE e == S.scr[s].ep
<1>1. s \in Scr /\ e \in Exf /\ S.scr \in [Scr -> ScrRec] /\ e # None
  <2>1. S \in State
    BY DEF Sound
  <2> QED BY <2>1, ShownIs, StateIs DEF Shown
<1>2. \A t \in Scr : U.scr[t] = IF t = s THEN NoScr ELSE S.scr[t]
  BY <1>1
<1>3. Shown(U) = Shown(S) \ {s}
  BY <1>1, <1>2, Nothings DEF Shown
<1>4. Screened(U)
  BY <1>2, Nothings DEF Sound, Screened
<1>5. ASSUME NEW x \in Exf
      PROVE  Users(U, x) = Users(S, x) \ {s}
  BY <1>1, <1>2, Nothings, Constants DEF Users
<1>6. \A x \in Exf : Users(S, x) \in SUBSET Scr /\ Cardinality(Users(S, x)) = S.exf[x].refcnt
  BY DEF Sound, Counted, Users
<1>7. s \in Users(S, e)
  BY <1>1 DEF Users
<1>8. Cardinality(Users(U, e)) = S.exf[e].refcnt - 1
  BY <1>1, <1>5, <1>6, <1>7, Sized
<1>9. \A x \in Exf : x # e => Users(U, x) = Users(S, x)
  BY <1>1, <1>5 DEF Users
<1> QED BY <1>2, <1>3, <1>4, <1>5, <1>6, <1>8, <1>9 DEF Shown

\* The last screen of an EXF left it.
LEMMA EndedSound ==
    ASSUME NEW S, NEW U \in State, NEW P, Sound(S, P), NEW s \in Shown(S), ~S.broken, ~U.broken,
           U.scr = [S.scr EXCEPT ![s] = NoScr],
           S.exf[S.scr[s].ep].refcnt <= 1, U.exf[S.scr[s].ep] = NoExf,
           \A x \in Exf : x # S.scr[s].ep => Grows(S.exf[x], U.exf[x]),
           \A r \in Shown(S) \ {s} : /\ S.scr[r].frp \in Range(U.frefq)
                                     /\ FrefOf(U, r).name = FrefOf(S, r).name
                                     /\ FrefOf(U, r).flags = FrefOf(S, r).flags,
           U.temps \subseteq S.temps, U.temps \subseteq U.disk,
           \A g \in Fref : /\ U.fref[g].tname # Null => /\ U.fref[g].tname = S.fref[g].tname
                                                         /\ U.fref[g].tname \in U.temps
                           /\ U.fref[g].flags = S.fref[g].flags \/ U.fref[g].flags = {}
                           /\ S.fref[g].tname \in U.temps =>
                                /\ U.fref[g].tname = S.fref[g].tname
                                /\ g = S.scr[s].frp => g \in P
    PROVE  Sound(U, P)
<1> DEFINE e == S.scr[s].ep
<1>1. /\ Shown(U) = Shown(S) \ {s} /\ Screened(U)
      /\ \A t \in Shown(U) : U.scr[t] = S.scr[t]
      /\ \A x \in Exf : Users(U, x) = Users(S, x) \ {s}
      /\ Cardinality(Users(U, e)) = S.exf[e].refcnt - 1
      /\ \A x \in Exf : x # e => Cardinality(Users(U, x)) = S.exf[x].refcnt
  BY OthersIs
<1>2. /\ S \in State /\ e \in Exf /\ s \in Scr
      /\ \A r \in Shown(S) : /\ r \in Scr /\ S.scr[r].ep \in Exf /\ S.scr[r].frp \in Fref
                             /\ FrefOf(S, r).name # Null
  BY ShownIs DEF Sound
<1>3. Users(U, e) = {} /\ S.exf[e].refcnt = 1
  <2>1. Users(U, e) \in SUBSET Scr
    BY DEF Users
  <2>2. Cardinality(Users(U, e)) \in Nat /\ (Cardinality(Users(U, e)) = 0 <=> Users(U, e) = {})
    BY <2>1, Sized
  <2>3. S.exf[e].refcnt \in Int
    BY <1>2, StateIs DEF ExfRec
  <2> HIDE DEF e
  <2> QED BY <1>1, <2>2, <2>3 DEF e
<1>4. \A r \in Shown(U) : U.scr[r].ep # e /\ r \in Shown(S) /\ U.scr[r].ep = S.scr[r].ep
                          /\ U.scr[r].frp = S.scr[r].frp
  BY <1>1, <1>3 DEF Users, Shown
<1>5. Counted(U)
  <2>1. ASSUME NEW x \in Exf, x # e
        PROVE  U.exf[x].refcnt = Cardinality(Users(U, x))
    BY <1>1, <2>1 DEF Grows, e
  <2>2. U.exf[e].refcnt = Cardinality(Users(U, e))
    BY <1>1, <1>3, Nothings, FS_EmptySet DEF e
  <2> QED BY <2>1, <2>2 DEF Counted
<1> HIDE DEF e
<1>6. Listed(U) /\ Together(U)
  <2>1. Listed(S) /\ Together(S)
    BY DEF Sound
  <2>2. \A r \in Shown(U) : /\ U.scr[r].frp \in Range(U.frefq)
                             /\ FrefOf(U, r).name = FrefOf(S, r).name
                             /\ FrefOf(U, r).flags = FrefOf(S, r).flags
    BY <1>1, <1>4
  <2>3. Listed(U)
    BY <1>2, <1>4, <2>2 DEF Listed
  <2>4. Together(U)
    BY <1>4, <2>1, <2>2 DEF Together
  <2> QED BY <2>3, <2>4
<1>7. Named(U)
  BY DEF Sound, Named
<1>8. Used(U, P)
  <2>1. ASSUME NEW t \in U.temps
        PROVE  \E g \in P \cup {U.scr[r].frp : r \in Shown(U)} : g \in Fref /\ U.fref[g].tname = t
    <3>1. PICK g \in P \cup {S.scr[r].frp : r \in Shown(S)} : g \in Fref /\ S.fref[g].tname = t
      BY <2>1 DEF Sound, Used
    <3>2. U.fref[g].tname = t
      BY <2>1, <3>1
    <3>3. CASE g \in P
      BY <3>1, <3>2, <3>3
    <3>4. CASE g \notin P
      <4>1. PICK r \in Shown(S) : g = S.scr[r].frp
        BY <3>1, <3>4
      <4>2. r # s
        BY <2>1, <3>1, <3>4, <4>1
      <4>3. r \in Shown(U) /\ U.scr[r].frp = g
        BY <1>1, <4>1, <4>2
      <4> QED BY <3>1, <3>2, <4>3
    <3> QED BY <3>3, <3>4
  <2> QED BY <2>1 DEF Used
<1>9. Guarded(U)
  <2>1. \A g \in Fref : "TMPEXIT" \in U.fref[g].flags => "TMPFILE" \in U.fref[g].flags
    BY DEF Sound, Guarded
  <2>2. ASSUME NEW r \in Shown(U)
        PROVE  /\ FrefOf(U, r).name \in Tmp /\ "TMPFILE" \notin FrefOf(U, r).flags
                    => "tmp" \in ExfOf(U, r).slips
               /\ ExfOf(U, r).work /\ ExfOf(U, r).slips = {}
                    => ExfOf(U, r).modified \/ "TMPEXIT" \in FrefOf(U, r).flags
    <3>1. r \in Shown(S) /\ r # s /\ Grows(ExfOf(S, r), ExfOf(U, r))
      BY <1>1, <1>2, <1>4 DEF ExfOf, e
    <3>2. FrefOf(U, r).name = FrefOf(S, r).name /\ FrefOf(U, r).flags = FrefOf(S, r).flags
      BY <3>1
    <3>3. /\ FrefOf(S, r).name \in Tmp /\ "TMPFILE" \notin FrefOf(S, r).flags
               => "tmp" \in ExfOf(S, r).slips
          /\ ExfOf(S, r).work /\ ExfOf(S, r).slips = {}
               => ExfOf(S, r).modified \/ "TMPEXIT" \in FrefOf(S, r).flags
      BY <3>1 DEF Sound, Guarded
    <3> QED BY <3>1, <3>2, <3>3 DEF Grows
  <2> QED BY <2>1, <2>2 DEF Guarded
<1>10. Saw(U)
  BY Nothings DEF Saw, Grows, e
<1> QED BY <1>1, <1>5, <1>6, <1>7, <1>8, <1>9, <1>10 DEF Sound

LEMMA DropIs ==
    ASSUME NEW S \in State, NEW e \in Exf
    PROVE  LET T == Drop(S, e)
               x == S.exf[e]
           IN  /\ T \in State /\ T.scr = S.scr /\ SameQueues(S, T) /\ SameFrefs(S, T)
               /\ T.disk = S.disk /\ T.temps = S.temps /\ T.exf = [S.exf EXCEPT ![e] = NoExf]
               /\ T.rc = S.rc /\ T.forced = S.forced /\ T.clobbered = S.clobbered
               /\ T.broken = S.broken /\ T.cmds = S.cmds
               /\ "plain" \notin S.lost /\ (S.forced \/ ~x.work \/ x.slips # {})
                    => "plain" \notin T.lost
<1> DEFINE x == S.exf[e]
           loss == IF x.work /\ x.kept = Null /\ ~S.forced
                   THEN IF x.slips = {} THEN {"plain"} ELSE x.slips
                   ELSE {}
           X == [S.exf EXCEPT ![e] = NoExf]
           L == [p \in Path |-> IF S.lock[p] = e THEN None ELSE S.lock[p]]
           T == [S EXCEPT !.exf = X, !.lost = @ \cup loss, !.lock = L]
<1>1. Drop(S, e) = T
  BY DEF Drop
<1>2. x \in ExfRec
  BY StateIs
<1>3. loss \subseteq Slip \cup {"plain"}
  BY <1>2 DEF ExfRec
<1>4. (S.forced \/ ~x.work \/ x.slips # {}) => "plain" \notin loss
  BY <1>2 DEF ExfRec, Slip
<1>5. X \in [Exf -> ExfRec] /\ X = [S.exf EXCEPT ![e] = NoExf]
  BY StateIs, Nothings
<1>6. L \in [Path -> Exf \cup {None, Other}]
  BY StateIs
<1> HIDE DEF loss, X, L
<1>7. T \in State
  BY <1>3, <1>5, <1>6 DEF State
<1>8. /\ T.scr = S.scr /\ SameQueues(S, T) /\ SameFrefs(S, T)
      /\ T.disk = S.disk /\ T.temps = S.temps /\ T.exf = X /\ T.lost = S.lost \cup loss
      /\ T.rc = S.rc /\ T.forced = S.forced /\ T.clobbered = S.clobbered
      /\ T.broken = S.broken /\ T.cmds = S.cmds
  BY DEF State, SameQueues, SameFrefs
<1> HIDE DEF T
<1> QED BY <1>1, <1>4, <1>5, <1>7, <1>8

\* T is S after the temporary file p of FREF f, which screen s had, went.
TempDropped(S, T, s, f, p) ==
    /\ T \in State /\ T.scr = [S.scr EXCEPT ![s].frp = None] /\ SameQueues(S, T)
    /\ SameTold(S, T) /\ T.disk = S.disk \ {p} /\ T.temps = S.temps \ {p}
    /\ \A e \in Exf : T.exf[e] = Touched(S.exf[e], p)
    /\ \A g \in Fref : g # f => T.fref[g] = S.fref[g]
    /\ \A g \in Range(S.frefq) : g # f => g \in Range(T.frefq)
    /\ T.fref[f].tname = Null
    /\ "TMPFILE" \notin S.fref[f].flags =>
         /\ Range(T.frefq) = Range(S.frefq)
         /\ T.fref[f].name = S.fref[f].name /\ T.fref[f].flags = S.fref[f].flags
    /\ "TMPFILE" \in S.fref[f].flags => T.fref[f].flags = {}

LEMMA DropTempIs ==
    ASSUME NEW S \in State, NEW s \in Scr, NEW f \in Fref, NEW p, p = S.fref[f].tname, p # Null
    PROVE  TempDropped(S, DropTemp(S, s, f), s, f, p)
<1> DEFINE F == [S.fref EXCEPT ![f].tname = Null]
           C == [S.scr EXCEPT ![s].frp = None]
           R == [S EXCEPT !.fref = F, !.scr = C]
           V == Unlink(R, p)
           U == [V EXCEPT !.frefq = Without(@, {f}), !.fref[f] = NoFref]
<1>1. DropTemp(S, s, f) = IF "TMPFILE" \in S.fref[f].flags THEN U ELSE V
  BY DEF DropTemp
<1>2. S.fref[f] \in FrefRec /\ p \in Tmp
  BY StateIs DEF FrefRec
<1>3. /\ F \in [Fref -> FrefRec] /\ \A g \in Fref : g # f => F[g] = S.fref[g]
      /\ F[f].tname = Null /\ F[f].name = S.fref[f].name /\ F[f].flags = S.fref[f].flags
  BY <1>2, StateIs DEF FrefRec
<1>4. C \in [Scr -> ScrRec] /\ C = [S.scr EXCEPT ![s].frp = None]
  <2>1. S.scr \in [Scr -> ScrRec] /\ S.scr[s] \in ScrRec
    BY StateIs
  <2>2. [S.scr[s] EXCEPT !.frp = None] \in ScrRec
    BY <2>1 DEF ScrRec
  <2>3. C = [S.scr EXCEPT ![s] = [S.scr[s] EXCEPT !.frp = None]]
    BY <2>1
  <2> QED BY <2>1, <2>2, <2>3
<1> HIDE DEF F, C
<1>5. /\ R \in State /\ R.scr = C /\ R.fref = F /\ R.frefq = S.frefq /\ R.exf = S.exf
      /\ SameQueues(S, R) /\ SameTold(S, R) /\ SameDisk(S, R)
  BY <1>3, <1>4 DEF State, SameQueues, SameTold, SameDisk
<1> HIDE DEF R
<1>6. p \in Path \cup {Null} /\ p # Null
  BY <1>2, Constants
<1>7. /\ V \in State /\ V.scr = R.scr
      /\ SameQueues(R, V) /\ SameTold(R, V) /\ SameFrefs(R, V)
      /\ V.disk = R.disk \ {p} /\ V.temps = R.temps \ {p}
      /\ \A e \in Exf : V.exf[e] = Touched(R.exf[e], p)
  BY <1>5, <1>6, UnlinkIs
<1> HIDE DEF V
<1>8. /\ V.scr = C /\ SameQueues(S, V) /\ SameTold(S, V) /\ V.disk = S.disk \ {p}
      /\ V.temps = S.temps \ {p} /\ V.fref = F /\ V.frefq = S.frefq
      /\ \A e \in Exf : V.exf[e] = Touched(S.exf[e], p)
  BY <1>5, <1>7 DEF SameQueues, SameTold, SameFrefs, SameDisk
<1>9. CASE "TMPFILE" \notin S.fref[f].flags
  <2>1. DropTemp(S, s, f) = V
    BY <1>1, <1>9
  <2> QED BY <1>3, <1>4, <1>7, <1>8, <1>9, <2>1 DEF TempDropped
<1>10. CASE "TMPFILE" \in S.fref[f].flags
  <2> DEFINE G == [V.fref EXCEPT ![f] = NoFref]
             Q == Without(V.frefq, {f})
  <2>1. G \in [Fref -> FrefRec] /\ G[f] = NoFref /\ \A g \in Fref : g # f => G[g] = V.fref[g]
    BY <1>3, <1>8, Nothings
  <2>2. Q \in Seq(Fref) /\ Range(Q) = Range(S.frefq) \ {f}
    BY <1>8, StateIs, WithoutIs
  <2> HIDE DEF Q
  <2>3. U \in State /\ U.scr = V.scr /\ U.exf = V.exf /\ U.fref = G /\ U.frefq = Q
        /\ U.disk = V.disk /\ U.temps = V.temps
    BY <1>7, <2>1, <2>2 DEF State, Q
  <2>4. SameQueues(V, U) /\ SameTold(V, U)
    BY <1>7 DEF State, SameQueues, SameTold
  <2> HIDE DEF U, G
  <2>5. DropTemp(S, s, f) = U
    BY <1>1, <1>10
  <2>6. SameQueues(S, U) /\ SameTold(S, U)
    BY <1>8, <2>4 DEF SameQueues, SameTold
  <2>7. U.scr = [S.scr EXCEPT ![s].frp = None] /\ U.disk = S.disk \ {p} /\ U.temps = S.temps \ {p}
        /\ \A e \in Exf : U.exf[e] = Touched(S.exf[e], p)
    BY <1>4, <1>8, <2>3
  <2>8. /\ \A g \in Fref : g # f => U.fref[g] = S.fref[g]
        /\ \A g \in Range(S.frefq) : g # f => g \in Range(U.frefq)
        /\ U.fref[f].tname = Null /\ U.fref[f].flags = {}
    BY <1>3, <1>8, <2>1, <2>2, <2>3, Nothings
  <2> QED BY <1>10, <2>3, <2>5, <2>6, <2>7, <2>8 DEF TempDropped
<1> QED BY <1>9, <1>10

\* Nothing is lost when the EXF of s goes now.
Safe(S, s) == S.forced \/ ExfOf(S, s).refcnt > 1 \/ ~ExfOf(S, s).work \/ ExfOf(S, s).slips # {}

LEMMA EndIs ==
    ASSUME NEW S, NEW P, Sound(S, P), ~S.broken, NEW s \in Shown(S), NEW dd,
           S.scr[s].frp = dd => dd \in P
    PROVE  LET T == FileEnd(S, s, dd)
               e == S.scr[s].ep
           IN  /\ T \in State /\ Sound(Gone(T, s), P) /\ SameQueues(S, T)
               /\ T.rc = S.rc /\ T.forced = S.forced /\ T.clobbered = S.clobbered
               /\ T.broken = S.broken /\ T.cmds = S.cmds
               /\ \A t \in Scr : t # s => T.scr[t] = S.scr[t]
               /\ T.scr[s].ep = e /\ T.scr[s].argv = S.scr[s].argv /\ T.scr[s].pos = S.scr[s].pos
               /\ \A x \in Exf : x # e => T.exf[x].refcnt = S.exf[x].refcnt
               /\ dd \in Fref => T.fref[dd] = S.fref[dd]
               /\ dd \in Range(S.frefq) => dd \in Range(T.frefq)
               /\ Safe(S, s) /\ "plain" \notin S.lost => "plain" \notin T.lost
<1> DEFINE e == S.scr[s].ep
           f == S.scr[s].frp
           X == [S.exf EXCEPT ![e].refcnt = @ - 1]
           R == [S EXCEPT !.exf = X]
           D == IF f # dd /\ S.fref[f].tname # Null THEN DropTemp(R, s, f) ELSE R
           T == Drop(D, e)
           U == Gone(T, s)
<1>1. FileEnd(S, s, dd) = IF S.exf[e].refcnt > 1 THEN R ELSE T
  BY DEF FileEnd
<1>2. /\ S \in State /\ s \in Scr /\ e \in Exf /\ f \in Fref /\ f \in Range(S.frefq)
      /\ S.fref[f] \in FrefRec /\ S.exf[e] \in ExfRec /\ S.scr[s] \in ScrRec
  BY ShownIs DEF Sound, ExfOf, FrefOf
<1>3. S.temps \subseteq S.disk /\ S.temps \subseteq Tmp /\ S.temps = S.temps
  BY <1>2, StateIs DEF Sound, Named
<1>4. /\ X \in [Exf -> ExfRec] /\ X[e].refcnt = S.exf[e].refcnt - 1
      /\ X[e].work = S.exf[e].work /\ X[e].slips = S.exf[e].slips
      /\ X[e].modified = S.exf[e].modified /\ X[e].saw = S.exf[e].saw
      /\ X[e].knows = S.exf[e].knows
      /\ \A x \in Exf : x # e => X[x] = S.exf[x]
  <2> DEFINE y == [S.exf[e] EXCEPT !.refcnt = @ - 1]
  <2>1. /\ y \in ExfRec /\ y.refcnt = S.exf[e].refcnt - 1
        /\ y.work = S.exf[e].work /\ y.slips = S.exf[e].slips
        /\ y.modified = S.exf[e].modified /\ y.saw = S.exf[e].saw
        /\ y.knows = S.exf[e].knows
    <3> DEFINE x == S.exf[e]
    <3>1. x \in ExfRec /\ y = [x EXCEPT !.refcnt = x.refcnt - 1]
      BY <1>2
    <3> HIDE DEF x, y
    <3>2. /\ y \in ExfRec /\ y.refcnt = x.refcnt - 1 /\ y.work = x.work /\ y.slips = x.slips
          /\ y.modified = x.modified /\ y.saw = x.saw /\ y.knows = x.knows
      BY <3>1 DEF ExfRec
    <3> QED BY <3>2 DEF x
  <2>2. S.exf \in [Exf -> ExfRec] /\ X = [S.exf EXCEPT ![e] = y]
    BY <1>2, StateIs
  <2> HIDE DEF y, X, e
  <2>3. X \in [Exf -> ExfRec] /\ X[e] = y /\ \A x \in Exf : x # e => X[x] = S.exf[x]
    BY <1>2, <2>1, <2>2
  <2> QED BY <2>1, <2>3
<1> HIDE DEF X
<1>5. /\ R \in State /\ R.exf = X /\ R.scr = S.scr /\ SameQueues(S, R) /\ SameTold(S, R)
      /\ SameFrefs(S, R) /\ SameDisk(S, R)
  BY <1>2, <1>4 DEF State, SameQueues, SameTold, SameFrefs, SameDisk
<1> HIDE DEF R, e, f
<1>6. CASE S.exf[e].refcnt > 1
  <2> DEFINE V == Gone(R, s)
  <2>1. /\ V \in State /\ V.scr = [R.scr EXCEPT ![s] = NoScr] /\ V.exf = R.exf
        /\ SameTold(R, V) /\ SameFrefs(R, V) /\ SameDisk(R, V)
    BY <1>2, <1>5, GoneIs
  <2> HIDE DEF V
  <2>2. /\ V.scr = [S.scr EXCEPT ![s] = NoScr] /\ V.exf = X /\ V.fref = S.fref
        /\ V.frefq = S.frefq /\ V.disk = S.disk /\ V.temps = S.temps /\ V.broken = S.broken
    BY <1>5, <2>1 DEF SameTold, SameFrefs, SameDisk
  <2>3. /\ Shown(V) = Shown(S) \ {s} /\ Screened(V)
        /\ \A t \in Shown(V) : V.scr[t] = S.scr[t]
        /\ \A x \in Exf : Users(V, x) = Users(S, x) \ {s}
        /\ Cardinality(Users(V, e)) = S.exf[e].refcnt - 1
        /\ \A x \in Exf : x # e => Cardinality(Users(V, x)) = S.exf[x].refcnt
    BY <2>2, OthersIs DEF e
  <2>4. Counted(V)
    BY <1>4, <2>2, <2>3 DEF Counted
  <2>5. Listed(V) /\ Together(V) /\ Named(V)
    <3>1. Listed(S) /\ Together(S) /\ Named(S)
      BY DEF Sound
    <3>2. \A r \in Shown(V) : FrefOf(V, r) = FrefOf(S, r)
      BY <2>2, <2>3 DEF FrefOf
    <3>3. Listed(V)
      BY <2>2, <2>3, <3>1, <3>2 DEF Listed
    <3>4. Together(V)
      BY <2>2, <2>3, <3>1, <3>2 DEF Together
    <3>5. Named(V)
      BY <2>2, <3>1 DEF Named
    <3> QED BY <3>3, <3>4, <3>5
  <2>6. Used(V, P)
    <3>1. PICK r \in Shown(V) : S.scr[r].ep = e
      <4>1. Users(V, e) \in SUBSET Scr
        BY DEF Users
      <4>2. Cardinality(Users(V, e)) # 0
        BY <1>2, <1>6, <2>3 DEF ExfRec
      <4>3. Users(V, e) # {}
        BY <4>1, <4>2, Sized
      <4>4. PICK r \in Scr : V.scr[r].ep = e
        BY <4>3 DEF Users
      <4>5. r \in Shown(V)
        BY <1>2, <4>4, Constants DEF Shown
      <4> QED BY <2>3, <4>4, <4>5
    <3>2. S.scr[r].frp = f /\ r \in Shown(S)
      BY <2>3, <3>1 DEF Sound, Together, e, f
    <3>3. {S.scr[t].frp : t \in Shown(S)} = {V.scr[t].frp : t \in Shown(V)}
      BY <2>3, <3>1, <3>2 DEF f
    <3> QED BY <2>2, <3>3 DEF Sound, Used
  <2>7. Guarded(V)
    <3>1. \A t \in Shown(V) : /\ FrefOf(V, t) = FrefOf(S, t) /\ t \in Shown(S)
                              /\ ExfOf(V, t).work = ExfOf(S, t).work
                              /\ ExfOf(V, t).slips = ExfOf(S, t).slips
                              /\ ExfOf(V, t).modified = ExfOf(S, t).modified
      <4> TAKE t \in Shown(V)
      <4>1. t \in Shown(S) /\ S.scr[t].ep \in Exf /\ V.scr[t] = S.scr[t]
        BY <2>3, ShownIs
      <4>2. CASE S.scr[t].ep = e
        BY <1>4, <2>2, <4>1, <4>2 DEF FrefOf, ExfOf
      <4>3. CASE S.scr[t].ep # e
        BY <1>4, <2>2, <4>1, <4>3 DEF FrefOf, ExfOf
      <4> QED BY <4>2, <4>3
    <3> QED BY <2>2, <3>1 DEF Sound, Guarded
  <2>8. Saw(V)
    <3>1. \A x \in Exf : X[x].saw = S.exf[x].saw /\ X[x].knows = S.exf[x].knows
                         /\ X[x].slips = S.exf[x].slips
      BY <1>4
    <3> QED BY <2>2, <3>1 DEF Sound, Saw
  <2>9. Sound(V, P)
    BY <2>1, <2>3, <2>4, <2>5, <2>6, <2>7, <2>8 DEF Sound
  <2>10. FileEnd(S, s, dd) = R
    BY <1>1, <1>6
  <2>11. \A x \in Exf : x # e => R.exf[x].refcnt = S.exf[x].refcnt
    BY <1>4, <1>5
  <2> QED BY <1>5, <2>9, <2>10, <2>11 DEF SameTold, SameFrefs, V, e
<1>7. CASE ~(S.exf[e].refcnt > 1)
  <2> DEFINE p == S.fref[f].tname
  <2>1. /\ D \in State /\ SameQueues(S, D) /\ SameTold(S, D)
        /\ \A t \in Scr : t # s => D.scr[t] = S.scr[t]
        /\ D.scr[s].ep = e /\ D.scr[s].argv = S.scr[s].argv /\ D.scr[s].pos = S.scr[s].pos
        /\ [D.scr EXCEPT ![s] = NoScr] = [S.scr EXCEPT ![s] = NoScr]
        /\ D.exf[e].work = S.exf[e].work /\ D.exf[e].slips = S.exf[e].slips
        /\ \A x \in Exf : D.exf[x] = X[x] \/ D.exf[x] = Touched(X[x], p)
        /\ \A g \in Fref : g # f => D.fref[g] = S.fref[g]
        /\ \A g \in Range(S.frefq) : g # f => g \in Range(D.frefq)
        /\ D.temps \subseteq S.temps /\ D.temps \subseteq D.disk
        /\ dd = f => D.fref = S.fref /\ D.frefq = S.frefq
        /\ dd # f /\ p \in D.temps => p = Null
        /\ "TMPFILE" \notin S.fref[f].flags =>
             /\ Range(D.frefq) = Range(S.frefq)
             /\ D.fref[f].name = S.fref[f].name /\ D.fref[f].flags = S.fref[f].flags
        /\ D.fref[f].flags = S.fref[f].flags \/ D.fref[f].flags = {}
        /\ D.fref[f].tname = S.fref[f].tname \/ D.fref[f].tname = Null
        /\ \A g \in Fref : g # f /\ S.fref[g].tname # Null /\ S.fref[g].tname \in S.temps
              => S.fref[g].tname \in D.temps
        /\ D.fref[f].tname # Null => D.temps = S.temps
    <3>1. CASE f # dd /\ p # Null
      <4>1. D = DropTemp(R, s, f)
        BY <3>1
      <4>2. R.fref[f].tname = p /\ R.fref[f] = S.fref[f] /\ R.frefq = S.frefq
        BY <1>5 DEF SameFrefs
      <4>3. /\ D \in State /\ D.scr = [R.scr EXCEPT ![s].frp = None] /\ SameQueues(R, D)
            /\ SameTold(R, D) /\ D.disk = R.disk \ {p} /\ D.temps = R.temps \ {p}
            /\ \A x \in Exf : D.exf[x] = Touched(R.exf[x], p)
            /\ \A g \in Fref : g # f => D.fref[g] = R.fref[g]
            /\ \A g \in Range(R.frefq) : g # f => g \in Range(D.frefq)
            /\ D.fref[f].tname = Null
            /\ "TMPFILE" \notin R.fref[f].flags =>
                 /\ Range(D.frefq) = Range(R.frefq)
                 /\ D.fref[f].name = R.fref[f].name /\ D.fref[f].flags = R.fref[f].flags
            /\ "TMPFILE" \in R.fref[f].flags => D.fref[f].flags = {}
        <5>1. R \in State /\ s \in Scr /\ f \in Fref /\ p = R.fref[f].tname /\ p # Null
          BY <1>2, <1>5, <3>1, <4>2
        <5> HIDE DEF D, p
        <5>2. TempDropped(R, D, s, f, p)
          BY <4>1, <5>1, DropTempIs
        <5> QED BY <5>2 DEF TempDropped
      <4> HIDE DEF D
      <4>4. SameQueues(S, D) /\ SameTold(S, D)
        BY <1>5, <4>3 DEF SameQueues, SameTold
      <4>5. /\ \A t \in Scr : t # s => D.scr[t] = S.scr[t]
            /\ D.scr[s].ep = e /\ D.scr[s].argv = S.scr[s].argv /\ D.scr[s].pos = S.scr[s].pos
            /\ [D.scr EXCEPT ![s] = NoScr] = [S.scr EXCEPT ![s] = NoScr]
        <5>1. S.scr \in [Scr -> ScrRec] /\ D.scr = [S.scr EXCEPT ![s].frp = None]
          BY <1>2, <1>5, <4>3, StateIs
        <5>2. D.scr[s] = [S.scr[s] EXCEPT !.frp = None]
          BY <1>2, <5>1
        <5>3. D.scr[s].ep = e /\ D.scr[s].argv = S.scr[s].argv /\ D.scr[s].pos = S.scr[s].pos
          BY <1>2, <5>2 DEF ScrRec, e
        <5> QED BY <1>2, <5>1, <5>3
      <4>6. D.exf[e].work = S.exf[e].work /\ D.exf[e].slips = S.exf[e].slips
        BY <1>2, <1>4, <1>5, <4>3, TouchedIs
      <4>7. \A x \in Exf : D.exf[x] = X[x] \/ D.exf[x] = Touched(X[x], p)
        BY <1>5, <4>3
      <4>8. D.temps = S.temps \ {p} /\ D.disk = S.disk \ {p}
        BY <1>5, <4>3 DEF SameDisk
      <4>9. \A g \in Fref : g # f /\ S.fref[g].tname # Null /\ S.fref[g].tname \in S.temps
              => S.fref[g].tname \in D.temps
        BY <1>2, <4>8 DEF Sound, Named
      <4>10. \A g \in Fref : g # f => D.fref[g] = S.fref[g]
        BY <1>5, <4>3 DEF SameFrefs
      <4>11. /\ \A g \in Range(S.frefq) : g # f => g \in Range(D.frefq)
             /\ D.fref[f].tname = Null
             /\ "TMPFILE" \notin S.fref[f].flags =>
                  /\ Range(D.frefq) = Range(S.frefq)
                  /\ D.fref[f].name = S.fref[f].name /\ D.fref[f].flags = S.fref[f].flags
             /\ D.fref[f].flags = S.fref[f].flags \/ D.fref[f].flags = {}
        BY <4>2, <4>3
      <4>12. D.temps \subseteq S.temps /\ D.temps \subseteq D.disk /\ p \notin D.temps
        BY <1>3, <4>8
      <4> QED BY <3>1, <4>3, <4>4, <4>5, <4>6, <4>7, <4>9, <4>10, <4>11, <4>12
    <3>2. CASE ~(f # dd /\ p # Null)
      <4>1. D = R
        BY <3>2
      <4>2. /\ D.fref = S.fref /\ D.frefq = S.frefq /\ D.disk = S.disk /\ D.temps = S.temps
            /\ D.scr = S.scr /\ D.exf = X /\ D \in State /\ SameQueues(S, D) /\ SameTold(S, D)
        BY <1>5, <4>1 DEF SameFrefs, SameDisk
      <4> HIDE DEF D
      <4>3. dd # f => p = Null
        BY <3>2
      <4> QED BY <1>3, <1>4, <4>2, <4>3 DEF e
    <3> QED BY <3>1, <3>2
  <2> HIDE DEF D
  <2>2. /\ T \in State /\ T.scr = D.scr /\ SameQueues(D, T) /\ SameFrefs(D, T)
        /\ T.disk = D.disk /\ T.temps = D.temps /\ T.exf = [D.exf EXCEPT ![e] = NoExf]
        /\ T.rc = D.rc /\ T.forced = D.forced /\ T.clobbered = D.clobbered
        /\ T.broken = D.broken /\ T.cmds = D.cmds
        /\ "plain" \notin D.lost /\ (D.forced \/ ~D.exf[e].work \/ D.exf[e].slips # {})
             => "plain" \notin T.lost
    <3>1. D \in State /\ e \in Exf
      BY <1>2, <2>1
    <3> HIDE DEF e
    <3> QED BY <3>1, DropIs
  <2> HIDE DEF T
  <2>3. /\ U \in State /\ U.scr = [T.scr EXCEPT ![s] = NoScr] /\ U.exf = T.exf
        /\ SameTold(T, U) /\ SameFrefs(T, U) /\ SameDisk(T, U)
    BY <1>2, <2>2, GoneIs
  <2> HIDE DEF U
  <2>4. /\ U.scr = [S.scr EXCEPT ![s] = NoScr] /\ U.exf = [D.exf EXCEPT ![e] = NoExf]
        /\ U.fref = D.fref /\ U.frefq = D.frefq /\ U.temps = D.temps /\ U.disk = D.disk
        /\ U.broken = S.broken
    BY <2>1, <2>2, <2>3 DEF SameTold, SameFrefs, SameDisk
  <2>5. D.exf \in [Exf -> ExfRec]
    BY <2>1, StateIs
  <2>6. \A x \in Exf : x # e => Grows(S.exf[x], U.exf[x])
    <3> TAKE x \in Exf
    <3> SUFFICES ASSUME x # e
                 PROVE  Grows(S.exf[x], U.exf[x])
      OBVIOUS
    <3>1. U.exf[x] = D.exf[x] /\ X[x] = S.exf[x] /\ S.exf[x] \in ExfRec
      BY <1>2, <1>4, <2>4, <2>5, StateIs
    <3>2. S.exf[x].saw \in S.exf[x].knows \cup {Null} \/ "appended" \in S.exf[x].slips
      BY DEF Sound, Saw
    <3>3. U.exf[x] = S.exf[x] \/ U.exf[x] = Touched(S.exf[x], p)
      BY <2>1, <3>1
    <3> HIDE DEF p
    <3>4. CASE U.exf[x] = S.exf[x]
      BY <3>2, <3>4 DEF Grows
    <3>5. CASE U.exf[x] = Touched(S.exf[x], p)
      BY <3>1, <3>2, <3>5, TouchedIs DEF Grows
    <3> QED BY <3>3, <3>4, <3>5
  <2>7. \A r \in Shown(S) \ {s} : /\ S.scr[r].frp \in Range(U.frefq)
                                  /\ FrefOf(U, r).name = FrefOf(S, r).name
                                  /\ FrefOf(U, r).flags = FrefOf(S, r).flags
    <3> TAKE r \in Shown(S) \ {s}
    <3> DEFINE g == S.scr[r].frp
    <3>1. r \in Scr /\ g \in Fref /\ g \in Range(S.frefq) /\ U.scr[r] = S.scr[r]
          /\ S.scr[r].ep \in Exf
      BY <1>2, <2>4, ShownIs, StateIs
    <3>2. CASE g # f
      BY <2>1, <2>4, <3>1, <3>2 DEF FrefOf
    <3>3. CASE g = f
      <4>1. "TMPFILE" \notin S.fref[f].flags
        <5>1. SUFFICES ASSUME "TMPFILE" \in S.fref[f].flags
                       PROVE  FALSE
          OBVIOUS
        <5>2. S.scr[r].ep = e
          BY <3>3, <5>1 DEF Sound, Together, FrefOf, e, f
        <5>3. s \in Users(S, e) /\ r \in Users(S, e) \ {s}
          BY <1>2, <3>1, <5>2 DEF Users, e
        <5>4. Users(S, e) \in SUBSET Scr /\ Users(S, e) \ {s} \in SUBSET Scr
          BY DEF Users
        <5>5. Cardinality(Users(S, e) \ {s}) = S.exf[e].refcnt - 1
          BY <1>2, <5>3, <5>4, Sized DEF Sound, Counted
        <5>6. Cardinality(Users(S, e) \ {s}) \in Nat /\ Cardinality(Users(S, e) \ {s}) # 0
          BY <5>3, <5>4, Sized
        <5> QED BY <1>2, <1>7, <5>5, <5>6 DEF ExfRec
      <4> QED BY <2>1, <2>4, <3>1, <3>3, <4>1 DEF FrefOf
    <3> QED BY <3>2, <3>3
  <2>8. \A g \in Fref : /\ U.fref[g].tname # Null => /\ U.fref[g].tname = S.fref[g].tname
                                                      /\ U.fref[g].tname \in U.temps
                        /\ U.fref[g].flags = S.fref[g].flags \/ U.fref[g].flags = {}
                        /\ S.fref[g].tname \in U.temps =>
                             /\ U.fref[g].tname = S.fref[g].tname
                             /\ g = S.scr[s].frp => g \in P
    <3> TAKE g \in Fref
    <3>1. S.fref[g].tname # Null => S.fref[g].tname \in S.temps
      BY DEF Sound, Named
    <3>2. CASE g # f
      BY <2>1, <2>4, <3>1, <3>2 DEF f
    <3>3. CASE g = f
      <4>1. Null \notin U.temps
        BY <1>3, <2>1, <2>4, Constants
      <4>2. p \in U.temps => dd = f
        BY <2>1, <2>4, <4>1
      <4>3. dd = f => dd \in P
        BY DEF f
      <4> QED BY <2>1, <2>4, <3>1, <3>3, <4>2, <4>3 DEF f
    <3> QED BY <3>2, <3>3
  <2>9. Sound(U, P)
    <3>1. S.exf[e].refcnt <= 1 /\ U.exf[e] = NoExf
      BY <1>2, <1>7, <2>4, <2>5 DEF ExfRec
    <3>2. U.temps \subseteq S.temps /\ U.temps \subseteq U.disk /\ ~U.broken
      BY <2>1, <2>4
    <3>3. S.exf[S.scr[s].ep].refcnt <= 1 /\ U.exf[S.scr[s].ep] = NoExf
          /\ \A x \in Exf : x # S.scr[s].ep => Grows(S.exf[x], U.exf[x])
      BY <2>6, <3>1 DEF e
    <3>4. U \in State /\ U.scr = [S.scr EXCEPT ![s] = NoScr]
      BY <2>3, <2>4
    <3> HIDE DEF p
    <3> QED BY <2>7, <2>8, <3>2, <3>3, <3>4, EndedSound
  <2>10. FileEnd(S, s, dd) = T
    BY <1>1, <1>7
  <2>11. SameQueues(S, T) /\ T.rc = S.rc /\ T.forced = S.forced /\ T.clobbered = S.clobbered
         /\ T.broken = S.broken /\ T.cmds = S.cmds
    BY <2>1, <2>2 DEF SameQueues, SameTold
  <2>12. \A x \in Exf : x # e => T.exf[x].refcnt = S.exf[x].refcnt
    <3>1. T.exf = U.exf
      BY <2>2, <2>4
    <3> QED BY <2>6, <3>1 DEF Grows
  <2>13. dd \in Fref => T.fref[dd] = S.fref[dd]
    BY <2>1, <2>2 DEF SameFrefs
  <2>14. dd \in Range(S.frefq) => dd \in Range(T.frefq)
    BY <2>1, <2>2 DEF SameFrefs
  <2>15. Safe(S, s) /\ "plain" \notin S.lost => "plain" \notin T.lost
    BY <1>2, <1>7, <2>1, <2>2 DEF Safe, SameTold, ExfOf, e
  <2> QED BY <2>1, <2>2, <2>9, <2>10, <2>11, <2>12, <2>13, <2>14, <2>15 DEF U, e
<1> QED BY <1>6, <1>7

-----------------------------------------------------------------------------
(* What a call leaves alone                                                *)

\* Nothing that Sound() is about, beside what may happen to any EXF.
LEMMA SameSound ==
    ASSUME NEW S, NEW T \in State, NEW P, Sound(S, P), SameShown(S, T), Screened(T),
           SameFrefs(S, T), SameDisk(S, T), T.broken = S.broken, T.exf = S.exf
    PROVE  Sound(T, P)
<1>1. \A e \in Exf : Grows(S.exf[e], T.exf[e])
  BY DEF Grows, Sound, Saw
<1>2. T.temps = S.temps /\ T.temps \subseteq T.disk
  BY DEF SameDisk, Sound, Named
<1> QED BY <1>1, <1>2, GrowsSound

\* The screens stay where they are and keep their files; no text goes.
Mild(S, T) ==
    /\ Sound(T, {}) /\ SameQueues(S, T) /\ SameShown(S, T) /\ T.forced = S.forced
    /\ ~T.broken /\ (Clean(S) => Clean(T))

LEMMA MildTwice ==
    ASSUME NEW S, NEW T, NEW U, Mild(S, T), Mild(T, U)
    PROVE  Mild(S, U)
BY DEF Mild, SameQueues, SameShown

LEMMA FailIs ==
    ASSUME NEW S, Sound(S, {}), ~S.broken
    PROVE  Mild(S, Fail(S)) /\ Failed(Fail(S)) /\ Fail(S).scr = S.scr
<1> DEFINE T == [S EXCEPT !.rc = 1]
<1>1. S \in State
  BY DEF Sound
<1>2. /\ T \in State /\ T.scr = S.scr /\ T.exf = S.exf /\ T.rc = 1 /\ T.lost = S.lost
      /\ T.clobbered = S.clobbered /\ T.forced = S.forced /\ T.broken = S.broken
      /\ SameQueues(S, T) /\ SameFrefs(S, T) /\ SameDisk(S, T)
  BY <1>1 DEF State, SameQueues, SameFrefs, SameDisk
<1>3. Fail(S) = T
  BY DEF Fail
<1> HIDE DEF T
<1>4. SameShown(S, T) /\ Screened(T)
  BY <1>2 DEF SameShown, Screened, Sound
<1>5. Sound(T, {})
  BY <1>2, <1>4, SameSound
<1> QED BY <1>2, <1>3, <1>4, <1>5 DEF Mild, Clean, Failed

LEMMA MildSame ==
    ASSUME NEW S, Sound(S, {}), ~S.broken
    PROVE  Mild(S, S)
BY DEF Mild, SameQueues, SameShown

-----------------------------------------------------------------------------
(* The name and the flags of an FREF change                                *)

LEMMA FlagsSound ==
    ASSUME NEW S, NEW T \in State, NEW P, Sound(S, P), ~S.broken, NEW f \in Fref,
           T.scr = S.scr, T.frefq = S.frefq, T.temps = S.temps, T.temps \subseteq T.disk,
           \A g \in Fref : g # f => T.fref[g] = S.fref[g],
           T.fref[f].tname = S.fref[f].tname,
           \A s \in Shown(S) : S.scr[s].frp = f => T.fref[f].name # Null,
           "TMPFILE" \in T.fref[f].flags => "TMPFILE" \in S.fref[f].flags,
           \A e \in Exf : T.exf[e].refcnt = S.exf[e].refcnt,
           Guarded(T), Saw(T)
    PROVE  Sound(T, P)
<1>1. Shown(T) = Shown(S) /\ \A e \in Exf : Users(T, e) = Users(S, e)
  BY DEF Shown, Users
<1>2. Screened(T) /\ Counted(T)
  BY <1>1 DEF Sound, Screened, Counted
<1>3. \A s \in Shown(S) : S.scr[s].frp \in Fref /\ S.scr[s].frp \in Range(S.frefq)
                          /\ FrefOf(S, s).name # Null
  BY ShownIs
<1>4. Listed(T)
  BY <1>1, <1>3 DEF Listed, FrefOf
<1>5. Together(T)
  <2>1. \A s \in Shown(S) : "TMPFILE" \in FrefOf(T, s).flags => "TMPFILE" \in FrefOf(S, s).flags
    BY <1>3 DEF FrefOf
  <2> QED BY <1>1, <2>1 DEF Sound, Together
<1>6. \A g \in Fref : T.fref[g].tname = S.fref[g].tname
  OBVIOUS
<1>7. Named(T)
  BY <1>6 DEF Sound, Named
<1>8. Used(T, P)
  BY <1>1, <1>6 DEF Sound, Used
<1> QED BY <1>2, <1>4, <1>5, <1>7, <1>8 DEF Sound

\* T is S after FREF f got the name n and the flags X, which are no guard: the
\* EXFs it guarded have slipped.
Renamed(S, T, f, n, X) ==
    /\ T \in State /\ T.scr = S.scr /\ T.frefq = S.frefq /\ SameQueues(S, T)
    /\ SameTold(S, T) /\ SameDisk(S, T)
    /\ \A g \in Fref : g # f => T.fref[g] = S.fref[g]
    /\ T.fref[f].name = n /\ T.fref[f].flags = X /\ T.fref[f].tname = S.fref[f].tname
    /\ \A e \in Exf : /\ T.exf[e].refcnt = S.exf[e].refcnt
                      /\ T.exf[e].modified = S.exf[e].modified
                      /\ T.exf[e].work = S.exf[e].work
                      /\ T.exf[e].saw = S.exf[e].saw
                      /\ T.exf[e].knows = S.exf[e].knows
                      /\ S.exf[e].slips \subseteq T.exf[e].slips
    /\ "TMPFILE" \in S.fref[f].flags =>
         \A s \in Shown(S) : S.scr[s].frp = f => "tmp" \in ExfOf(T, s).slips

LEMMA RenamedSound ==
    ASSUME NEW S, Sound(S, {}), ~S.broken, NEW f \in Fref, NEW T, NEW n, NEW X,
           Renamed(S, T, f, n, X), "TMPFILE" \notin X, "TMPEXIT" \notin X,
           n \in Tmp => n = S.fref[f].name,
           n = Null => S.fref[f].name = Null
    PROVE  Sound(T, {})
<1>1. \A s \in Shown(S) : S.scr[s].ep \in Exf /\ s \in Scr /\ S.scr[s].frp \in Fref
                          /\ FrefOf(S, s).name # Null
  BY ShownIs
<1>2. Shown(T) = Shown(S) /\ T.disk = S.disk /\ T.temps = S.temps /\ S.temps \subseteq S.disk
  BY DEF Renamed, Shown, SameDisk, Sound, Named
<1>3. \A g \in Fref : "TMPEXIT" \in T.fref[g].flags => "TMPFILE" \in T.fref[g].flags
  BY DEF Renamed, Sound, Guarded
<1>4. ASSUME NEW s \in Shown(S)
      PROVE  /\ FrefOf(T, s).name \in Tmp /\ "TMPFILE" \notin FrefOf(T, s).flags
                  => "tmp" \in ExfOf(T, s).slips
             /\ ExfOf(T, s).work /\ ExfOf(T, s).slips = {}
                  => ExfOf(T, s).modified \/ "TMPEXIT" \in FrefOf(T, s).flags
  <2>1. /\ ExfOf(T, s).modified = ExfOf(S, s).modified
        /\ ExfOf(T, s).work = ExfOf(S, s).work
        /\ ExfOf(S, s).slips \subseteq ExfOf(T, s).slips
    BY <1>1 DEF Renamed, ExfOf
  <2>2. /\ FrefOf(S, s).name \in Tmp /\ "TMPFILE" \notin FrefOf(S, s).flags
             => "tmp" \in ExfOf(S, s).slips
        /\ ExfOf(S, s).work /\ ExfOf(S, s).slips = {}
             => ExfOf(S, s).modified \/ "TMPEXIT" \in FrefOf(S, s).flags
    BY DEF Sound, Guarded
  <2>3. ExfOf(T, s).slips = {} => ExfOf(S, s).slips = {}
    BY <2>1
  <2>4. CASE S.scr[s].frp # f
    <3>1. FrefOf(T, s) = FrefOf(S, s)
      BY <1>1, <2>4 DEF Renamed, FrefOf
    <3> QED BY <2>1, <2>2, <2>3, <3>1
  <2>5. CASE S.scr[s].frp = f
    <3>1. FrefOf(T, s).name = n /\ FrefOf(S, s) = S.fref[f] /\ FrefOf(T, s).flags = X
      BY <2>5 DEF Renamed, FrefOf
    <3>2. "TMPFILE" \in FrefOf(S, s).flags => "tmp" \in ExfOf(T, s).slips
      BY <2>5, <3>1 DEF Renamed
    <3>3. "TMPEXIT" \in FrefOf(S, s).flags => "TMPFILE" \in FrefOf(S, s).flags
      BY <3>1 DEF Sound, Guarded
    <3> QED BY <2>1, <2>2, <2>3, <3>1, <3>2, <3>3
  <2> QED BY <2>4, <2>5
<1>5. Guarded(T)
  BY <1>2, <1>3, <1>4 DEF Guarded
<1>6. Saw(T)
  BY DEF Renamed, Sound, Saw
<1>7. \A s \in Shown(S) : S.scr[s].frp = f => T.fref[f].name # Null
  BY <1>1 DEF Renamed, FrefOf
<1>8. /\ T \in State /\ T.scr = S.scr /\ T.frefq = S.frefq
      /\ \A g \in Fref : g # f => T.fref[g] = S.fref[g]
      /\ T.fref[f].tname = S.fref[f].tname /\ T.fref[f].flags = X
      /\ \A e \in Exf : T.exf[e].refcnt = S.exf[e].refcnt
  BY DEF Renamed
<1> QED BY <1>2, <1>5, <1>6, <1>7, <1>8, FlagsSound

\* How the code renames: the EXFs of a guarded FREF slip, then its fields change.
LEMMA RenamedIs ==
    ASSUME NEW S, Sound(S, {}), NEW f \in Fref, NEW n \in Path \cup {Null}, NEW X \in SUBSET Flag,
           NEW R, R = IF "TMPFILE" \in S.fref[f].flags THEN Slipped(S, f, "tmp") ELSE S,
           NEW F \in [Fref -> FrefRec], \A g \in Fref : g # f => F[g] = S.fref[g],
           F[f].name = n, F[f].flags = X, F[f].tname = S.fref[f].tname
    PROVE  Renamed(S, [R EXCEPT !.fref = F], f, n, X)
<1> DEFINE T == [R EXCEPT !.fref = F]
<1>1. S \in State /\ "tmp" \in Slip
  BY DEF Sound, Slip
<1>2. /\ R \in State /\ R.scr = S.scr /\ SameQueues(S, R) /\ SameTold(S, R)
      /\ SameFrefs(S, R) /\ SameDisk(S, R)
      /\ \A e \in Exf : /\ R.exf[e].refcnt = S.exf[e].refcnt
                        /\ R.exf[e].modified = S.exf[e].modified
                        /\ R.exf[e].work = S.exf[e].work
                        /\ R.exf[e].saw = S.exf[e].saw
                        /\ R.exf[e].knows = S.exf[e].knows
                        /\ S.exf[e].slips \subseteq R.exf[e].slips
      /\ "TMPFILE" \in S.fref[f].flags =>
           \A s \in Shown(S) : S.scr[s].frp = f => "tmp" \in ExfOf(R, s).slips
  <2>1. CASE "TMPFILE" \notin S.fref[f].flags
    <3>1. R = S
      BY <2>1
    <3> QED BY <1>1, <2>1, <3>1 DEF SameQueues, SameTold, SameFrefs, SameDisk
  <2>2. CASE "TMPFILE" \in S.fref[f].flags
    <3>1. R = Slipped(S, f, "tmp")
      BY <2>2
    <3>2. /\ R \in State /\ R.scr = S.scr /\ SameQueues(S, R) /\ SameTold(S, R)
          /\ SameFrefs(S, R) /\ SameDisk(S, R)
      BY <1>1, <3>1, SlippedIs
    <3>3. /\ \A e \in Exf : /\ R.exf[e].refcnt = S.exf[e].refcnt
                            /\ R.exf[e].modified = S.exf[e].modified
                            /\ R.exf[e].work = S.exf[e].work
                            /\ R.exf[e].saw = S.exf[e].saw
                            /\ R.exf[e].knows = S.exf[e].knows
                            /\ S.exf[e].slips \subseteq R.exf[e].slips
          /\ \A s \in Shown(S) : S.scr[s].frp = f => "tmp" \in ExfOf(R, s).slips
      BY <1>1, <3>1, SlippedSound
    <3> QED BY <3>2, <3>3
  <2> QED BY <2>1, <2>2
<1>3. /\ T \in State /\ T.scr = R.scr /\ T.frefq = R.frefq /\ T.fref = F /\ T.exf = R.exf
      /\ SameQueues(R, T) /\ SameTold(R, T) /\ SameDisk(R, T)
  BY <1>2 DEF State, SameQueues, SameTold, SameDisk
<1> HIDE DEF T
<1>4. SameQueues(S, T) /\ SameTold(S, T) /\ SameDisk(S, T) /\ T.frefq = S.frefq
  BY <1>2, <1>3 DEF SameQueues, SameTold, SameDisk, SameFrefs
<1>5. \A s \in Scr : ExfOf(T, s) = ExfOf(R, s)
  BY <1>3 DEF ExfOf
<1>6. "TMPFILE" \in S.fref[f].flags =>
           \A s \in Shown(S) : S.scr[s].frp = f => "tmp" \in ExfOf(T, s).slips
  BY <1>2, <1>5 DEF Shown
<1>7. Renamed(S, T, f, n, X)
  BY <1>2, <1>3, <1>4, <1>6 DEF Renamed
<1> QED BY <1>7 DEF T

\* A renamed file is the same for the screens.
LEMMA RenamedMild ==
    ASSUME NEW S, Sound(S, {}), ~S.broken, NEW f, NEW T, NEW n, NEW X,
           Renamed(S, T, f, n, X), Sound(T, {})
    PROVE  Mild(S, T)
BY DEF Mild, Renamed, SameShown, SameTold, Clean

\* file_init() starts with the flags of the FREF.
LEMMA ClearedIs ==
    ASSUME NEW S, Sound(S, {}), ~S.broken, NEW f \in Fref
    PROVE  LET C == [S EXCEPT !.fref[f].flags = {}]
               T == IF "TMPFILE" \in S.fref[f].flags THEN Slipped(C, f, "tmp") ELSE C
           IN  Renamed(S, T, f, S.fref[f].name, {}) /\ Sound(T, {})
<1> DEFINE F == [S.fref EXCEPT ![f].flags = {}]
           C == [S EXCEPT !.fref = F]
           R == IF "TMPFILE" \in S.fref[f].flags THEN Slipped(S, f, "tmp") ELSE S
           T == IF "TMPFILE" \in S.fref[f].flags THEN Slipped(C, f, "tmp") ELSE C
           U == [R EXCEPT !.fref = F]
<1>1. S \in State /\ S.fref[f] \in FrefRec /\ S.fref[f].name \in Path \cup {Null}
  BY StateIs DEF Sound, FrefRec
<1>2. /\ F \in [Fref -> FrefRec] /\ F[f].flags = {} /\ F[f].name = S.fref[f].name
      /\ F[f].tname = S.fref[f].tname /\ \A g \in Fref : g # f => F[g] = S.fref[g]
  BY <1>1, StateIs DEF FrefRec
<1> HIDE DEF F
<1>3. T = U
  <2>1. CASE "TMPFILE" \notin S.fref[f].flags
    BY <2>1
  <2>2. CASE "TMPFILE" \in S.fref[f].flags
    <3> DEFINE H == [e \in Exf |-> IF \E s \in FrefUsers(S, f) : S.scr[s].ep = e
                                   THEN [S.exf[e] EXCEPT !.slips = @ \cup {"tmp"}] ELSE S.exf[e]]
    <3>1. C.scr = S.scr /\ C.exf = S.exf
      BY <1>1 DEF State
    <3>2. FrefUsers(C, f) = FrefUsers(S, f)
      BY <3>1 DEF FrefUsers
    <3>3. Slipped(C, f, "tmp") = [C EXCEPT !.exf = H]
      <4> HIDE DEF C
      <4> QED BY <3>1, <3>2 DEF Slipped
    <3>4. Slipped(S, f, "tmp") = [S EXCEPT !.exf = H]
      BY DEF Slipped
    <3> HIDE DEF H
    <3>5. [C EXCEPT !.exf = H] = [[S EXCEPT !.exf = H] EXCEPT !.fref = F]
      BY <1>1 DEF State
    <3> QED BY <2>2, <3>3, <3>4, <3>5
  <2> QED BY <2>1, <2>2
<1>4. Renamed(S, U, f, S.fref[f].name, {})
  <2>1. {} \in SUBSET Flag
    OBVIOUS
  <2> HIDE DEF U
  <2> QED BY <1>1, <1>2, <2>1, RenamedIs DEF U
<1> HIDE DEF T, U
<1>5. Sound(U, {})
  BY <1>4, RenamedSound
<1> QED BY <1>3, <1>4, <1>5 DEF T, C, F

-----------------------------------------------------------------------------
(* A screen gets another file: file_init()                                 *)

\* The error exit: the FREF loses its names, and its temporary file goes.
LEMMA InitErrorIs ==
    ASSUME NEW S, Sound(S, {}), ~S.broken, NEW f \in Fref, S.fref[f].flags = {}
    PROVE  LET T == InitError(S, f)
           IN  /\ Sound(T, {}) /\ T.scr = S.scr /\ SameQueues(S, T) /\ T.rc = 1
               /\ T.forced = S.forced /\ T.lost = S.lost /\ T.clobbered = S.clobbered
<1> DEFINE p == S.fref[f].tname
           F == [[S.fref EXCEPT ![f].name = Null] EXCEPT ![f].tname = Null]
           R == [S EXCEPT !.fref = F]
           V == Unlink(R, p)
           b == V.broken \/ FrefUsers(S, f) # {}
           T == [[V EXCEPT !.broken = b] EXCEPT !.rc = 1]
<1>1. /\ S \in State /\ S.fref[f] \in FrefRec /\ S.fref \in [Fref -> FrefRec]
      /\ p \in Tmp \cup {Null} /\ p \in Path \cup {Null}
  BY StateIs, Constants DEF Sound, FrefRec
<1>2. /\ F \in [Fref -> FrefRec] /\ F[f].name = Null /\ F[f].tname = Null /\ F[f].flags = {}
      /\ \A g \in Fref : g # f => F[g] = S.fref[g]
  BY <1>1 DEF FrefRec
<1>3. InitError(S, f) = T
  <2>1. [S EXCEPT !.fref[f].name = Null, !.fref[f].tname = Null] = R
    BY <1>1 DEF State
  <2> QED BY <2>1 DEF InitError, Fail
<1> HIDE DEF F
<1>4. /\ R \in State /\ R.scr = S.scr /\ R.fref = F /\ R.frefq = S.frefq /\ R.exf = S.exf
      /\ SameQueues(S, R) /\ SameTold(S, R) /\ SameDisk(S, R)
  BY <1>1, <1>2 DEF State, SameQueues, SameTold, SameDisk
<1> HIDE DEF R
<1>5. /\ V \in State /\ V.scr = R.scr
      /\ SameQueues(R, V) /\ SameTold(R, V) /\ SameFrefs(R, V)
      /\ V.disk = R.disk \ {p} /\ V.temps = R.temps \ {p}
      /\ p = Null => V = R
      /\ p # Null => \A e \in Exf : V.exf[e] = Touched(R.exf[e], p)
  <2> HIDE DEF p
  <2> QED BY <1>1, <1>4, UnlinkIs
<1> HIDE DEF V
<1>6. /\ T \in State /\ T.scr = V.scr /\ T.fref = V.fref /\ T.frefq = V.frefq /\ T.exf = V.exf
      /\ SameQueues(V, T) /\ T.disk = V.disk /\ T.temps = V.temps /\ T.rc = 1
      /\ T.forced = V.forced /\ T.lost = V.lost /\ T.clobbered = V.clobbered /\ T.broken = b
  <2>1. b \in BOOLEAN
    OBVIOUS
  <2> HIDE DEF b
  <2> QED BY <1>5, <2>1 DEF State, SameQueues
<1> HIDE DEF T
<1>7. /\ T.scr = S.scr /\ T.fref = F /\ T.frefq = S.frefq /\ SameQueues(S, T)
      /\ T.disk = S.disk \ {p} /\ T.temps = S.temps \ {p} /\ T.rc = 1
      /\ T.forced = S.forced /\ T.lost = S.lost /\ T.clobbered = S.clobbered
      /\ FrefUsers(S, f) # {} => T.broken
  BY <1>4, <1>5, <1>6 DEF SameQueues, SameTold, SameFrefs, SameDisk
<1>8. \A e \in Exf : /\ T.exf[e] = S.exf[e] \/ T.exf[e] = Touched(S.exf[e], p)
                     /\ S.exf[e] \in ExfRec
  BY <1>1, <1>4, <1>5, <1>6, StateIs
<1>9. \A e \in Exf : /\ T.exf[e].refcnt = S.exf[e].refcnt
                     /\ T.exf[e].modified = S.exf[e].modified
                     /\ T.exf[e].work = S.exf[e].work
                     /\ T.exf[e].slips = S.exf[e].slips
                     /\ T.exf[e].saw \in T.exf[e].knows \cup {Null} \/ "appended" \in T.exf[e].slips
  <2> TAKE e \in Exf
  <2>1. S.exf[e].saw \in S.exf[e].knows \cup {Null} \/ "appended" \in S.exf[e].slips
    BY DEF Sound, Saw
  <2> HIDE DEF p
  <2>2. CASE T.exf[e] = S.exf[e]
    BY <2>1, <2>2
  <2>3. CASE T.exf[e] = Touched(S.exf[e], p)
    BY <1>8, <2>1, <2>3, TouchedIs
  <2> QED BY <1>8, <2>2, <2>3
<1>10. \A s \in Shown(S) : /\ s \in Scr /\ S.scr[s].ep \in Exf /\ S.scr[s].frp \in Fref
                           /\ S.scr[s].frp \in Range(S.frefq) /\ FrefOf(S, s).name # Null
  BY ShownIs
<1>11. Shown(T) = Shown(S) /\ \A e \in Exf : Users(T, e) = Users(S, e)
  BY <1>7 DEF Shown, Users
<1>12. Screened(T) /\ Counted(T) /\ Saw(T)
  BY <1>7, <1>9, <1>11 DEF Sound, Screened, Counted, Saw
<1>13. Listed(T)
  BY <1>2, <1>7, <1>10, <1>11 DEF Listed, FrefOf, FrefUsers
<1>14. Together(T)
  <2>1. \A s \in Shown(S) : FrefOf(T, s).flags = FrefOf(S, s).flags
    BY <1>2, <1>7, <1>10 DEF FrefOf
  <2> QED BY <1>7, <1>11, <2>1 DEF Sound, Together
<1>15. Named(T)
  <2>1. T.temps \subseteq T.disk
    BY <1>7 DEF Sound, Named
  <2>2. \A g \in Fref : T.fref[g].tname # Null =>
            g # f /\ T.fref[g] = S.fref[g] /\ S.fref[g].tname # p
    BY <1>2, <1>7 DEF Sound, Named
  <2>3. \A g \in Fref : T.fref[g].tname # Null => T.fref[g].tname \in T.temps
    BY <1>7, <2>2 DEF Sound, Named
  <2>4. \A g, h \in Fref : T.fref[g].tname = T.fref[h].tname => g = h \/ T.fref[g].tname = Null
    BY <2>2 DEF Sound, Named
  <2> QED BY <2>1, <2>3, <2>4 DEF Named
<1>16. Used(T, {})
  <2>1. ASSUME NEW t \in T.temps
        PROVE  \E s \in Shown(S) : S.scr[s].frp \in Fref /\ T.fref[S.scr[s].frp].tname = t
    <3>1. t \in S.temps /\ t # p
      BY <1>7
    <3>2. PICK s \in Shown(S) : S.fref[S.scr[s].frp].tname = t
      BY <3>1 DEF Sound, Used
    <3>3. S.scr[s].frp # f
      BY <3>1, <3>2
    <3> QED BY <1>2, <1>7, <1>10, <3>2, <3>3
  <2> QED BY <1>7, <1>11, <2>1 DEF Used
<1>17. Guarded(T)
  <2>1. \A g \in Fref : "TMPEXIT" \in T.fref[g].flags => "TMPFILE" \in T.fref[g].flags
    BY <1>2, <1>7 DEF Sound, Guarded
  <2>2. \A s \in Shown(S) : /\ FrefOf(T, s).flags = FrefOf(S, s).flags
                            /\ FrefOf(T, s).name \in Tmp => FrefOf(T, s).name = FrefOf(S, s).name
                            /\ ExfOf(T, s).work = ExfOf(S, s).work
                            /\ ExfOf(T, s).slips = ExfOf(S, s).slips
                            /\ ExfOf(T, s).modified = ExfOf(S, s).modified
    <3>1. Null \notin Tmp
      BY Constants
    <3>2. \A g \in Fref : /\ F[g].flags = S.fref[g].flags
                          /\ F[g].name \in Tmp => F[g].name = S.fref[g].name
      BY <1>2, <3>1
    <3>3. \A s \in Shown(S) : /\ FrefOf(T, s) = F[S.scr[s].frp] /\ FrefOf(S, s) = S.fref[S.scr[s].frp]
                              /\ ExfOf(T, s) = T.exf[S.scr[s].ep]
                              /\ ExfOf(S, s) = S.exf[S.scr[s].ep]
      BY <1>7 DEF FrefOf, ExfOf
    <3> QED BY <1>9, <1>10, <3>2, <3>3
  <2> QED BY <1>11, <2>1, <2>2 DEF Sound, Guarded
<1>18. Sound(T, {})
  BY <1>6, <1>12, <1>13, <1>14, <1>15, <1>16, <1>17 DEF Sound
<1> QED BY <1>3, <1>7, <1>18

\* T is S with the file of f opened, which no screen shows yet if it is temporary.
Opens(S, T, f) ==
    /\ Sound(T, {f}) /\ T.scr = S.scr /\ T.exf = S.exf /\ T.frefq = S.frefq
    /\ SameQueues(S, T) /\ SameTold(S, T) /\ T.fref[f].name # Null
    /\ "TMPFILE" \in T.fref[f].flags => \A s \in Shown(S) : S.scr[s].frp # f

\* The file of f is on the disk and has its path p.
LEMMA OpenedIs ==
    ASSUME NEW S, Sound(S, {}), ~S.broken, NEW f \in Fref, S.fref[f].flags = {},
           NEW p, NEW temporary \in BOOLEAN, NEW openerr \in BOOLEAN,
           temporary => p \in Tmp \ S.disk /\ S.fref[f].tname = Null,
           ~temporary => p = S.fref[f].name /\ p \in S.disk
    PROVE  Opens(S, Opened(S, f, p, temporary, openerr), f)
<1> DEFINE old == S.fref[f]
           flags == (IF old.name = Null THEN {"TMPFILE"} ELSE {})
                    \cup (IF temporary /\ ~openerr THEN {"NEWFILE"} ELSE {})
           r == [name |-> IF old.name = Null THEN p ELSE old.name,
                 tname |-> IF temporary THEN p ELSE old.tname, flags |-> flags]
           F == [S.fref EXCEPT ![f] = r]
           D == S.disk \cup {p}
           M == S.temps \cup (IF temporary THEN {p} ELSE {})
           T == [S EXCEPT !.disk = D, !.temps = M, !.fref = F]
<1>1. Opened(S, f, p, temporary, openerr) = T
  BY DEF Opened
<1>2. /\ S \in State /\ old \in FrefRec /\ p \in Path /\ Null \notin Path /\ Null \notin Tmp
      /\ S.temps \subseteq S.disk /\ S.temps \subseteq Tmp
      /\ S.fref \in [Fref -> FrefRec]
  BY StateIs, Constants DEF Sound, Named
<1>3. flags \subseteq Flag /\ "TMPEXIT" \notin flags /\ ("TMPFILE" \in flags <=> old.name = Null)
  BY DEF Flag
<1> HIDE DEF flags
<1>4. /\ r \in FrefRec /\ r.flags = flags /\ r.name # Null
      /\ old.name # Null => r.name = old.name
      /\ r.tname = IF temporary THEN p ELSE old.tname
  BY <1>2, <1>3 DEF FrefRec
<1> HIDE DEF r, old
<1>5. F \in [Fref -> FrefRec] /\ F[f] = r /\ \A g \in Fref : g # f => F[g] = S.fref[g]
  BY <1>2, <1>4
<1>6. D \in SUBSET Path /\ M \in SUBSET Tmp /\ M \subseteq D
  BY <1>2, StateIs
<1> HIDE DEF F, D, M
<1>7. /\ T \in State /\ T.scr = S.scr /\ T.exf = S.exf /\ T.frefq = S.frefq /\ T.fref = F
      /\ SameQueues(S, T) /\ SameTold(S, T) /\ T.disk = D /\ T.temps = M /\ T.broken = S.broken
  BY <1>2, <1>5, <1>6 DEF State, SameQueues, SameTold
<1> HIDE DEF T
<1>8. \A s \in Shown(S) : /\ s \in Scr /\ S.scr[s].ep \in Exf /\ S.scr[s].frp \in Fref
                          /\ S.scr[s].frp \in Range(S.frefq) /\ FrefOf(S, s).name # Null
  BY ShownIs
<1>9. old.name = Null => \A s \in Shown(S) : S.scr[s].frp # f
  BY <1>8 DEF FrefOf, old
<1>10. Shown(T) = Shown(S) /\ \A e \in Exf : Users(T, e) = Users(S, e)
  BY <1>7 DEF Shown, Users
<1>11. Screened(T) /\ Counted(T) /\ Saw(T)
  BY <1>7, <1>10 DEF Sound, Screened, Counted, Saw
<1>12. Listed(T)
  BY <1>4, <1>5, <1>7, <1>8, <1>10 DEF Listed, FrefOf
<1>13. Together(T)
  <2>1. \A s \in Shown(S) : "TMPFILE" \in FrefOf(T, s).flags => "TMPFILE" \in FrefOf(S, s).flags
    BY <1>3, <1>4, <1>5, <1>7, <1>8, <1>9 DEF FrefOf
  <2> QED BY <1>7, <1>10, <2>1 DEF Sound, Together
<1>14. Named(T) /\ Used(T, {f})
  <2>1. CASE temporary
    <3>1. /\ M = S.temps \cup {p} /\ p \notin S.temps /\ r.tname = p /\ S.fref[f].tname = Null
          /\ p # Null
      BY <1>2, <1>4, <2>1 DEF M
    <3>2. \A g \in Fref : g # f /\ S.fref[g].tname # Null => S.fref[g].tname # p
      BY <3>1 DEF Sound, Named
    <3>3. Named(T)
      BY <1>5, <1>6, <1>7, <3>1, <3>2 DEF Sound, Named
    <3>4. ASSUME NEW t \in M
          PROVE  \E g \in {f} \cup {S.scr[s].frp : s \in Shown(S)} : g \in Fref /\ F[g].tname = t
      <4>1. CASE t = p
        BY <1>5, <3>1, <4>1
      <4>2. CASE t # p
        <5>1. t \in S.temps
          BY <3>1, <4>2
        <5>2. PICK s \in Shown(S) : S.fref[S.scr[s].frp].tname = t
          BY <5>1 DEF Sound, Used
        <5>3. t # Null
          BY <1>2, <5>1
        <5> QED BY <1>5, <1>8, <3>1, <5>2, <5>3
      <4> QED BY <4>1, <4>2
    <3> QED BY <1>7, <1>10, <3>3, <3>4 DEF Used
  <2>2. CASE ~temporary
    <3>1. M = S.temps /\ \A g \in Fref : F[g].tname = S.fref[g].tname
      BY <1>4, <1>5, <2>2 DEF M, old
    <3>2. Named(T)
      BY <1>6, <1>7, <3>1 DEF Sound, Named
    <3>3. Used(T, {f})
      BY <1>7, <1>10, <3>1 DEF Sound, Used
    <3> QED BY <3>2, <3>3
  <2> QED BY <2>1, <2>2
<1>15. Guarded(T)
  <2>1. \A g \in Fref : "TMPEXIT" \in T.fref[g].flags => "TMPFILE" \in T.fref[g].flags
    BY <1>3, <1>4, <1>5, <1>7 DEF Sound, Guarded
  <2>2. \A s \in Shown(S) : /\ FrefOf(T, s).name = FrefOf(S, s).name
                            /\ FrefOf(S, s).flags # FrefOf(T, s).flags => FrefOf(S, s).flags = {}
                            /\ ExfOf(T, s) = ExfOf(S, s)
    BY <1>4, <1>5, <1>7, <1>8, <1>9 DEF FrefOf, ExfOf, old
  <2> QED BY <1>10, <2>1, <2>2 DEF Sound, Guarded
<1>16. Sound(T, {f})
  BY <1>7, <1>11, <1>12, <1>13, <1>14, <1>15 DEF Sound
<1>17. Opens(S, T, f)
  BY <1>3, <1>4, <1>5, <1>7, <1>9, <1>16 DEF Opens
<1> QED BY <1>1, <1>17

\* T is S after screen s let go of its file and got another.
Switches(S, T, s) ==
    /\ Sound(T, {}) /\ SameQueues(S, T) /\ T.rc = S.rc /\ T.forced = S.forced
    /\ T.clobbered = S.clobbered /\ ~T.broken
    /\ "plain" \notin S.lost => "plain" \notin T.lost
    /\ \A t \in Scr : t # s => T.scr[t] = S.scr[t]
    /\ T.scr[s].ep # None /\ T.scr[s].argv = S.scr[s].argv

\* The new EXF is locked and made the screen's.
LEMMA SwitchedIs ==
    ASSUME NEW S, NEW f \in Fref, Sound(S, {f}), ~S.broken, NEW s \in Scr, NEW e \in Exf,
           NEW p \in Path, NEW rcv \in BOOLEAN, S.exf[e].refcnt = 0, f \in Range(S.frefq),
           S.fref[f].name # Null,
           "TMPFILE" \in S.fref[f].flags => \A r \in Shown(S) : S.scr[r].frp # f,
           S.scr[s].ep # None => Safe(S, s)
    PROVE  Switches(S, Switched(S, s, f, e, p, rcv), s)
<1> DEFINE E == IF S.scr[s].ep = None THEN S ELSE FileEnd(S, s, f)
           G == Gone(E, s)
           wantlock == ~rcv /\ ~S.scr[s].ro
           taken == E.lock[p] # None
           nx == [refcnt |-> 1, modified |-> rcv, work |-> rcv, kept |-> Null,
                  saw |-> p, knows |-> {p},
                  slips |-> IF S.fref[f].name \in Tmp /\ "TMPFILE" \notin S.fref[f].flags
                            THEN {"tmp"} ELSE {}]
           lk == IF wantlock /\ ~taken THEN e ELSE E.lock[p]
           b == ReadOnlyNow(E, f, p, wantlock /\ taken)
           X == [E.exf EXCEPT ![e] = nx]
           L == [E.lock EXCEPT ![p] = lk]
           C == [[[E.scr EXCEPT ![s].ep = e] EXCEPT ![s].frp = f] EXCEPT ![s].ro = b]
           T == [E EXCEPT !.exf = X, !.lock = L, !.scr = C]
<1>1. S \in State /\ e # None /\ f # None
  BY Constants DEF Sound
<1>2. /\ E \in State /\ Sound(G, {f}) /\ SameQueues(S, E) /\ E.rc = S.rc /\ E.forced = S.forced
      /\ E.clobbered = S.clobbered /\ ~E.broken
      /\ "plain" \notin S.lost => "plain" \notin E.lost
      /\ \A t \in Scr : t # s => E.scr[t] = S.scr[t]
      /\ E.scr[s].pos <= Len(E.scr[s].argv) /\ E.scr[s].argv = S.scr[s].argv
      /\ E.exf[e].refcnt = 0 /\ E.fref[f] = S.fref[f] /\ f \in Range(E.frefq)
  <2>1. S.scr[s].pos <= Len(S.scr[s].argv)
    BY DEF Sound, Screened
  <2>2. CASE S.scr[s].ep = None
    <3>1. E = S
      BY <2>2
    <3> HIDE DEF E
    <3>2. /\ G \in State /\ G.scr = [E.scr EXCEPT ![s] = NoScr] /\ G.exf = E.exf
          /\ SameTold(E, G) /\ SameFrefs(E, G) /\ SameDisk(E, G)
          /\ \A t \in Scr : G.scr[t] = IF t = s THEN NoScr ELSE E.scr[t]
      BY <1>1, <3>1, GoneIs
    <3> HIDE DEF G
    <3>3. S.scr[s].frp = None
      BY <2>2 DEF Sound, Screened
    <3>4. SameShown(S, G) /\ Screened(G)
      BY <2>2, <3>1, <3>2, <3>3, Nothings DEF SameShown, Sound, Screened
    <3>5. SameFrefs(S, G) /\ SameDisk(S, G) /\ G.exf = S.exf /\ G.broken = S.broken /\ G \in State
      BY <3>1, <3>2 DEF SameTold
    <3>6. Sound(G, {f})
      BY <3>4, <3>5, SameSound
    <3> QED BY <1>1, <2>1, <3>1, <3>6 DEF SameQueues
  <2>3. CASE S.scr[s].ep # None
    <3>1. E = FileEnd(S, s, f) /\ s \in Shown(S) /\ Safe(S, s)
      BY <2>3 DEF Shown
    <3> HIDE DEF E, G
    <3>2. /\ E \in State /\ Sound(Gone(E, s), {f}) /\ SameQueues(S, E)
          /\ E.rc = S.rc /\ E.forced = S.forced /\ E.clobbered = S.clobbered
          /\ E.broken = S.broken
          /\ \A t \in Scr : t # s => E.scr[t] = S.scr[t]
          /\ E.scr[s].argv = S.scr[s].argv /\ E.scr[s].pos = S.scr[s].pos
          /\ \A x \in Exf : x # S.scr[s].ep => E.exf[x].refcnt = S.exf[x].refcnt
          /\ f \in Fref => E.fref[f] = S.fref[f]
          /\ f \in Range(S.frefq) => f \in Range(E.frefq)
          /\ Safe(S, s) /\ "plain" \notin S.lost => "plain" \notin E.lost
      <4>1. S.scr[s].frp = f => f \in {f}
        OBVIOUS
      <4> QED BY <3>1, <4>1, EndIs
    <3>3. e # S.scr[s].ep
      <4>1. SUFFICES ASSUME e = S.scr[s].ep
                     PROVE  FALSE
        OBVIOUS
      <4>2. s \in Users(S, e) /\ Users(S, e) \in SUBSET Scr
        BY <4>1 DEF Users
      <4>3. Cardinality(Users(S, e)) = 0
        BY DEF Sound, Counted
      <4> QED BY <4>2, <4>3, Sized
    <3>4. E.exf[e].refcnt = 0
      BY <3>2, <3>3
    <3> QED BY <2>1, <3>1, <3>2, <3>4 DEF G
  <2> QED BY <2>2, <2>3
<1>3. Switched(S, s, f, e, p, rcv) = T
  <2>1. ReadOnlyNow(E, f, p, wantlock /\ taken) = b
    OBVIOUS
  <2> HIDE DEF b
  <2>2. [E EXCEPT !.exf[e] = nx, !.lock[p] = lk, !.scr[s].ep = e, !.scr[s].frp = f,
                  !.scr[s].ro = b] = T
    <3> HIDE DEF E, nx, lk
    <3> QED BY <1>2 DEF State
  <2> QED BY <2>1, <2>2 DEF Switched
<1>4. G \in State /\ G.exf = E.exf /\ SameFrefs(E, G) /\ SameDisk(E, G) /\ SameTold(E, G)
      /\ \A t \in Scr : G.scr[t] = IF t = s THEN NoScr ELSE E.scr[t]
  <2> HIDE DEF E
  <2> QED BY <1>2, GoneIs
<1> HIDE DEF E, G
<1>5. /\ nx \in ExfRec /\ nx.refcnt = 1 /\ nx.modified = nx.work /\ nx.saw \in nx.knows
      /\ S.fref[f].name \in Tmp /\ "TMPFILE" \notin S.fref[f].flags => "tmp" \in nx.slips
  BY Constants DEF ExfRec, Slip
<1> HIDE DEF nx
<1>6. X \in [Exf -> ExfRec] /\ X[e] = nx /\ \A x \in Exf : x # e => X[x] = E.exf[x]
  BY <1>2, <1>5, StateIs
<1>7. L \in [Path -> Exf \cup {None, Other}]
  BY <1>2, StateIs
<1>8. b \in BOOLEAN
  BY DEF ReadOnlyNow
<1> HIDE DEF b
<1>9. /\ C \in [Scr -> ScrRec] /\ C[s].ep = e /\ C[s].frp = f
      /\ C[s].argv = E.scr[s].argv /\ C[s].pos = E.scr[s].pos
      /\ \A t \in Scr : t # s => C[t] = E.scr[t]
  <2>1. E.scr \in [Scr -> ScrRec] /\ E.scr[s] \in ScrRec
    BY <1>2, StateIs
  <2> DEFINE c == [[[E.scr[s] EXCEPT !.ep = e] EXCEPT !.frp = f] EXCEPT !.ro = b]
  <2>2. /\ c \in ScrRec /\ c.ep = e /\ c.frp = f /\ c.argv = E.scr[s].argv
        /\ c.pos = E.scr[s].pos
    BY <1>8, <2>1 DEF ScrRec
  <2>3. C = [E.scr EXCEPT ![s] = c]
    BY <2>1
  <2> HIDE DEF c, C
  <2> QED BY <2>1, <2>2, <2>3
<1> HIDE DEF X, L, C
<1>10. /\ T \in State /\ T.exf = X /\ T.scr = C /\ T.frefq = E.frefq /\ T.fref = E.fref
       /\ T.disk = E.disk /\ T.temps = E.temps /\ SameQueues(E, T) /\ SameTold(E, T)
  BY <1>2, <1>6, <1>7, <1>9 DEF State, SameQueues, SameTold
<1> HIDE DEF T
<1>11. /\ G.frefq = T.frefq /\ G.fref = T.fref /\ G.disk = T.disk /\ G.temps = T.temps
       /\ ~G.broken
  BY <1>2, <1>4, <1>10 DEF SameFrefs, SameDisk, SameTold
<1>12. Users(G, e) = {}
  <2>1. Users(G, e) \in SUBSET Scr
    BY DEF Users
  <2>2. Cardinality(Users(G, e)) = 0
    BY <1>2, <1>4 DEF Sound, Counted
  <2> QED BY <2>1, <2>2, Sized
<1>13. /\ Shown(T) = Shown(G) \cup {s} /\ s \notin Shown(G) /\ Shown(G) \subseteq Shown(S)
       /\ T.scr[s].ep = e /\ T.scr[s].frp = f
       /\ \A t \in Shown(G) : /\ T.scr[t] = G.scr[t] /\ G.scr[t] = S.scr[t] /\ t # s
                              /\ G.scr[t].ep # e
  BY <1>1, <1>2, <1>4, <1>9, <1>10, <1>12, Nothings DEF Shown, Users
<1>14. Screened(T)
  <2>1. T.scr[s].pos <= Len(T.scr[s].argv) /\ T.scr[s].ep # None
    BY <1>1, <1>2, <1>9, <1>10
  <2>2. \A t \in Scr : t # s => T.scr[t] = G.scr[t]
    BY <1>4, <1>9, <1>10
  <2> QED BY <1>2, <2>1, <2>2 DEF Sound, Screened
<1>15. Counted(T)
  <2>1. Users(T, e) = {s}
    BY <1>1, <1>4, <1>9, <1>10, <1>12 DEF Users
  <2>2. Cardinality({s}) = 1
    BY FS_Singleton
  <2>3. ASSUME NEW x \in Exf, x # e
        PROVE  Users(T, x) = Users(G, x) /\ T.exf[x] = G.exf[x]
    <3>1. T.exf[x] = G.exf[x]
      BY <1>4, <1>6, <1>10, <2>3
    <3>2. x # None
      BY Constants
    <3>3. T.scr[s].ep # x /\ G.scr[s].ep # x
      BY <1>1, <1>4, <1>9, <1>10, <2>3, <3>2, Nothings
    <3>4. \A t \in Scr : t # s => T.scr[t] = G.scr[t]
      BY <1>4, <1>9, <1>10
    <3> QED BY <3>1, <3>3, <3>4 DEF Users
  <2>4. T.exf[e].refcnt = 1
    BY <1>5, <1>6, <1>10
  <2>5. \A x \in Exf : x # e => T.exf[x].refcnt = Cardinality(Users(T, x))
    BY <1>2, <2>3 DEF Sound, Counted
  <2> QED BY <2>1, <2>2, <2>4, <2>5 DEF Counted
<1>16. Listed(T)
  <2>1. \A t \in Shown(G) : FrefOf(T, t) = FrefOf(G, t)
    BY <1>11, <1>13 DEF FrefOf
  <2>2. FrefOf(T, s) = S.fref[f]
    BY <1>2, <1>10, <1>13 DEF FrefOf
  <2>3. T.scr[s].frp \in Range(T.frefq) /\ FrefOf(T, s).name # Null
    BY <1>2, <1>10, <1>13, <2>2
  <2> QED BY <1>2, <1>11, <1>13, <2>1, <2>3 DEF Sound, Listed
<1>17. Together(T)
  <2>1. \A t \in Shown(G) : FrefOf(T, t) = FrefOf(G, t) /\ T.scr[t].ep # e
    BY <1>11, <1>13 DEF FrefOf
  <2>2. FrefOf(T, s) = S.fref[f]
    BY <1>2, <1>10, <1>13 DEF FrefOf
  <2>3. ASSUME NEW t \in Shown(G), G.scr[t].frp = f
        PROVE  "TMPFILE" \notin FrefOf(T, s).flags /\ "TMPFILE" \notin FrefOf(T, t).flags
    <3>1. FrefOf(T, t) = S.fref[f]
      BY <1>2, <1>10, <1>13, <2>3 DEF FrefOf
    <3> QED BY <1>13, <2>2, <2>3, <3>1
  <2>4. \A t, r \in Shown(G) : /\ T.scr[t].ep = T.scr[r].ep => T.scr[t].frp = T.scr[r].frp
                               /\ T.scr[t].frp = T.scr[r].frp /\ "TMPFILE" \in FrefOf(T, t).flags
                                    => T.scr[t].ep = T.scr[r].ep
    BY <1>2, <1>13, <2>1 DEF Sound, Together
  <2> QED BY <1>13, <2>1, <2>3, <2>4 DEF Together
<1>18. Named(T)
  BY <1>2, <1>11 DEF Sound, Named
<1>19. Used(T, {})
  <2>1. {f} \cup {G.scr[t].frp : t \in Shown(G)} = {} \cup {T.scr[t].frp : t \in Shown(T)}
    BY <1>13
  <2>2. Used(G, {f})
    BY <1>2 DEF Sound
  <2> QED BY <1>11, <2>1, <2>2 DEF Used
<1>20. Guarded(T)
  <2>1. \A g \in Fref : "TMPEXIT" \in T.fref[g].flags => "TMPFILE" \in T.fref[g].flags
    BY <1>2, <1>11 DEF Sound, Guarded
  <2>2. ASSUME NEW t \in Shown(G)
        PROVE  FrefOf(T, t) = FrefOf(G, t) /\ ExfOf(T, t) = ExfOf(G, t)
    <3>1. G.scr[t].ep \in Exf
      BY <1>2, ShownIs
    <3> QED BY <1>4, <1>6, <1>10, <1>11, <1>13, <3>1 DEF FrefOf, ExfOf
  <2>3. FrefOf(T, s) = S.fref[f] /\ ExfOf(T, s) = nx
    BY <1>2, <1>6, <1>10, <1>13 DEF FrefOf, ExfOf
  <2> QED BY <1>2, <1>5, <1>13, <2>1, <2>2, <2>3 DEF Sound, Guarded
<1>21. Saw(T)
  BY <1>2, <1>4, <1>5, <1>6, <1>10 DEF Sound, Saw
<1>22. Sound(T, {})
  BY <1>10, <1>14, <1>15, <1>16, <1>17, <1>18, <1>19, <1>20, <1>21 DEF Sound
<1>23. SameQueues(S, T) /\ T.rc = S.rc /\ T.forced = S.forced /\ T.clobbered = S.clobbered
       /\ ~T.broken /\ ("plain" \notin S.lost => "plain" \notin T.lost)
  BY <1>2, <1>10 DEF SameQueues, SameTold
<1>24. /\ \A t \in Scr : t # s => T.scr[t] = S.scr[t]
       /\ T.scr[s].ep # None /\ T.scr[s].argv = S.scr[s].argv
  BY <1>1, <1>2, <1>9, <1>10
<1>25. Switches(S, T, s)
  BY <1>22, <1>23, <1>24 DEF Switches
<1> QED BY <1>3, <1>25

\* T is S after screen s got another file, or not.
Inits(S, T, s) ==
    /\ Sound(T, {}) /\ SameQueues(S, T) /\ T.forced = S.forced /\ (Clean(S) => Clean(T))
    /\ \A t \in Scr : t # s => T.scr[t] = S.scr[t]
    /\ Failed(T) => T.scr = S.scr
    /\ ~Failed(T) => T.scr[s].ep # None /\ ~T.broken
    /\ T.scr[s].argv = S.scr[s].argv

LEMMA FileInitIs ==
    ASSUME NEW S, Sound(S, {}), ~S.broken, ~Failed(S), NEW s \in Scr, NEW f \in Fref,
           f \in Range(S.frefq), NEW rcv \in BOOLEAN, S.scr[s].ep # None => Safe(S, s)
    PROVE  Inits(S, FileInit(S, s, f, rcv), s)
<1> DEFINE old == S.fref[f]
           cleared == [S EXCEPT !.fref[f].flags = {}]
           T == IF "TMPFILE" \in old.flags THEN Slipped(cleared, f, "tmp") ELSE cleared
           fresh == {e \in Exf : S.exf[e].refcnt = 0}
           exists == old.name \in S.disk
           openerr == exists /\ ~rcv /\ old.name \in Unreadable
           temporary == openerr \/ ~exists
           temps == Tmp \ S.disk
           p == IF temporary THEN CHOOSE t \in temps : TRUE ELSE old.name
           O == Opened(T, f, p, temporary, openerr)
           e == Least(fresh)
           W == Switched(O, s, f, e, p, rcv)
<1>1. FileInit(S, s, f, rcv) =
        IF fresh = {} \/ (~exists /\ old.name # Null /\ old.tname # Null) THEN Fail(T)
        ELSE IF temporary /\ (old.tname # Null \/ temps = {}) THEN InitError(T, f)
        ELSE W
  BY DEF FileInit
<1>2. Renamed(S, T, f, old.name, {}) /\ Sound(T, {})
  BY ClearedIs
<1> HIDE DEF T
<1>3. /\ T \in State /\ T.scr = S.scr /\ T.frefq = S.frefq /\ SameQueues(S, T)
      /\ SameTold(S, T) /\ T.disk = S.disk /\ ~T.broken
      /\ T.fref[f].name = old.name /\ T.fref[f].flags = {} /\ T.fref[f].tname = old.tname
      /\ \A x \in Exf : /\ T.exf[x].refcnt = S.exf[x].refcnt
                        /\ T.exf[x].work = S.exf[x].work
                        /\ S.exf[x].slips \subseteq T.exf[x].slips
  BY <1>2 DEF Renamed, SameTold, SameDisk
<1>4. S.scr[s].ep # None => Safe(T, s)
  <2>1. SUFFICES ASSUME S.scr[s].ep # None
                 PROVE  Safe(T, s)
    OBVIOUS
  <2>2. S.scr[s].ep \in Exf
    BY <2>1, StateIs DEF Sound, ScrRec
  <2>3. /\ ExfOf(T, s).refcnt = ExfOf(S, s).refcnt /\ ExfOf(T, s).work = ExfOf(S, s).work
        /\ ExfOf(S, s).slips \subseteq ExfOf(T, s).slips /\ T.forced = S.forced
    BY <1>3, <2>2 DEF ExfOf, SameTold
  <2>4. ExfOf(S, s).slips # {} => ExfOf(T, s).slips # {}
    BY <2>3
  <2> QED BY <2>1, <2>3, <2>4 DEF Safe
<1>5. CASE fresh = {} \/ (~exists /\ old.name # Null /\ old.tname # Null)
  <2>1. FileInit(S, s, f, rcv) = Fail(T)
    BY <1>1, <1>5
  <2>2. Mild(T, Fail(T)) /\ Failed(Fail(T)) /\ Fail(T).scr = T.scr
    BY <1>2, <1>3, FailIs
  <2>3. Inits(S, Fail(T), s)
    BY <1>3, <2>2 DEF Inits, Mild, SameQueues, SameTold, Clean
  <2> QED BY <2>1, <2>3
<1>6. CASE /\ ~(fresh = {} \/ (~exists /\ old.name # Null /\ old.tname # Null))
           /\ temporary /\ (old.tname # Null \/ temps = {})
  <2>1. FileInit(S, s, f, rcv) = InitError(T, f)
    BY <1>1, <1>6
  <2> DEFINE V == InitError(T, f)
  <2>2. /\ Sound(V, {}) /\ V.scr = T.scr /\ SameQueues(T, V) /\ V.rc = 1
        /\ V.forced = T.forced /\ V.lost = T.lost /\ V.clobbered = T.clobbered
    BY <1>2, <1>3, InitErrorIs
  <2> HIDE DEF V
  <2>3. Inits(S, V, s)
    BY <1>3, <2>2 DEF Inits, SameQueues, SameTold, Clean, Failed
  <2> QED BY <2>1, <2>3 DEF V
<1>7. CASE /\ ~(fresh = {} \/ (~exists /\ old.name # Null /\ old.tname # Null))
           /\ ~(temporary /\ (old.tname # Null \/ temps = {}))
  <2>1. FileInit(S, s, f, rcv) = W
    BY <1>1, <1>7
  <2>2. e \in Exf /\ S.exf[e].refcnt = 0
    <3>1. fresh \subseteq Nat /\ fresh # {}
      BY <1>7, Constants
    <3>2. e \in fresh
      BY <3>1, LeastOne
    <3> QED BY <3>2
  <2>3. /\ temporary => p \in Tmp \ S.disk /\ old.tname = Null
        /\ ~temporary => p = old.name /\ p \in S.disk
        /\ p \in Path
    <3>1. temporary => temps # {} /\ old.tname = Null
      BY <1>7
    <3>2. temporary => p \in temps
      BY <3>1
    <3>3. S.disk \subseteq Path
      BY StateIs DEF Sound
    <3> QED BY <3>1, <3>2, <3>3, Constants
  <2>4. temporary \in BOOLEAN /\ openerr \in BOOLEAN
    OBVIOUS
  <2> HIDE DEF e, p, temporary, openerr
  <2>5. Opens(T, O, f)
    <3>1. /\ temporary => p \in Tmp \ T.disk /\ T.fref[f].tname = Null
          /\ ~temporary => p = T.fref[f].name /\ p \in T.disk
      BY <1>3, <2>3
    <3> HIDE DEF old
    <3> QED BY <1>2, <1>3, <2>4, <3>1, OpenedIs
  <2>6. /\ ~O.broken /\ O.exf[e].refcnt = 0 /\ f \in Range(O.frefq)
        /\ "TMPFILE" \in O.fref[f].flags => \A r \in Shown(O) : O.scr[r].frp # f
    BY <1>3, <2>2, <2>5 DEF Opens, SameTold, Shown
  <2>7. O.scr[s].ep # None => Safe(O, s)
    <3>1. ExfOf(O, s) = ExfOf(T, s) /\ O.forced = T.forced
      BY <2>5 DEF Opens, ExfOf, SameTold
    <3> QED BY <1>3, <1>4, <2>5, <3>1 DEF Opens, Safe
  <2>8. Switches(O, W, s)
    <3>1. Sound(O, {f}) /\ O.fref[f].name # Null
      BY <2>5 DEF Opens
    <3> QED BY <2>2, <2>3, <2>6, <2>7, <3>1, SwitchedIs
  <2> HIDE DEF W
  <2>9. /\ SameQueues(S, W) /\ W.rc = S.rc /\ W.forced = S.forced /\ W.clobbered = S.clobbered
        /\ "plain" \notin S.lost => "plain" \notin W.lost
        /\ \A t \in Scr : t # s => W.scr[t] = S.scr[t]
        /\ W.scr[s].argv = S.scr[s].argv
    BY <1>3, <2>5, <2>8 DEF Opens, Switches, SameQueues, SameTold
  <2>10. Inits(S, W, s)
    BY <1>3, <2>8, <2>9 DEF Switches, Inits, Clean, Failed
  <2> QED BY <2>1, <2>10
<1> QED BY <1>5, <1>6, <1>7

-----------------------------------------------------------------------------
(* Writing                                                                 *)

\* T is S after the file of screen s was written to the path w says.
Wrote(S, T, s, w, full) ==
    /\ Sound(T, {}) /\ T.scr = S.scr /\ SameFrefs(S, T) /\ SameQueues(S, T)
    /\ T.temps = S.temps /\ T.forced = S.forced /\ T.lost = S.lost /\ T.rc = S.rc
    /\ ~T.broken
    /\ ~Refused(S, s, w) /\ "plain" \notin S.clobbered => "plain" \notin T.clobbered
    /\ w.all /\ ~full /\ ExfOf(T, s).work => Target(S, s, w.name) \in S.temps

LEMMA PutDataIs ==
    ASSUME NEW S, Sound(S, {}), ~S.broken, NEW s \in Shown(S), NEW w \in WriteArgs,
           NEW full \in BOOLEAN
    PROVE  Wrote(S, PutData(S, s, w, full), s, w, full)
<1> DEFINE e == S.scr[s].ep
           x == S.exf[e]
           t == Target(S, s, w.name)
           own == OwnName(S, s, w.name)
           known == t \notin S.disk \/ t \in x.knows
           whole == w.all /\ ~full
           safe == whole /\ t \notin S.temps
           T == Touch(S, t)
           z == T.exf[e]
           y == [z EXCEPT
                !.saw = IF own THEN t ELSE @,
                !.knows = IF w.append /\ ~known THEN @ ELSE @ \cup {t},
                !.kept = IF whole /\ t \in S.temps THEN t ELSE @,
                !.work = (@ /\ ~safe) \/ (full /\ ~w.append /\ own /\ ~x.modified),
                !.slips = (IF safe THEN @ \ {"truncated", "partial"} ELSE @)
                    \cup (IF full /\ ~w.append /\ own /\ ~x.modified THEN {"truncated"} ELSE {})
                    \cup (IF w.append /\ own /\ ~known THEN {"appended"} ELSE {})]
           over == IF w.append \/ known \/ w.force THEN {}
                   ELSE IF "appended" \in x.slips THEN {"appended"} ELSE {"plain"}
           X == [T.exf EXCEPT ![e] = y]
           U == [T EXCEPT !.disk = @ \cup {t}, !.exf = X, !.clobbered = @ \cup over]
<1>1. /\ S \in State /\ s \in Scr /\ e \in Exf /\ x \in ExfRec
      /\ FrefOf(S, s) \in FrefRec /\ FrefOf(S, s).name # Null
  BY ShownIs DEF Sound, ExfOf
<1>2. /\ w.name \in Name \cup {Null} /\ w.all \in BOOLEAN /\ w.force \in BOOLEAN
      /\ w.append \in BOOLEAN
  BY DEF WriteArgs
<1>3. t \in Path /\ t # Null /\ own \in BOOLEAN /\ (own => t = FrefOf(S, s).name)
  BY <1>1, <1>2, Constants DEF Target, OwnName, FrefOf, FrefRec
<1>4. PutData(S, s, w, full) = U
  BY DEF PutData
<1> HIDE DEF t, own
<1>5. /\ T \in State /\ Sound(T, {}) /\ T.scr = S.scr /\ SameQueues(S, T) /\ SameTold(S, T)
      /\ SameFrefs(S, T) /\ SameDisk(S, T)
      /\ \A g \in Exf : T.exf[g] = Touched(S.exf[g], t)
  BY <1>1, TouchIs, TouchSound
<1> HIDE DEF T
<1>6. /\ z \in ExfRec /\ z.refcnt = x.refcnt /\ z.modified = x.modified
      /\ z.work = x.work /\ z.slips = x.slips
      /\ z.saw \in z.knows \cup {Null} \/ "appended" \in z.slips
  BY <1>1, <1>5, TouchedIs DEF Sound, Saw
<1> HIDE DEF z, e, x
<1>7. known \in BOOLEAN /\ whole \in BOOLEAN /\ safe \in BOOLEAN
      /\ (whole /\ t \in S.temps => t \in Tmp)
  BY <1>1, <1>2, StateIs
<1> HIDE DEF known
<1>8. /\ y.refcnt = z.refcnt /\ y.modified = z.modified
      /\ y.saw = IF own THEN t ELSE z.saw
      /\ y.knows = IF w.append /\ ~known THEN z.knows ELSE z.knows \cup {t}
      /\ y.kept = IF whole /\ t \in S.temps THEN t ELSE z.kept
      /\ y.work = ((z.work /\ ~safe) \/ (full /\ ~w.append /\ own /\ ~x.modified))
      /\ y.slips = (IF safe THEN z.slips \ {"truncated", "partial"} ELSE z.slips)
                    \cup (IF full /\ ~w.append /\ own /\ ~x.modified THEN {"truncated"} ELSE {})
                    \cup (IF w.append /\ own /\ ~known THEN {"appended"} ELSE {})
  BY <1>6 DEF ExfRec
<1>9. y \in ExfRec
  <2>1. y.slips \subseteq Slip /\ y.knows \subseteq Path
    BY <1>3, <1>6, <1>8 DEF ExfRec, Slip
  <2>2. y.saw \in Path \cup {Null} /\ y.kept \in Tmp \cup {Null}
    BY <1>3, <1>6, <1>7, <1>8 DEF ExfRec
  <2>3. y.work \in BOOLEAN
    BY <1>8
  <2> QED BY <1>6, <1>8, <2>1, <2>2, <2>3 DEF ExfRec
<1> HIDE DEF y
<1>10. over \subseteq Slip \cup {"plain"}
  BY DEF Slip
<1>11. X \in [Exf -> ExfRec] /\ X[e] = y /\ \A g \in Exf : g # e => X[g] = T.exf[g]
  BY <1>1, <1>5, <1>9, StateIs DEF e
<1> HIDE DEF X, over
<1>12. /\ U \in State /\ U.scr = T.scr /\ U.exf = X /\ SameFrefs(T, U) /\ SameQueues(T, U)
       /\ U.disk = T.disk \cup {t} /\ U.temps = T.temps /\ U.clobbered = T.clobbered \cup over
       /\ U.forced = T.forced /\ U.lost = T.lost /\ U.rc = T.rc /\ U.broken = T.broken
  BY <1>3, <1>5, <1>10, <1>11 DEF State, SameFrefs, SameQueues
<1> HIDE DEF U
<1>13. \A g \in Exf : Grows(T.exf[g], U.exf[g])
  <2>1. Grows(z, y)
    <3>1. "tmp" \in z.slips => "tmp" \in y.slips
      BY <1>8
    <3>2. y.work /\ y.slips = {} => z.work /\ z.slips = {}
      BY <1>7, <1>8
    <3>3. y.saw \in y.knows \cup {Null} \/ "appended" \in y.slips
      BY <1>6, <1>8
    <3>4. y.modified \in BOOLEAN /\ z.modified \in BOOLEAN
      BY <1>6, <1>8 DEF ExfRec
    <3> QED BY <1>8, <3>1, <3>2, <3>3, <3>4 DEF Grows
  <2>2. \A g \in Exf : g # e => Grows(T.exf[g], U.exf[g])
    BY <1>5, <1>11, <1>12 DEF Grows, Sound, Saw
  <2> QED BY <1>11, <1>12, <2>1, <2>2 DEF z
<1>14. Sound(U, {})
  <2>1. SameShown(T, U) /\ Screened(U)
    BY <1>5, <1>12 DEF SameShown, Screened, Sound
  <2>2. U.temps = T.temps /\ U.temps \subseteq U.disk
    BY <1>5, <1>12 DEF Sound, Named
  <2> QED BY <1>5, <1>12, <1>13, <2>1, <2>2, GrowsSound
<1>15. ~Refused(S, s, w) => "plain" \notin over
  <2>1. SUFFICES ASSUME ~Refused(S, s, w), "plain" \in over
                 PROVE  FALSE
    OBVIOUS
  <2>2. ~w.append /\ ~known /\ ~w.force /\ "appended" \notin x.slips
    BY <2>1 DEF over
  <2>3. t \in S.disk /\ t \notin x.knows
    BY <2>2 DEF known
  <2>4. own /\ x.saw = t
    BY <2>1, <2>2, <2>3 DEF Refused, own, t, x, e
  <2>5. x.saw \in x.knows \cup {Null}
    BY <1>1, <2>2 DEF Sound, Saw, x
  <2> QED BY <1>3, <2>3, <2>4, <2>5
<1>16. w.all /\ ~full /\ ExfOf(U, s).work => t \in S.temps
  <2>1. ExfOf(U, s) = y
    BY <1>5, <1>11, <1>12 DEF ExfOf, e
  <2> QED BY <1>7, <1>8, <2>1
<1>17. SameFrefs(S, U) /\ SameQueues(S, U) /\ U.scr = S.scr /\ U.temps = S.temps
       /\ U.forced = S.forced /\ U.lost = S.lost /\ U.rc = S.rc /\ U.broken = S.broken
       /\ U.clobbered = S.clobbered \cup over
  BY <1>5, <1>12 DEF SameFrefs, SameQueues, SameTold, SameDisk
<1>18. Wrote(S, U, s, w, full)
  BY <1>14, <1>15, <1>16, <1>17 DEF Wrote, t
<1> QED BY <1>4, <1>18

\* After a whole write the buffer is not modified.
Written(S, T, s, w) ==
    /\ Mild(S, T)
    /\ ~Failed(S) /\ ~Failed(T) /\ w.all /\ ~w.append => ~ExfOf(T, s).modified

LEMMA FileWriteIs ==
    ASSUME NEW S, Sound(S, {}), ~S.broken, NEW s \in Shown(S), NEW w \in WriteArgs,
           NEW full \in BOOLEAN
    PROVE  Written(S, FileWrite(S, s, w, full), s, w)
<1> DEFINE e == S.scr[s].ep
           f == S.scr[s].frp
           t == Target(S, s, w.name)
           own == OwnName(S, s, w.name)
           m == w.all /\ ~w.append
           T == PutData(S, s, w, full)
           done == [T EXCEPT !.fref[f].flags = @ \ {"NAMECHANGE"}, !.exf[e].modified = @ /\ ~m]
           tmpexit == IF ~m \/ "TMPFILE" \notin S.fref[f].flags THEN done
                      ELSE [done EXCEPT !.fref[f].flags =
                               IF own THEN @ \cup {"TMPEXIT"} ELSE @ \ {"TMPEXIT"}]
           old == S.fref[f].flags \ {"NAMECHANGE"}
           new == IF ~m \/ "TMPFILE" \notin S.fref[f].flags THEN old
                  ELSE IF own THEN old \cup {"TMPEXIT"} ELSE old \ {"TMPEXIT"}
           F == [S.fref EXCEPT ![f].flags = new]
           X == [T.exf EXCEPT ![e].modified = @ /\ ~m]
           U == [T EXCEPT !.fref = F, !.exf = X]
<1>1. FileWrite(S, s, w, full) =
        IF Refused(S, s, w) \/ t \in ReadOnly THEN Fail(S) ELSE IF full THEN Fail(T) ELSE tmpexit
  BY DEF FileWrite
<1>2. Wrote(S, T, s, w, full)
  BY PutDataIs
<1> HIDE DEF T
<1>3. /\ S \in State /\ s \in Scr /\ e \in Exf /\ f \in Fref /\ FrefOf(S, s).name # Null
      /\ S.fref[f] \in FrefRec /\ S.scr[s] \in ScrRec /\ S.fref \in [Fref -> FrefRec]
  BY ShownIs, StateIs DEF Sound, FrefOf
<1>4. /\ T \in State /\ Sound(T, {}) /\ T.scr = S.scr /\ T.fref = S.fref /\ T.frefq = S.frefq
      /\ SameQueues(S, T) /\ T.temps = S.temps /\ T.forced = S.forced /\ T.lost = S.lost
      /\ T.rc = S.rc /\ ~T.broken
  BY <1>2 DEF Wrote, Sound, SameFrefs
<1>5. CASE Refused(S, s, w) \/ t \in ReadOnly
  <2>1. FileWrite(S, s, w, full) = Fail(S)
    BY <1>1, <1>5
  <2>2. Mild(S, Fail(S)) /\ Failed(Fail(S))
    BY FailIs
  <2> QED BY <2>1, <2>2 DEF Written
<1>6. ~Refused(S, s, w) => Mild(S, T)
  BY <1>2, <1>4 DEF Wrote, Mild, SameShown, Clean
<1>7. CASE ~(Refused(S, s, w) \/ t \in ReadOnly) /\ full
  <2>1. FileWrite(S, s, w, full) = Fail(T)
    BY <1>1, <1>7
  <2>2. Mild(T, Fail(T)) /\ Failed(Fail(T))
    BY <1>4, FailIs
  <2>3. Mild(S, Fail(T))
    BY <1>6, <1>7, <2>2, MildTwice
  <2> QED BY <2>1, <2>2, <2>3 DEF Written
<1>8. CASE ~(Refused(S, s, w) \/ t \in ReadOnly) /\ ~full
  <2>1. m \in BOOLEAN /\ own \in BOOLEAN
    BY DEF WriteArgs, OwnName
  <2>2. /\ new \subseteq Flag /\ ("TMPFILE" \in new <=> "TMPFILE" \in S.fref[f].flags)
        /\ "TMPEXIT" \in new => "TMPEXIT" \in S.fref[f].flags \/ "TMPFILE" \in S.fref[f].flags
        /\ ~m \/ "TMPFILE" \notin S.fref[f].flags
             => ("TMPEXIT" \in new <=> "TMPEXIT" \in S.fref[f].flags)
        /\ m /\ own /\ "TMPFILE" \in S.fref[f].flags => "TMPEXIT" \in new
    BY <1>3, <2>1 DEF FrefRec, Flag
  <2>3. tmpexit = U
    <3> DEFINE H == [S.fref EXCEPT ![f].flags = @ \ {"NAMECHANGE"}]
    <3>1. done = [T EXCEPT !.fref = H, !.exf = X]
      BY <1>4
    <3>2. CASE ~m \/ "TMPFILE" \notin S.fref[f].flags
      <4>1. H = F
        BY <3>2
      <4> QED BY <3>1, <3>2, <4>1
    <3>3. CASE ~(~m \/ "TMPFILE" \notin S.fref[f].flags)
      <4>1. [H EXCEPT ![f].flags = IF own THEN @ \cup {"TMPEXIT"} ELSE @ \ {"TMPEXIT"}] = F
        <5>1. H \in [Fref -> FrefRec] /\ H[f] = [S.fref[f] EXCEPT !.flags = old]
          BY <1>3 DEF FrefRec
        <5>2. H = [S.fref EXCEPT ![f] = [S.fref[f] EXCEPT !.flags = old]]
          BY <1>3
        <5>3. H[f].flags = old
          BY <1>3, <5>1 DEF FrefRec
        <5>4. new = IF own THEN old \cup {"TMPEXIT"} ELSE old \ {"TMPEXIT"}
          BY <3>3
        <5> HIDE DEF old, new, H
        <5>5. [H EXCEPT ![f].flags = IF own THEN @ \cup {"TMPEXIT"} ELSE @ \ {"TMPEXIT"}]
                = [H EXCEPT ![f] = [H[f] EXCEPT !.flags = new]]
          BY <1>3, <5>1, <5>3, <5>4
        <5>6. F = [S.fref EXCEPT ![f] = [S.fref[f] EXCEPT !.flags = new]]
          BY <1>3
        <5>7. [H[f] EXCEPT !.flags = new] = [S.fref[f] EXCEPT !.flags = new]
          BY <1>3, <5>1 DEF FrefRec
        <5> QED BY <1>3, <5>2, <5>5, <5>6, <5>7
      <4> HIDE DEF H, F, X
      <4>2. [[T EXCEPT !.fref = H, !.exf = X] EXCEPT !.fref[f].flags =
                   IF own THEN @ \cup {"TMPEXIT"} ELSE @ \ {"TMPEXIT"}] = U
        BY <1>4, <4>1 DEF State
      <4> QED BY <3>1, <3>3, <4>2
    <3> QED BY <3>2, <3>3
  <2> HIDE DEF new, tmpexit
  <2>4. /\ F \in [Fref -> FrefRec] /\ F[f].flags = new /\ F[f].name = S.fref[f].name
        /\ F[f].tname = S.fref[f].tname /\ \A g \in Fref : g # f => F[g] = S.fref[g]
    BY <1>3, <2>2 DEF FrefRec
  <2>5. /\ X \in [Exf -> ExfRec]
        /\ X[e].modified = (T.exf[e].modified /\ ~m) /\ X[e].refcnt = T.exf[e].refcnt
        /\ X[e].work = T.exf[e].work /\ X[e].slips = T.exf[e].slips
        /\ X[e].saw = T.exf[e].saw /\ X[e].knows = T.exf[e].knows
        /\ \A g \in Exf : g # e => X[g] = T.exf[g]
    <3>1. T.exf \in [Exf -> ExfRec] /\ T.exf[e] \in ExfRec
      BY <1>3, <1>4, StateIs
    <3> DEFINE y == [T.exf[e] EXCEPT !.modified = @ /\ ~m]
    <3>2. /\ y \in ExfRec /\ y.modified = (T.exf[e].modified /\ ~m)
          /\ y.refcnt = T.exf[e].refcnt /\ y.work = T.exf[e].work /\ y.slips = T.exf[e].slips
          /\ y.saw = T.exf[e].saw /\ y.knows = T.exf[e].knows
      BY <3>1 DEF ExfRec
    <3>3. X = [T.exf EXCEPT ![e] = y]
      BY <3>1
    <3> HIDE DEF y, X, e
    <3>4. X \in [Exf -> ExfRec] /\ X[e] = y /\ \A g \in Exf : g # e => X[g] = T.exf[g]
      BY <1>3, <3>1, <3>2, <3>3
    <3> QED BY <3>2, <3>4
  <2> HIDE DEF F, X
  <2>6. /\ U \in State /\ U.fref = F /\ U.exf = X /\ U.scr = T.scr /\ U.frefq = T.frefq
        /\ SameQueues(T, U) /\ SameTold(T, U) /\ SameDisk(T, U)
    BY <1>4, <2>4, <2>5 DEF State, SameQueues, SameTold, SameDisk
  <2> HIDE DEF U
  <2>7. Shown(T) = Shown(S) /\ Shown(U) = Shown(S) /\ T.temps \subseteq T.disk
    BY <1>4, <2>6 DEF Shown, Sound, Named
  <2>8. \A g \in Fref : "TMPEXIT" \in U.fref[g].flags => "TMPFILE" \in U.fref[g].flags
    BY <1>3, <2>2, <2>4, <2>6 DEF Sound, Guarded
  <2>9. ASSUME NEW r \in Shown(S)
        PROVE  /\ FrefOf(U, r).name \in Tmp /\ "TMPFILE" \notin FrefOf(U, r).flags
                    => "tmp" \in ExfOf(U, r).slips
               /\ ExfOf(U, r).work /\ ExfOf(U, r).slips = {}
                    => ExfOf(U, r).modified \/ "TMPEXIT" \in FrefOf(U, r).flags
    <3>1. r \in Scr /\ S.scr[r].ep \in Exf /\ S.scr[r].frp \in Fref
      BY ShownIs
    <3>2. /\ FrefOf(T, r).name \in Tmp /\ "TMPFILE" \notin FrefOf(T, r).flags
               => "tmp" \in ExfOf(T, r).slips
          /\ ExfOf(T, r).work /\ ExfOf(T, r).slips = {}
               => ExfOf(T, r).modified \/ "TMPEXIT" \in FrefOf(T, r).flags
      BY <1>4, <2>7 DEF Sound, Guarded
    <3>3. /\ FrefOf(U, r).name = FrefOf(T, r).name
          /\ "TMPFILE" \in FrefOf(U, r).flags <=> "TMPFILE" \in FrefOf(T, r).flags
      BY <1>4, <2>2, <2>4, <2>6, <3>1 DEF FrefOf
    <3>4. ExfOf(U, r).slips = ExfOf(T, r).slips /\ ExfOf(U, r).work = ExfOf(T, r).work
      BY <1>4, <2>5, <2>6, <3>1 DEF ExfOf
    <3>5. ASSUME ExfOf(U, r).work, ExfOf(U, r).slips = {}
          PROVE  ExfOf(U, r).modified \/ "TMPEXIT" \in FrefOf(U, r).flags
      <4>1. CASE S.scr[r].ep # e
        <5>1. ExfOf(U, r).modified = ExfOf(T, r).modified
          BY <1>4, <2>5, <2>6, <3>1, <4>1 DEF ExfOf
        <5>2. CASE S.scr[r].frp # f
          <6>1. FrefOf(U, r) = FrefOf(T, r)
            BY <1>4, <2>4, <2>6, <3>1, <5>2 DEF FrefOf
          <6> QED BY <3>2, <3>4, <3>5, <5>1, <6>1
        <5>3. CASE S.scr[r].frp = f
          <6>1. "TMPFILE" \notin FrefOf(S, r).flags /\ FrefOf(S, r) = FrefOf(T, r)
            BY <1>4, <4>1, <5>3 DEF Sound, Together, FrefOf
          <6>2. "TMPEXIT" \notin FrefOf(T, r).flags
            BY <3>1, <6>1 DEF Sound, Guarded, FrefOf
          <6> QED BY <3>2, <3>4, <3>5, <5>1, <6>2
        <5> QED BY <5>2, <5>3
      <4>2. CASE S.scr[r].ep = e
        <5>1. S.scr[r].frp = f
          BY <4>2 DEF Sound, Together
        <5>2. /\ ExfOf(U, r).modified = (ExfOf(T, r).modified /\ ~m)
              /\ FrefOf(T, r) = S.fref[f] /\ FrefOf(U, r).flags = new
              /\ ExfOf(T, r) = ExfOf(T, s)
          BY <1>4, <2>4, <2>5, <2>6, <4>2, <5>1 DEF ExfOf, FrefOf
        <5>3. CASE ~m
          BY <2>1, <2>2, <3>2, <3>4, <3>5, <5>2, <5>3
        <5>4. CASE m
          <6>1. t \in S.temps /\ t \in Tmp
            <7>1. ExfOf(T, s).work
              BY <3>4, <3>5, <5>2
            <7> QED BY <1>2, <1>3, <1>8, <5>4, <7>1, StateIs DEF Wrote
          <6>2. own
            BY <6>1, Constants DEF own, t, OwnName, Target, WriteArgs
          <6>3. S.fref[f].name \in Tmp
            BY <6>1, <6>2 DEF own, t, OwnName
          <6>4. "TMPFILE" \in S.fref[f].flags
            BY <3>2, <3>4, <3>5, <5>2, <6>3
          <6> QED BY <2>2, <5>2, <5>4, <6>2, <6>4
        <5> QED BY <5>3, <5>4
      <4> QED BY <4>1, <4>2
    <3> QED BY <3>2, <3>3, <3>4, <3>5
  <2>10. Guarded(U)
    BY <2>7, <2>8, <2>9 DEF Guarded
  <2>11. \A g \in Exf : /\ U.exf[g].refcnt = T.exf[g].refcnt /\ U.exf[g].saw = T.exf[g].saw
                        /\ U.exf[g].knows = T.exf[g].knows /\ U.exf[g].slips = T.exf[g].slips
    BY <2>5, <2>6
  <2>12. Saw(U)
    BY <1>4, <2>11 DEF Sound, Saw
  <2>13. Sound(U, {})
    <3>1. U.temps = T.temps /\ U.temps \subseteq U.disk
      BY <2>6, <2>7 DEF SameDisk
    <3>2. U.fref[f].name # Null /\ U.fref[f].tname = T.fref[f].tname
          /\ ("TMPFILE" \in U.fref[f].flags => "TMPFILE" \in T.fref[f].flags)
          /\ \A g \in Fref : g # f => U.fref[g] = T.fref[g]
      BY <1>3, <1>4, <2>2, <2>4, <2>6 DEF FrefOf
    <3> HIDE DEF f
    <3> QED BY <1>3, <1>4, <2>6, <2>10, <2>11, <2>12, <3>1, <3>2, FlagsSound
  <2>14. Mild(T, U)
    BY <1>4, <2>6, <2>13 DEF Mild, SameShown, SameTold, Clean
  <2>15. Mild(S, U)
    BY <1>6, <1>8, <2>14, MildTwice
  <2>16. w.all /\ ~w.append => ~ExfOf(U, s).modified
    BY <1>4, <2>5, <2>6 DEF ExfOf
  <2>17. FileWrite(S, s, w, full) = U
    BY <1>1, <1>8, <2>3
  <2> QED BY <2>15, <2>16, <2>17 DEF Written
<1> QED BY <1>5, <1>7, <1>8

NewName(S, f, n, A) ==
    [S EXCEPT !.fref[f].name = n, !.fref[f].flags = (@ \ {"TMPEXIT", "TMPFILE"}) \cup A]

\* The first name given to a temporary file, or a new name: no flag guards it now.
LEMMA NamedIs ==
    ASSUME NEW S, Sound(S, {}), ~S.broken, NEW f \in Fref, NEW n \in Name, NEW A \in SUBSET Flag,
           "TMPFILE" \notin A, "TMPEXIT" \notin A,
           NEW R, R = IF "TMPFILE" \in S.fref[f].flags THEN Slipped(S, f, "tmp") ELSE S
    PROVE  Mild(S, NewName(R, f, n, A)) /\ NewName(R, f, n, A).rc = S.rc
<1> DEFINE X == (S.fref[f].flags \ {"TMPEXIT", "TMPFILE"}) \cup A
           G == [S.fref EXCEPT ![f].name = n]
           F == [G EXCEPT ![f].flags = X]
           T == NewName(R, f, n, A)
           U == [R EXCEPT !.fref = F]
<1>1. /\ S \in State /\ S.fref[f] \in FrefRec /\ S.fref \in [Fref -> FrefRec]
      /\ n \in Path \cup {Null} /\ n \notin Tmp /\ n # Null /\ "tmp" \in Slip
  BY StateIs, Constants, NameAssumption DEF Sound, Slip
<1>2. X \in SUBSET Flag /\ "TMPFILE" \notin X /\ "TMPEXIT" \notin X
  BY <1>1 DEF FrefRec
<1>3. /\ G \in [Fref -> FrefRec] /\ G[f].flags = S.fref[f].flags /\ G[f].name = n
      /\ G[f].tname = S.fref[f].tname /\ \A g \in Fref : g # f => G[g] = S.fref[g]
  BY <1>1 DEF FrefRec
<1>4. R \in State /\ R.fref = S.fref
  <2>1. CASE "TMPFILE" \in S.fref[f].flags
    BY <1>1, <2>1, SlippedIs DEF SameFrefs
  <2>2. CASE "TMPFILE" \notin S.fref[f].flags
    BY <1>1, <2>2
  <2> QED BY <2>1, <2>2
<1>5. T = U
  <2>1. T = [R EXCEPT !.fref[f].name = n, !.fref[f].flags = X]
    BY <1>4 DEF NewName
  <2> HIDE DEF X
  <2>2. [R EXCEPT !.fref[f].name = n, !.fref[f].flags = X] = U
    BY <1>4 DEF State
  <2> QED BY <2>1, <2>2
<1> HIDE DEF G, X
<1>6. /\ F \in [Fref -> FrefRec] /\ \A g \in Fref : g # f => F[g] = S.fref[g]
      /\ F[f].name = n /\ F[f].flags = X /\ F[f].tname = S.fref[f].tname
  BY <1>2, <1>3 DEF FrefRec
<1> HIDE DEF F
<1>7. Renamed(S, U, f, n, X)
  BY <1>1, <1>2, <1>6, RenamedIs
<1> HIDE DEF U
<1>8. Sound(U, {})
  BY <1>1, <1>2, <1>7, RenamedSound
<1>9. Mild(S, U) /\ U.rc = S.rc
  BY <1>7, <1>8, RenamedMild DEF Renamed, SameTold
<1> QED BY <1>5, <1>9

\* A screen that showed a file still does.
LEMMA MildShown ==
    ASSUME NEW S, NEW T, Mild(S, T)
    PROVE  Shown(T) = Shown(S) /\ Sound(T, {}) /\ ~T.broken /\ T.forced = S.forced
BY DEF Mild, SameShown, Shown

LEMMA ExWrIs ==
    ASSUME NEW S, Sound(S, {}), ~S.broken, NEW s \in Shown(S), NEW w \in WriteArgs,
           NEW full \in BOOLEAN
    PROVE  Written(S, ExWr(S, s, w, full), s, w)
<1> DEFINE f == S.scr[s].frp
           N == NewName(Slipped(S, f, "tmp"), f, w.name, {"NAMECHANGE", "EXNAMED"})
           b == w.name # Null /\ "TMPFILE" \in S.fref[f].flags /\ "EXNAMED" \notin S.fref[f].flags
<1>1. ExWr(S, s, w, full) = FileWrite(IF b THEN N ELSE S, s, w, full)
  BY DEF ExWr, NewName
<1>2. CASE ~b
  <2>1. ExWr(S, s, w, full) = FileWrite(S, s, w, full)
    BY <1>1, <1>2
  <2> QED BY <2>1, FileWriteIs
<1>3. CASE b
  <2>1. f \in Fref
    BY ShownIs
  <2>2. w.name \in Name /\ "TMPFILE" \in S.fref[f].flags
    BY <1>3 DEF WriteArgs
  <2> DEFINE A == {"NAMECHANGE", "EXNAMED"}
             R == IF "TMPFILE" \in S.fref[f].flags THEN Slipped(S, f, "tmp") ELSE S
  <2>3. A \in SUBSET Flag /\ "TMPFILE" \notin A /\ "TMPEXIT" \notin A
    BY DEF Flag
  <2>4. R = Slipped(S, f, "tmp")
    BY <2>2
  <2> HIDE DEF f, A
  <2> HIDE DEF R
  <2>5. Mild(S, NewName(R, f, w.name, A)) /\ NewName(R, f, w.name, A).rc = S.rc
    BY <2>1, <2>2, <2>3, NamedIs DEF R
  <2>6. Mild(S, N) /\ N.rc = S.rc
    BY <2>4, <2>5 DEF A
  <2> HIDE DEF N
  <2>7. Sound(N, {}) /\ ~N.broken /\ s \in Shown(N)
    BY <2>6, MildShown
  <2> DEFINE T == FileWrite(N, s, w, full)
  <2>8. Written(N, T, s, w)
    BY <2>7, FileWriteIs
  <2>9. ExWr(S, s, w, full) = T
    BY <1>1, <1>3
  <2> HIDE DEF T
  <2>10. Mild(S, T)
    BY <2>6, <2>8, MildTwice DEF Written
  <2> QED BY <2>6, <2>8, <2>9, <2>10 DEF Written, Failed
<1> QED BY <1>2, <1>3

-----------------------------------------------------------------------------
(* The checks before a file is left                                        *)

\* T is S after a check; if it passed, screen s may leave its file.
Checked(S, T, s) == Mild(S, T) /\ (~Failed(T) => Safe(T, s))

LEMMA SafeIs ==
    ASSUME NEW S, Sound(S, {}), NEW s \in Shown(S),
           S.forced \/ Shared(S, s) \/ (~ExfOf(S, s).modified /\ "TMPEXIT" \notin Flags(S, s))
    PROVE  Safe(S, s)
BY DEF Sound, Guarded, Safe, Shared, ExfOf, FrefOf, Flags

LEMMA FileM3Is ==
    ASSUME NEW S, Sound(S, {}), ~S.broken, NEW s \in Shown(S), NEW force \in BOOLEAN,
           force => S.forced
    PROVE  /\ Mild(S, FileM3(S, s, force))
           /\ ~Failed(FileM3(S, s, force)) =>
                /\ FileM3(S, s, force) = S
                /\ S.forced \/ Shared(S, s) \/ "TMPEXIT" \notin Flags(S, s)
<1>1. Mild(S, S) /\ Mild(S, Fail(S)) /\ Failed(Fail(S))
  BY MildSame, FailIs
<1> QED BY <1>1 DEF FileM3

LEMMA FileM2Is ==
    ASSUME NEW S, Sound(S, {}), ~S.broken, NEW s \in Shown(S), NEW force \in BOOLEAN,
           force => S.forced
    PROVE  Checked(S, FileM2(S, s, force), s)
<1>1. Mild(S, Fail(S)) /\ Failed(Fail(S))
  BY FailIs
<1>2. CASE Modified(S, s) /\ ~Shared(S, s) /\ ~force
  <2>1. FileM2(S, s, force) = Fail(S)
    BY <1>2 DEF FileM2
  <2> QED BY <1>1, <2>1 DEF Checked
<1>3. CASE ~(Modified(S, s) /\ ~Shared(S, s) /\ ~force)
  <2>1. FileM2(S, s, force) = FileM3(S, s, force)
    BY <1>3 DEF FileM2
  <2>2. Modified(S, s) = ExfOf(S, s).modified
    BY DEF Modified, ExfOf
  <2>3. ~Failed(FileM3(S, s, force)) => Safe(FileM3(S, s, force), s)
    BY <1>3, <2>2, FileM3Is, SafeIs
  <2> QED BY <2>1, <2>3, FileM3Is DEF Checked
<1> QED BY <1>2, <1>3

LEMMA FileM1Is ==
    ASSUME NEW S, Sound(S, {}), ~S.broken, ~Failed(S), NEW s \in Shown(S), NEW force \in BOOLEAN,
           force => S.forced, NEW full \in BOOLEAN
    PROVE  Checked(S, FileM1(S, s, force, full), s)
<1> DEFINE T == IF ~Modified(S, s) \/ force THEN S
                ELSE IF Autowrite THEN FileAw(S, s, full)
                ELSE IF ~Shared(S, s) THEN Fail(S)
                ELSE S
<1>1. FileM1(S, s, force, full) = IF Failed(T) THEN T ELSE FileM3(T, s, force)
  BY DEF FileM1
<1>2. Modified(S, s) = ExfOf(S, s).modified
  BY DEF Modified, ExfOf
<1>3. Mild(S, S) /\ Mild(S, Fail(S)) /\ Failed(Fail(S))
  BY MildSame, FailIs
<1>4. /\ Mild(S, T)
      /\ ~Failed(T) => T.forced \/ Shared(T, s) \/ ~ExfOf(T, s).modified
  <2>1. CASE ~Modified(S, s) \/ force
    BY <1>2, <1>3, <2>1
  <2>2. CASE ~(~Modified(S, s) \/ force) /\ Autowrite
    <3>1. T = IF S.scr[s].ro THEN Fail(S) ELSE FileWrite(S, s, Whole(FALSE), full)
      BY <2>2 DEF FileAw
    <3>2. CASE S.scr[s].ro
      BY <1>3, <3>1, <3>2
    <3>3. CASE ~S.scr[s].ro
      <4>1. Whole(FALSE) \in WriteArgs /\ Whole(FALSE).all /\ ~Whole(FALSE).append
        BY DEF Whole, WriteArgs
      <4>2. Written(S, FileWrite(S, s, Whole(FALSE), full), s, Whole(FALSE))
        BY <4>1, FileWriteIs
      <4>3. T = FileWrite(S, s, Whole(FALSE), full)
        BY <3>1, <3>3
      <4> QED BY <4>1, <4>2, <4>3 DEF Written
    <3> QED BY <3>2, <3>3
  <2>3. CASE ~(~Modified(S, s) \/ force) /\ ~Autowrite
    BY <1>3, <2>3
  <2> QED BY <2>1, <2>2, <2>3
<1> HIDE DEF T
<1>5. CASE Failed(T)
  BY <1>1, <1>4, <1>5 DEF Checked
<1>6. CASE ~Failed(T)
  <2>1. Sound(T, {}) /\ ~T.broken /\ s \in Shown(T) /\ (force => T.forced)
    BY <1>4, MildShown
  <2> DEFINE U == FileM3(T, s, force)
  <2>2. /\ Mild(T, U)
        /\ ~Failed(U) => U = T /\ (T.forced \/ Shared(T, s) \/ "TMPEXIT" \notin Flags(T, s))
    BY <2>1, FileM3Is
  <2>3. FileM1(S, s, force, full) = U
    BY <1>1, <1>6
  <2> HIDE DEF U
  <2>4. Mild(S, U)
    BY <1>4, <2>2, MildTwice
  <2>5. ~Failed(U) => Safe(U, s)
    BY <1>4, <1>6, <2>1, <2>2, SafeIs
  <2> QED BY <2>3, <2>4, <2>5 DEF Checked
<1> QED BY <1>5, <1>6

\* One screen has other fields, its file excepted.
LEMMA ScreenSame ==
    ASSUME NEW S, Sound(S, {}), ~S.broken, NEW s \in Scr, NEW c \in ScrRec,
           c.ep = S.scr[s].ep, c.frp = S.scr[s].frp, c.pos <= Len(c.argv)
    PROVE  LET T == [S EXCEPT !.scr = [S.scr EXCEPT ![s] = c]]
           IN  /\ Mild(S, T) /\ T.rc = S.rc /\ T.scr = [S.scr EXCEPT ![s] = c]
               /\ T.exf = S.exf /\ SameFrefs(S, T)
<1> DEFINE C == [S.scr EXCEPT ![s] = c]
           T == [S EXCEPT !.scr = C]
<1>1. S \in State /\ S.scr \in [Scr -> ScrRec]
  BY StateIs DEF Sound
<1>2. /\ C \in [Scr -> ScrRec] /\ C = [S.scr EXCEPT ![s] = c]
      /\ C[s] = c /\ \A t \in Scr : t # s => C[t] = S.scr[t]
  BY <1>1
<1> HIDE DEF C
<1>3. /\ T \in State /\ T.scr = C /\ T.exf = S.exf /\ SameFrefs(S, T) /\ SameQueues(S, T)
      /\ SameTold(S, T) /\ SameDisk(S, T)
  BY <1>1, <1>2 DEF State, SameFrefs, SameQueues, SameTold, SameDisk
<1> HIDE DEF T
<1>4. SameShown(S, T) /\ Screened(T)
  BY <1>2, <1>3 DEF SameShown, Screened, Sound
<1>5. T.broken = S.broken
  BY <1>3 DEF SameTold
<1>6. Sound(T, {})
  BY <1>3, <1>4, <1>5, SameSound
<1>7. Mild(S, T) /\ T.rc = S.rc
  BY <1>3, <1>4, <1>5, <1>6 DEF Mild, SameTold, Clean
<1> QED BY <1>2, <1>3, <1>7 DEF T

LEMMA NCheckIs ==
    ASSUME NEW S, Sound(S, {}), ~S.broken, NEW s \in Shown(S), NEW force \in BOOLEAN
    PROVE  /\ Mild(S, NCheck(S, s, force))
           /\ ~Failed(NCheck(S, s, force)) => NCheck(S, s, force) = S
<1> DEFINE c == [S.scr[s] EXCEPT !.quit = 2]
           T == [S EXCEPT !.scr = [S.scr EXCEPT ![s] = c]]
<1>1. S \in State /\ s \in Scr /\ S.scr[s] \in ScrRec /\ S.scr \in [Scr -> ScrRec]
      /\ S.scr[s].pos <= Len(S.scr[s].argv)
  BY ShownIs, StateIs DEF Sound, Screened
<1>2. /\ c \in ScrRec /\ c.ep = S.scr[s].ep /\ c.frp = S.scr[s].frp /\ c.pos <= Len(c.argv)
  <2>1. 2 \in 0..2
    OBVIOUS
  <2>2. c \in ScrRec
    BY <1>1, <2>1 DEF ScrRec
  <2>3. c.ep = S.scr[s].ep /\ c.frp = S.scr[s].frp /\ c.pos = S.scr[s].pos /\ c.argv = S.scr[s].argv
    BY <1>1 DEF ScrRec
  <2> QED BY <1>1, <2>2, <2>3
<1>3. [S EXCEPT !.scr[s].quit = 2] = T
  BY <1>1 DEF State
<1> HIDE DEF c
<1>4. Mild(S, T)
  BY <1>1, <1>2, ScreenSame
<1> HIDE DEF T
<1>5. Sound(T, {}) /\ ~T.broken
  BY <1>4, MildShown
<1>6. Mild(T, Fail(T)) /\ Failed(Fail(T))
  BY <1>5, FailIs
<1>7. Mild(S, Fail(T))
  BY <1>4, <1>6, MildTwice
<1>8. NCheck(S, s, force) = Fail(T) \/ NCheck(S, s, force) = S
  BY <1>3 DEF NCheck
<1> QED BY <1>6, <1>7, <1>8, MildSame

\* A screen is left although some of the lines were not written.
LEMMA PartialIs ==
    ASSUME NEW S, Sound(S, {}), ~S.broken, NEW s \in Shown(S)
    PROVE  LET T == [S EXCEPT !.exf[S.scr[s].ep].slips = @ \cup {"partial"}]
           IN  Mild(S, T) /\ T.rc = S.rc /\ Safe(T, s)
<1> DEFINE e == S.scr[s].ep
           y == [S.exf[e] EXCEPT !.slips = @ \cup {"partial"}]
           X == [S.exf EXCEPT ![e] = y]
           T == [S EXCEPT !.exf = X]
<1>1. S \in State /\ e \in Exf /\ S.exf[e] \in ExfRec /\ S.exf \in [Exf -> ExfRec]
  BY ShownIs, StateIs DEF Sound, ExfOf
<1>2. [S EXCEPT !.exf[e].slips = @ \cup {"partial"}] = T
  BY <1>1 DEF State
<1>3. /\ y \in ExfRec /\ y.refcnt = S.exf[e].refcnt /\ y.saw = S.exf[e].saw
      /\ y.knows = S.exf[e].knows /\ y.slips = S.exf[e].slips \cup {"partial"}
  BY <1>1 DEF ExfRec, Slip
<1> HIDE DEF y, e
<1>4. X \in [Exf -> ExfRec] /\ X[e] = y /\ \A g \in Exf : g # e => X[g] = S.exf[g]
  BY <1>1, <1>3
<1> HIDE DEF X
<1>5. /\ T \in State /\ T.exf = X /\ T.scr = S.scr /\ SameFrefs(S, T) /\ SameQueues(S, T)
      /\ SameTold(S, T) /\ SameDisk(S, T)
  BY <1>1, <1>4 DEF State, SameFrefs, SameQueues, SameTold, SameDisk
<1> HIDE DEF T
<1>6. \A g \in Exf : Grows(S.exf[g], T.exf[g])
  <2>1. \A g \in Exf : S.exf[g].saw \in S.exf[g].knows \cup {Null} \/ "appended" \in S.exf[g].slips
    BY DEF Sound, Saw
  <2>2. Grows(S.exf[e], y)
    BY <1>1, <1>3, <2>1 DEF Grows
  <2>3. \A g \in Exf : g # e => Grows(S.exf[g], T.exf[g])
    BY <1>4, <1>5, <2>1 DEF Grows
  <2> QED BY <1>4, <1>5, <2>2, <2>3
<1>7. SameShown(S, T) /\ Screened(T)
  BY <1>5 DEF SameShown, Screened, Sound
<1>8. T.temps = S.temps /\ T.temps \subseteq T.disk /\ T.broken = S.broken
  BY <1>5 DEF SameDisk, SameTold, Sound, Named
<1>9. Sound(T, {})
  BY <1>5, <1>6, <1>7, <1>8, GrowsSound
<1>10. Mild(S, T) /\ T.rc = S.rc
  BY <1>5, <1>7, <1>9 DEF Mild, SameTold, Clean
<1>11. Safe(T, s)
  BY <1>3, <1>4, <1>5 DEF Safe, ExfOf, e
<1> QED BY <1>2, <1>10, <1>11 DEF e

-----------------------------------------------------------------------------
(* Screens come and go                                                     *)

\* The state a handler of the current screen s starts in.
Fit(S, s) ==
    /\ Sound(S, {}) /\ Queued(S) /\ Clean(S) /\ ~S.broken /\ ~Failed(S)
    /\ s = S.cur /\ s # None

\* What a command leaves behind.
Good(S, T) ==
    /\ Sound(T, {}) /\ Queued(T) /\ Clean(T)
    /\ Failed(T) => \A r \in Linked(S) : T.scr[r].ep = S.scr[r].ep /\ r \in Linked(T)

LEMMA FitIs ==
    ASSUME NEW S, NEW s, Fit(S, s)
    PROVE  /\ S \in State /\ s \in Scr /\ s \in Range(S.dq) /\ s \in Shown(S) /\ Shown(S) = Linked(S)
           /\ S.dq \in Seq(Scr) /\ S.hq \in Seq(Scr) /\ Range(S.dq) \subseteq Scr
           /\ Range(S.hq) \subseteq Scr /\ S.scr[s] \in ScrRec /\ S.scr[s].frp \in Fref
           /\ S.scr[s].frp \in Range(S.frefq) /\ S.fref[S.scr[s].frp] \in FrefRec
           /\ S.fref[S.scr[s].frp].name \in Path
           /\ S.scr[s].pos <= Len(S.scr[s].argv) /\ Linked(S) \subseteq Scr
<1>1. S \in State /\ S.dq \in Seq(Scr) /\ S.hq \in Seq(Scr)
  BY StateIs DEF Fit, Sound
<1>2. Range(S.dq) \subseteq Scr /\ Range(S.hq) \subseteq Scr
  BY <1>1, RangeIn
<1>3. s \in Range(S.dq) /\ Shown(S) = Linked(S) /\ s \in Linked(S)
  BY DEF Fit, Queued, Linked
<1>4. S.scr[s] \in ScrRec /\ S.scr[s].frp \in Fref /\ S.scr[s].frp \in Range(S.frefq)
      /\ FrefOf(S, s) \in FrefRec /\ FrefOf(S, s).name # Null /\ s \in Scr
  BY <1>3, ShownIs DEF Fit
<1>5. S.scr[s].pos <= Len(S.scr[s].argv)
  BY <1>4 DEF Fit, Sound, Screened
<1> QED BY <1>1, <1>2, <1>3, <1>4, <1>5 DEF FrefOf, FrefRec, Linked

LEMMA MildGood ==
    ASSUME NEW S, NEW s, Fit(S, s), NEW T, Mild(S, T)
    PROVE  Good(S, T) /\ (~Failed(T) => Fit(T, s))
<1>1. Shown(T) = Shown(S) /\ Linked(T) = Linked(S)
  BY DEF Mild, Shown, SameShown, Linked, SameQueues
<1>2. Queued(T)
  BY <1>1 DEF Fit, Queued, Mild, SameQueues
<1>3. \A r \in Linked(S) : T.scr[r].ep = S.scr[r].ep /\ r \in Linked(T)
  BY <1>1, FitIs DEF Mild, SameShown
<1> QED BY <1>2, <1>3 DEF Good, Fit, Mild, SameQueues

\* A command is good if the rest of it is.
LEMMA GoodAfter ==
    ASSUME NEW S, NEW s, Fit(S, s), NEW T, Mild(S, T), NEW U, Good(T, U)
    PROVE  Good(S, U)
<1>1. Linked(T) = Linked(S) /\ \A r \in Linked(S) : T.scr[r].ep = S.scr[r].ep
  BY FitIs DEF Mild, SameShown, SameQueues, Linked
<1> QED BY <1>1 DEF Good

\* The current screen got another file, or kept its own.
LEMMA InitsGood ==
    ASSUME NEW S, NEW s, Fit(S, s), NEW T, Inits(S, T, s)
    PROVE  Good(S, T) /\ (~Failed(T) => Fit(T, s))
<1>1. s \in Shown(S) /\ Shown(S) = Linked(S) /\ Linked(S) \subseteq Scr
  BY FitIs
<1>2. Shown(T) = Shown(S)
  BY <1>1 DEF Inits, Shown
<1>3. Linked(T) = Linked(S)
  BY DEF Inits, SameQueues, Linked
<1>4. Queued(T)
  BY <1>1, <1>2, <1>3 DEF Fit, Queued, Inits, SameQueues
<1> QED BY <1>1, <1>3, <1>4 DEF Good, Fit, Inits, SameQueues

\* The heir is another displayed screen, if there is one.
LEMMA HeirIs ==
    ASSUME NEW S, NEW s, Fit(S, s)
    PROVE  /\ Place(S, s) \in 1..Len(S.dq) /\ Len(S.dq) \in Nat
           /\ Heir(S, s) # None => Heir(S, s) \in Range(S.dq) \ {s} /\ Heir(S, s) \in Scr
           /\ Heir(S, s) = None => Range(S.dq) = {s}
<1> DEFINE i == Place(S, s)
<1>1. /\ S.dq \in Seq(Scr) /\ DOMAIN S.dq = 1..Len(S.dq) /\ Len(S.dq) \in Nat
      /\ \A k \in 1..Len(S.dq) : S.dq[k] \in Range(S.dq) /\ S.dq[k] \in Scr
      /\ Range(S.dq) \subseteq Scr
  BY FitIs, RangeIn
<1>2. i \in DOMAIN S.dq /\ S.dq[i] = s
  <2>1. \E k \in DOMAIN S.dq : S.dq[k] = s
    BY FitIs DEF Range
  <2> QED BY <2>1 DEF Place
<1>3. Heir(S, s) = IF i > 1 THEN S.dq[i - 1] ELSE IF i < Len(S.dq) THEN S.dq[i + 1] ELSE None
  BY DEF Heir
<1>4. \A k, l \in DOMAIN S.dq : S.dq[k] = S.dq[l] => k = l
  BY DEF Fit, Queued, IsInjective
<1> HIDE DEF i
<1>5. CASE i > 1
  <2>1. i - 1 \in 1..Len(S.dq) /\ i - 1 # i
    BY <1>1, <1>2, <1>5
  <2>2. Heir(S, s) = S.dq[i - 1] /\ S.dq[i - 1] # s
    BY <1>1, <1>2, <1>3, <1>4, <1>5, <2>1
  <2> QED BY <1>1, <1>2, <2>1, <2>2, Constants DEF i
<1>6. CASE ~(i > 1) /\ i < Len(S.dq)
  <2>1. i + 1 \in 1..Len(S.dq) /\ i + 1 # i
    BY <1>1, <1>2, <1>6
  <2>2. Heir(S, s) = S.dq[i + 1] /\ S.dq[i + 1] # s
    BY <1>1, <1>2, <1>3, <1>4, <1>6, <2>1
  <2> QED BY <1>1, <1>2, <2>1, <2>2, Constants DEF i
<1>7. CASE ~(i > 1) /\ ~(i < Len(S.dq))
  <2>1. Len(S.dq) = 1 /\ i = 1 /\ Heir(S, s) = None
    <3>1. i \in 1..Len(S.dq) /\ Len(S.dq) \in Nat
      BY <1>1, <1>2
    <3>2. ASSUME NEW n \in Nat, NEW k \in 1..n, ~(k > 1), ~(k < n)
          PROVE  n = 1 /\ k = 1
      BY <3>2
    <3>3. Len(S.dq) = 1 /\ i = 1
      BY <1>7, <3>1, <3>2
    <3> QED BY <1>3, <3>3
  <2>2. Range(S.dq) = {S.dq[1]}
    <3>1. DOMAIN S.dq = {1}
      BY <1>1, <2>1
    <3> QED BY <3>1 DEF Range
  <2> QED BY <1>1, <1>2, <2>1, <2>2 DEF i
<1> QED BY <1>5, <1>6, <1>7

LEMMA ExitIs ==
    ASSUME NEW S, NEW s, Fit(S, s), Safe(S, s)
    PROVE  Good(S, Exit(S, s))
<1> DEFINE heir == Heir(S, s)
           next == IF heir # None THEN heir ELSE IF S.hq # <<>> THEN Head(S.hq) ELSE None
           T == FileEnd(S, s, None)
           q == Without(T.dq, {s})
           o == IF heir = None /\ next # None THEN <<next>> ELSE <<>>
           h == Without(T.hq, {next})
           G == Gone(T, s)
           W == [T EXCEPT !.scr[s] = NoScr, !.cur = next, !.dq = q \o o, !.hq = h]
           V == [G EXCEPT !.cur = next, !.dq = q \o o, !.hq = h]
<1>1. /\ S \in State /\ s \in Scr /\ s \in Range(S.dq) /\ s \in Shown(S) /\ Shown(S) = Linked(S)
      /\ S.dq \in Seq(Scr) /\ S.hq \in Seq(Scr) /\ Range(S.dq) \subseteq Scr
      /\ Range(S.hq) \subseteq Scr /\ S.scr[s].frp # None
  BY FitIs, Constants
<1>2. Exit(S, s) = W
  BY DEF Exit
<1>3. /\ T \in State /\ Sound(G, {}) /\ SameQueues(S, T)
      /\ T.rc = S.rc /\ T.forced = S.forced /\ T.clobbered = S.clobbered
      /\ T.broken = S.broken
      /\ \A t \in Scr : t # s => T.scr[t] = S.scr[t]
      /\ Safe(S, s) /\ "plain" \notin S.lost => "plain" \notin T.lost
  <2>1. Sound(S, {}) /\ ~S.broken /\ (S.scr[s].frp = None => None \in {})
    BY <1>1 DEF Fit
  <2> QED BY <1>1, <2>1, EndIs
<1> HIDE DEF T
<1>4. /\ G \in State /\ G.scr = [T.scr EXCEPT ![s] = NoScr] /\ SameTold(T, G)
      /\ \A t \in Scr : G.scr[t] = IF t = s THEN NoScr ELSE T.scr[t]
  BY <1>1, <1>3, GoneIs
<1>5. W = V
  <2> HIDE DEF q, o, h, next
  <2> QED BY <1>3 DEF Gone, State
<1> HIDE DEF G, W
<1>6. /\ heir # None => heir \in Range(S.dq) \ {s} /\ heir \in Scr
      /\ heir = None => Range(S.dq) = {s}
  BY HeirIs
<1>7. /\ q \in Seq(Scr) /\ Range(q) = Range(S.dq) \ {s} /\ IsInjective(q)
  BY <1>1, <1>3, WithoutIs DEF SameQueues, Fit, Queued
<1>8. S.hq # <<>> => Head(S.hq) \in Range(S.hq) /\ Head(S.hq) \in Scr
  <2>1. S.hq # <<>> => 1 \in 1..Len(S.hq) /\ Head(S.hq) = S.hq[1]
    BY <1>1
  <2> QED BY <1>1, <2>1, RangeIn
<1>9. S.hq = <<>> => Range(S.hq) = {}
  BY EmptyIs
<1>10. Range(S.dq) \cap Range(S.hq) = {}
  BY DEF Fit, Queued
<1>11. /\ next \in Scr \cup {None}
       /\ next = None => Range(S.dq) = {s} /\ Range(S.hq) = {}
       /\ heir # None => next = heir
       /\ heir = None /\ next # None => next \in Range(S.hq)
  <2>1. None \notin Scr
    BY Constants
  <2> HIDE DEF heir
  <2> QED BY <1>6, <1>8, <1>9, <2>1
<1> HIDE DEF heir, next
<1>12. /\ o \in Seq(Scr) /\ IsInjective(o)
       /\ Range(o) = IF heir = None /\ next # None THEN {next} ELSE {}
  <2>1. CASE heir = None /\ next # None
    <3>1. next \in Scr /\ o = <<next>>
      BY <1>11, <2>1
    <3> QED BY <2>1, <3>1, OneIs
  <2>2. CASE ~(heir = None /\ next # None)
    <3>1. o = <<>>
      BY <2>2
    <3> QED BY <2>2, <3>1, EmptyIs
  <2> QED BY <2>1, <2>2
<1>13. h \in Seq(Scr) /\ Range(h) = Range(S.hq) \ {next}
  BY <1>1, <1>3, WithoutIs DEF SameQueues
<1> HIDE DEF q, o, h
<1>14. Range(q) \cap Range(o) = {}
  BY <1>7, <1>10, <1>11, <1>12
<1>15. q \o o \in Seq(Scr) /\ Range(q \o o) = Range(q) \cup Range(o) /\ IsInjective(q \o o)
  BY <1>7, <1>12, <1>14, ConcatIs
<1>16. /\ V \in State /\ V.scr = G.scr /\ V.exf = G.exf /\ SameFrefs(G, V) /\ SameDisk(G, V)
       /\ SameTold(G, V) /\ V.cur = next /\ V.dq = q \o o /\ V.hq = h
  BY <1>4, <1>11, <1>13, <1>15 DEF State, SameFrefs, SameDisk, SameTold
<1> HIDE DEF V
<1>17. Sound(V, {})
  <2>1. SameShown(G, V) /\ Screened(V) /\ V.broken = G.broken
    BY <1>3, <1>16 DEF SameShown, Sound, Screened, SameTold
  <2> QED BY <1>3, <1>16, <2>1, SameSound
<1>18. Shown(V) = Shown(S) \ {s}
  BY <1>3, <1>4, <1>16, Nothings DEF Shown
<1>19. Linked(V) = Linked(S) \ {s}
  <2>1. s \notin Range(S.hq)
    BY <1>1, <1>10
  <2>2. Range(q \o o) \cup Range(h) = (Range(S.dq) \cup Range(S.hq)) \ {s}
    <3>1. CASE heir # None
      BY <1>6, <1>7, <1>10, <1>11, <1>12, <1>13, <1>15, <2>1, <3>1
    <3>2. CASE heir = None
      <4>1. None \notin Scr
        BY Constants
      <4> QED BY <1>1, <1>6, <1>7, <1>11, <1>12, <1>13, <1>15, <2>1, <3>2, <4>1
    <3> QED BY <3>1, <3>2
  <2> QED BY <1>16, <2>2 DEF Linked
<1>20. Queued(V)
  <2>1. Range(V.dq) \cap Range(V.hq) = {}
    BY <1>7, <1>10, <1>12, <1>13, <1>15, <1>16
  <2>2. V.cur # None => V.cur \in Range(V.dq)
    BY <1>6, <1>7, <1>11, <1>12, <1>15, <1>16
  <2> QED BY <1>1, <1>15, <1>16, <1>18, <1>19, <2>1, <2>2 DEF Queued
<1>21. V.rc = S.rc /\ Clean(V)
  BY <1>3, <1>4, <1>16 DEF SameTold, Fit, Clean
<1>22. Good(S, V)
  BY <1>17, <1>20, <1>21 DEF Good, Fit, Failed
<1> QED BY <1>2, <1>5, <1>22

LEMMA LeaveIs ==
    ASSUME NEW S, NEW s, Sound(S, {}), ~S.broken, s \in Shown(S), NEW all \in BOOLEAN,
           NEW force \in BOOLEAN, ~Failed(S) => Fit(S, s),
           ~Failed(S) /\ all => ~ExfOf(S, s).modified, Failed(S) => Good(S, S)
    PROVE  Good(S, Leave(S, s, all, force))
<1> DEFINE M == IF Failed(S) THEN S ELSE FileM3(S, s, FALSE)
           N == IF Failed(M) THEN M ELSE NCheck(M, s, force)
           Q == [N EXCEPT !.exf[N.scr[s].ep].slips = @ \cup {"partial"}]
<1>1. Leave(S, s, all, force) = IF Failed(N) THEN N ELSE Exit(IF all THEN N ELSE Q, s)
  BY DEF Leave
<1>2. CASE Failed(S)
  <2>1. N = S
    BY <1>2
  <2> HIDE DEF N
  <2> QED BY <1>1, <1>2, <2>1
<1>3. CASE ~Failed(S)
  <2>1. Fit(S, s) /\ M = FileM3(S, s, FALSE)
    BY <1>3
  <2>2. /\ Mild(S, FileM3(S, s, FALSE))
        /\ ~Failed(FileM3(S, s, FALSE)) =>
             /\ FileM3(S, s, FALSE) = S
             /\ S.forced \/ Shared(S, s) \/ "TMPEXIT" \notin Flags(S, s)
    BY FileM3Is
  <2> HIDE DEF M
  <2>3. CASE Failed(M)
    <3>1. Leave(S, s, all, force) = M
      BY <1>1, <2>3
    <3> QED BY <2>1, <2>2, <3>1, MildGood
  <2>4. CASE ~Failed(M)
    <3>1. M = S /\ N = NCheck(S, s, force)
      BY <2>1, <2>2, <2>4
    <3>2. Mild(S, NCheck(S, s, force)) /\ (~Failed(NCheck(S, s, force)) => NCheck(S, s, force) = S)
      BY NCheckIs
    <3> HIDE DEF N
    <3>3. CASE Failed(N)
      <4>1. Leave(S, s, all, force) = N
        BY <1>1, <3>3
      <4> QED BY <2>1, <3>1, <3>2, <4>1, MildGood
    <3>4. CASE ~Failed(N)
      <4>1. N = S
        BY <3>1, <3>2, <3>4
      <4>2. CASE all
        <5>1. Leave(S, s, all, force) = Exit(S, s)
          BY <1>1, <3>4, <4>1, <4>2
        <5>2. Safe(S, s)
          BY <1>3, <2>1, <2>2, <2>4, <3>1, <4>2, SafeIs
        <5> QED BY <2>1, <5>1, <5>2, ExitIs
      <4>3. CASE ~all
        <5>1. Q = [S EXCEPT !.exf[S.scr[s].ep].slips = @ \cup {"partial"}]
          BY <4>1
        <5> HIDE DEF Q
        <5>2. Mild(S, Q) /\ Q.rc = S.rc /\ Safe(Q, s)
          BY <5>1, PartialIs
        <5>3. Fit(Q, s)
          BY <1>3, <2>1, <5>2, MildGood DEF Failed
        <5>4. Leave(S, s, all, force) = Exit(Q, s)
          BY <1>1, <3>4, <4>3
        <5>5. Good(Q, Exit(Q, s))
          BY <5>2, <5>3, ExitIs
        <5> QED BY <2>1, <5>2, <5>4, <5>5, GoodAfter
      <4> QED BY <4>2, <4>3
    <3> QED BY <3>3, <3>4
  <2> QED BY <2>3, <2>4
<1> QED BY <1>2, <1>3

\* Screen n, which had no file, shares the file of screen s from now on.
LEMMA AttachIs ==
    ASSUME NEW S, Sound(S, {}), ~S.broken, ~Failed(S), NEW s \in Shown(S), NEW n \in Scr,
           n \notin Shown(S)
    PROVE  Inits(S, [S EXCEPT !.exf[S.scr[s].ep].refcnt = @ + 1, !.scr[n].ep = S.scr[s].ep,
                              !.scr[n].frp = S.scr[s].frp], n)
<1> DEFINE e == S.scr[s].ep
           f == S.scr[s].frp
           y == [S.exf[e] EXCEPT !.refcnt = @ + 1]
           c == [[S.scr[n] EXCEPT !.ep = e] EXCEPT !.frp = f]
           X == [S.exf EXCEPT ![e] = y]
           C == [S.scr EXCEPT ![n] = c]
           U == [S EXCEPT !.exf = X, !.scr = C]
<1>1. /\ S \in State /\ s \in Scr /\ e \in Exf /\ f \in Fref /\ f \in Range(S.frefq)
      /\ S.exf[e] \in ExfRec /\ S.scr[s] \in ScrRec /\ S.scr[n] \in ScrRec
      /\ S.exf \in [Exf -> ExfRec] /\ S.scr \in [Scr -> ScrRec] /\ e # None /\ f # None
      /\ FrefOf(S, s).name # Null /\ s # n
  BY ShownIs, StateIs, Constants DEF Sound, ExfOf, Shown
<1>2. [S EXCEPT !.exf[e].refcnt = @ + 1, !.scr[n].ep = e, !.scr[n].frp = f] = U
  <2>1. [S.scr EXCEPT ![n].ep = e, ![n].frp = f] = C
    BY <1>1
  <2> HIDE DEF e, f
  <2> QED BY <1>1, <2>1 DEF State
<1>3. /\ y \in ExfRec /\ y.refcnt = S.exf[e].refcnt + 1 /\ y.work = S.exf[e].work
      /\ y.slips = S.exf[e].slips /\ y.modified = S.exf[e].modified /\ y.saw = S.exf[e].saw
      /\ y.knows = S.exf[e].knows
  <2> DEFINE x == S.exf[e]
  <2>1. x \in ExfRec /\ y = [x EXCEPT !.refcnt = x.refcnt + 1]
    BY <1>1
  <2> HIDE DEF x, y
  <2>2. /\ y \in ExfRec /\ y.refcnt = x.refcnt + 1 /\ y.work = x.work /\ y.slips = x.slips
        /\ y.modified = x.modified /\ y.saw = x.saw /\ y.knows = x.knows
    BY <2>1 DEF ExfRec
  <2> QED BY <2>2 DEF x
<1>4. c \in ScrRec /\ c.ep = e /\ c.frp = f /\ c.argv = S.scr[n].argv /\ c.pos = S.scr[n].pos
  BY <1>1 DEF ScrRec
<1> HIDE DEF y, c, e, f
<1>5. X \in [Exf -> ExfRec] /\ X[e] = y /\ \A x \in Exf : x # e => X[x] = S.exf[x]
  BY <1>1, <1>3
<1>6. C \in [Scr -> ScrRec] /\ C[n] = c /\ \A t \in Scr : t # n => C[t] = S.scr[t]
  BY <1>1, <1>4
<1> HIDE DEF X, C
<1>7. /\ U \in State /\ U.exf = X /\ U.scr = C /\ SameQueues(S, U) /\ SameTold(S, U)
      /\ SameFrefs(S, U) /\ SameDisk(S, U)
  BY <1>1, <1>5, <1>6 DEF State, SameQueues, SameTold, SameFrefs, SameDisk
<1> HIDE DEF U
<1>8. S.scr[n].ep = None
  BY DEF Shown
<1>9. /\ Shown(U) = Shown(S) \cup {n} /\ \A t \in Shown(S) : U.scr[t] = S.scr[t] /\ t # n
      /\ U.scr[n].ep = e /\ U.scr[n].frp = f
  BY <1>1, <1>4, <1>6, <1>7 DEF Shown
<1>10. Screened(U)
  BY <1>1, <1>4, <1>6, <1>7 DEF Sound, Screened
<1>11. Counted(U)
  <2>1. Users(U, e) = Users(S, e) \cup {n} /\ n \notin Users(S, e)
    BY <1>1, <1>4, <1>6, <1>7, <1>8 DEF Users
  <2>2. Users(S, e) \in SUBSET Scr
    BY DEF Users
  <2>3. Cardinality(Users(U, e)) = Cardinality(Users(S, e)) + 1
    BY <2>1, <2>2, Sized
  <2>4. \A x \in Exf : x # e => Users(U, x) = Users(S, x)
    BY <1>1, <1>4, <1>6, <1>7, <1>8, Constants DEF Users
  <2> QED BY <1>3, <1>5, <1>7, <2>3, <2>4 DEF Sound, Counted
<1>12. \A t \in Shown(S) : FrefOf(U, t) = FrefOf(S, t)
  BY <1>7, <1>9 DEF FrefOf, SameFrefs
<1>13. FrefOf(U, n) = FrefOf(S, s) /\ FrefOf(S, s) = S.fref[f]
  BY <1>7, <1>9 DEF FrefOf, SameFrefs, f
<1>14. Listed(U)
  BY <1>1, <1>7, <1>9, <1>12, <1>13 DEF Sound, Listed, SameFrefs, SameTold
<1>15. Together(U)
  <2> DEFINE at(t) == IF t = n THEN s ELSE t
  <2>1. \A t \in Shown(U) : /\ at(t) \in Shown(S) /\ U.scr[t].ep = S.scr[at(t)].ep
                            /\ U.scr[t].frp = S.scr[at(t)].frp /\ FrefOf(U, t) = FrefOf(S, at(t))
    BY <1>9, <1>12, <1>13 DEF e, f
  <2> HIDE DEF at
  <2> QED BY <2>1 DEF Sound, Together
<1>16. Named(U)
  BY <1>7 DEF Sound, Named, SameFrefs, SameDisk
<1>17. Used(U, {})
  <2>1. {U.scr[t].frp : t \in Shown(U)} = {S.scr[t].frp : t \in Shown(S)}
    BY <1>9 DEF f
  <2>2. Used(S, {})
    BY DEF Sound
  <2> QED BY <1>7, <2>1, <2>2 DEF Used, SameFrefs, SameDisk
<1>18. Guarded(U)
  <2>1. \A x \in Exf : X[x].work = S.exf[x].work /\ X[x].slips = S.exf[x].slips
                       /\ X[x].modified = S.exf[x].modified
    BY <1>3, <1>5
  <2>2. ASSUME NEW t \in Shown(S), NEW u \in Shown(U), U.scr[u].ep = S.scr[t].ep,
               FrefOf(U, u) = FrefOf(S, t)
        PROVE  /\ FrefOf(U, u).name \in Tmp /\ "TMPFILE" \notin FrefOf(U, u).flags
                    => "tmp" \in ExfOf(U, u).slips
               /\ ExfOf(U, u).work /\ ExfOf(U, u).slips = {}
                    => ExfOf(U, u).modified \/ "TMPEXIT" \in FrefOf(U, u).flags
    <3>1. S.scr[t].ep \in Exf
      BY ShownIs
    <3>2. /\ ExfOf(U, u).work = ExfOf(S, t).work /\ ExfOf(U, u).slips = ExfOf(S, t).slips
          /\ ExfOf(U, u).modified = ExfOf(S, t).modified
      BY <1>7, <2>1, <2>2, <3>1 DEF ExfOf
    <3>3. /\ FrefOf(S, t).name \in Tmp /\ "TMPFILE" \notin FrefOf(S, t).flags
               => "tmp" \in ExfOf(S, t).slips
          /\ ExfOf(S, t).work /\ ExfOf(S, t).slips = {}
               => ExfOf(S, t).modified \/ "TMPEXIT" \in FrefOf(S, t).flags
      BY DEF Sound, Guarded
    <3> QED BY <2>2, <3>2, <3>3
  <2>3. \A u \in Shown(U) : \E t \in Shown(S) : /\ U.scr[u].ep = S.scr[t].ep
                                                /\ FrefOf(U, u) = FrefOf(S, t)
    BY <1>9, <1>12, <1>13 DEF e
  <2>4. \A g \in Fref : "TMPEXIT" \in U.fref[g].flags => "TMPFILE" \in U.fref[g].flags
    BY <1>7 DEF Sound, Guarded, SameFrefs
  <2> QED BY <2>2, <2>3, <2>4 DEF Guarded
<1>19. Saw(U)
  <2>1. \A x \in Exf : X[x].saw = S.exf[x].saw /\ X[x].slips = S.exf[x].slips
                       /\ X[x].knows = S.exf[x].knows
    BY <1>3, <1>5
  <2> QED BY <1>7, <2>1 DEF Sound, Saw
<1>20. Sound(U, {})
  BY <1>7, <1>10, <1>11, <1>14, <1>15, <1>16, <1>17, <1>18, <1>19 DEF Sound
<1>21. Inits(S, U, n)
  <2>1. ~Failed(U)
    BY <1>7 DEF SameTold, Failed
  <2>2. /\ \A t \in Scr : t # n => U.scr[t] = S.scr[t]
        /\ U.scr[n].argv = S.scr[n].argv /\ U.scr[n].ep # None
    BY <1>1, <1>4, <1>6, <1>7
  <2>3. (Clean(S) => Clean(U)) /\ ~U.broken /\ U.forced = S.forced
    BY <1>7 DEF Clean, SameTold
  <2> QED BY <1>7, <1>20, <2>1, <2>2, <2>3 DEF Inits
<1> QED BY <1>2, <1>21 DEF e, f

LEMMA SpawnIs ==
    ASSUME NEW S, NEW s, Fit(S, s), NEW n \in Scr, n \notin Linked(S), NEW f \in Fref,
           f \in Range(S.frefq), NEW attach \in BOOLEAN, attach => f = S.scr[s].frp,
           NEW argv \in Seq(Path \cup {Null}), NEW env \in Env
    PROVE  Good(S, Spawn(S, s, n, f, attach, argv, env))
<1> DEFINE c == [NoScr EXCEPT !.ro = S.scr[s].ro]
           L == [S EXCEPT !.scr[n] = c]
           i == IF env.above THEN Place(L, s) ELSE Place(L, s) + 1
           T == [L EXCEPT !.dq = InsertAt(L.dq, i, n)]
           e == S.scr[s].ep
           A == [T EXCEPT !.exf[e].refcnt = @ + 1, !.scr[n].ep = e, !.scr[n].frp = f]
           U == IF attach THEN A ELSE FileInit(T, n, f, FALSE)
           F == [U EXCEPT !.dq = Without(@, {n}), !.scr[n] = NoScr]
           a == IF argv = <<>> THEN <<U.fref[f].name>> ELSE argv
           b == [[U.scr[n] EXCEPT !.argv = a] EXCEPT !.pos = 1]
           C == [U.scr EXCEPT ![n] = b]
           W == [U EXCEPT !.scr = C, !.cur = n]
<1>1. /\ S \in State /\ s \in Scr /\ s \in Range(S.dq) /\ s \in Shown(S) /\ Shown(S) = Linked(S)
      /\ S.dq \in Seq(Scr) /\ Range(S.dq) \subseteq Scr /\ Linked(S) \subseteq Scr
      /\ S.scr[s] \in ScrRec /\ S.scr \in [Scr -> ScrRec] /\ n # s /\ Sound(S, {}) /\ ~S.broken
      /\ Queued(S) /\ Clean(S) /\ ~Failed(S) /\ s = S.cur /\ n \notin Shown(S)
      /\ S.scr[n].ep = None /\ S.scr[n].frp = None
  <2>1. S \in State /\ n \notin Shown(S)
    BY FitIs
  <2>2. S.scr[n].ep = None
    BY <2>1 DEF Shown
  <2>3. S.scr[n].frp = None
    BY <2>2 DEF Fit, Sound, Screened
  <2> QED BY <2>1, <2>2, <2>3, FitIs, StateIs DEF Fit
<1>2. c \in ScrRec /\ c.ep = None /\ c.frp = None /\ c.pos = 0 /\ c.argv = <<>>
  <2>1. S.scr[s].ro \in BOOLEAN
    BY <1>1 DEF ScrRec
  <2> DEFINE N == NoScr
  <2>2. N \in ScrRec /\ N.ep = None /\ N.frp = None /\ N.pos = 0 /\ N.argv = <<>>
    BY Nothings
  <2>3. c = [N EXCEPT !.ro = S.scr[s].ro]
    OBVIOUS
  <2> HIDE DEF N, c
  <2>4. c \in ScrRec
    BY <2>1, <2>2, <2>3 DEF ScrRec
  <2>5. c.ep = N.ep /\ c.frp = N.frp /\ c.pos = N.pos /\ c.argv = N.argv
    BY <2>2, <2>3 DEF ScrRec
  <2> QED BY <2>2, <2>4, <2>5
<1> HIDE DEF c
<1>3. /\ L \in State /\ L.dq = S.dq /\ L.scr = [S.scr EXCEPT ![n] = c] /\ L.exf = S.exf
      /\ L.hq = S.hq /\ L.cur = S.cur
      /\ SameTold(S, L) /\ SameFrefs(S, L) /\ SameDisk(S, L)
  <2>1. [S.scr EXCEPT ![n] = c] \in [Scr -> ScrRec]
    BY <1>1, <1>2
  <2> QED BY <1>1, <2>1 DEF State, SameTold, SameFrefs, SameDisk
<1> HIDE DEF L
<1>4. i \in 1..(Len(S.dq) + 1)
  <2>1. Place(L, s) = Place(S, s)
    BY <1>3 DEF Place
  <2>2. Place(S, s) \in 1..Len(S.dq) /\ Len(S.dq) \in Nat
    BY HeirIs
  <2> QED BY <2>1, <2>2
<1> HIDE DEF i
<1>5. /\ InsertAt(S.dq, i, n) \in Seq(Scr) /\ Range(InsertAt(S.dq, i, n)) = Range(S.dq) \cup {n}
      /\ IsInjective(InsertAt(S.dq, i, n))
  <2>1. IsInjective(S.dq) /\ n \notin Range(S.dq)
    BY <1>1 DEF Queued, Linked
  <2>2. S.dq \in Seq(Scr) /\ n \in Scr
    BY <1>1
  <2> QED BY <1>4, <2>1, <2>2, InsertIs
<1>6. /\ T \in State /\ T.dq = InsertAt(S.dq, i, n) /\ T.scr = [S.scr EXCEPT ![n] = c]
      /\ T.exf = S.exf /\ T.hq = S.hq /\ T.cur = S.cur
      /\ SameTold(S, T) /\ SameFrefs(S, T) /\ SameDisk(S, T)
  BY <1>3, <1>5 DEF State, SameTold, SameFrefs, SameDisk
<1> HIDE DEF T
<1>7. \A t \in Scr : T.scr[t] = IF t = n THEN c ELSE S.scr[t]
  BY <1>1, <1>2, <1>6
<1>8. SameShown(S, T) /\ Screened(T)
  <2>1. Len(<<>>) = 0
    OBVIOUS
  <2> QED BY <1>1, <1>2, <1>7, <2>1 DEF SameShown, Sound, Screened
<1>9. Sound(T, {}) /\ ~T.broken /\ ~Failed(T) /\ Shown(T) = Shown(S) /\ Clean(T)
  <2>1. T.broken = S.broken
    BY <1>6 DEF SameTold
  <2>2. Sound(T, {})
    BY <1>1, <1>6, <1>8, <2>1, SameSound
  <2> QED BY <1>1, <1>6, <1>8, <2>1, <2>2 DEF SameTold, SameShown, Shown, Failed, Clean
<1>10. Inits(T, U, n)
  <2>1. CASE attach
    <3>1. U = [T EXCEPT !.exf[T.scr[s].ep].refcnt = @ + 1, !.scr[n].ep = T.scr[s].ep,
                        !.scr[n].frp = T.scr[s].frp]
      BY <1>1, <1>7, <2>1
    <3> HIDE DEF U
    <3>2. s \in Shown(T) /\ n \notin Shown(T)
      BY <1>1, <1>9
    <3> QED BY <1>9, <3>1, <3>2, AttachIs
  <2>2. CASE ~attach
    <3>1. U = FileInit(T, n, f, FALSE)
      BY <2>2
    <3> HIDE DEF U
    <3>2. T.scr[n].ep = None /\ f \in Range(T.frefq) /\ FALSE \in BOOLEAN
      BY <1>2, <1>6, <1>7 DEF SameFrefs
    <3> QED BY <1>9, <3>1, <3>2, FileInitIs
  <2> QED BY <2>1, <2>2
<1>11. Spawn(S, s, n, f, attach, argv, env) =
         IF Failed(U) THEN F ELSE [U EXCEPT !.scr[n].argv = a, !.scr[n].pos = 1, !.cur = n]
  BY DEF Spawn, Link, L, T, i, c
<1> HIDE DEF U
<1>12. /\ U \in State /\ U.dq = T.dq /\ U.hq = S.hq /\ U.cur = S.cur
       /\ U.scr \in [Scr -> ScrRec] /\ U.fref[f] \in FrefRec /\ U.scr[n] \in ScrRec
       /\ \A t \in Scr : t # n => U.scr[t] = S.scr[t]
  BY <1>6, <1>7, <1>10, StateIs DEF Inits, Sound, SameQueues
<1>13. CASE Failed(U)
  <2> DEFINE q == Without(U.dq, {n})
             D == [U.scr EXCEPT ![n] = NoScr]
             V == [U EXCEPT !.dq = q, !.scr = D]
  <2>1. Spawn(S, s, n, f, attach, argv, env) = V
    BY <1>11, <1>12, <1>13 DEF State
  <2>2. q \in Seq(Scr) /\ IsInjective(q) /\ Range(q) = Range(S.dq)
    <3>1. n \notin Range(S.dq)
      BY DEF Linked
    <3>2. U.dq \in Seq(Scr) /\ IsInjective(U.dq) /\ Range(U.dq) = Range(S.dq) \cup {n}
      BY <1>5, <1>6, <1>12
    <3>3. q \in Seq(Scr) /\ Range(q) = Range(U.dq) \ {n} /\ IsInjective(q)
      BY <3>2, WithoutIs
    <3> HIDE DEF q
    <3>4. Range(q) = Range(S.dq)
      BY <3>1, <3>2, <3>3
    <3> QED BY <3>3, <3>4
  <2>3. D \in [Scr -> ScrRec] /\ \A t \in Scr : D[t] = IF t = n THEN NoScr ELSE S.scr[t]
    BY <1>12, Nothings
  <2> HIDE DEF q, D
  <2>4. /\ V \in State /\ V.dq = q /\ V.scr = D /\ V.exf = U.exf /\ V.hq = U.hq /\ V.cur = U.cur
        /\ SameTold(U, V) /\ SameFrefs(U, V) /\ SameDisk(U, V)
    BY <1>12, <2>2, <2>3 DEF State, SameTold, SameFrefs, SameDisk
  <2> HIDE DEF V
  <2>5. SameShown(S, V) /\ Screened(V)
    BY <1>1, <2>3, <2>4, Nothings DEF SameShown, Sound, Screened
  <2>6. SameShown(U, V) /\ V.broken = U.broken
    <3>1. U.scr = T.scr
      BY <1>10, <1>13 DEF Inits
    <3> QED BY <1>2, <1>7, <2>3, <2>4, <3>1, Nothings DEF SameShown, SameTold
  <2>7. Sound(V, {})
    BY <1>10, <2>4, <2>5, <2>6, SameSound DEF Inits
  <2>8. Shown(V) = Shown(S) /\ Linked(V) = Linked(S)
    BY <1>12, <2>2, <2>4, <2>5 DEF SameShown, Shown, Linked
  <2>9. Queued(V)
    BY <1>1, <1>12, <2>2, <2>4, <2>8 DEF Queued
  <2>10. Clean(V)
    BY <1>9, <1>10, <2>4 DEF Inits, Clean, SameTold
  <2>11. \A r \in Linked(S) : V.scr[r].ep = S.scr[r].ep /\ r \in Linked(V)
    BY <1>1, <2>5, <2>8 DEF SameShown
  <2>12. Good(S, V)
    BY <2>7, <2>9, <2>10, <2>11 DEF Good
  <2> QED BY <2>1, <2>12
<1>14. CASE ~Failed(U)
  <2>1. Spawn(S, s, n, f, attach, argv, env) = W
    <3>1. [U.scr EXCEPT ![n].argv = a, ![n].pos = 1] = C
      BY <1>12
    <3> HIDE DEF a, C
    <3>2. [U EXCEPT !.scr[n].argv = a, !.scr[n].pos = 1, !.cur = n] = W
      BY <1>12, <3>1 DEF State
    <3> QED BY <1>11, <1>14, <3>2
  <2>2. a \in Seq(Path \cup {Null}) /\ 1 <= Len(a)
    <3>1. U.fref[f].name \in Path \cup {Null}
      BY <1>12 DEF FrefRec
    <3> DEFINE m == U.fref[f].name
    <3>2. a = IF argv = <<>> THEN <<m>> ELSE argv
      OBVIOUS
    <3>3. m \in Path \cup {Null}
      BY <3>1
    <3> HIDE DEF a, m
    <3>4. <<m>> \in Seq(Path \cup {Null}) /\ Len(<<m>>) = 1
      BY <3>3
    <3>5. CASE argv = <<>>
      BY <3>2, <3>4, <3>5
    <3>6. CASE argv # <<>>
      <4>1. a = argv
        BY <3>2, <3>6
      <4>2. Len(argv) >= 1
        BY <3>6
      <4> QED BY <4>1, <4>2
    <3> QED BY <3>5, <3>6
  <2> HIDE DEF a
  <2>3. b \in ScrRec /\ b.argv = a /\ b.pos = 1 /\ b.ep = U.scr[n].ep /\ b.frp = U.scr[n].frp
    BY <1>12, <2>2 DEF ScrRec
  <2> HIDE DEF b
  <2>4. C \in [Scr -> ScrRec] /\ C[n] = b /\ \A t \in Scr : t # n => C[t] = U.scr[t]
    BY <1>12, <2>3
  <2> HIDE DEF C
  <2>5. /\ W \in State /\ W.scr = C /\ W.cur = n /\ W.dq = U.dq /\ W.hq = U.hq /\ W.exf = U.exf
        /\ SameTold(U, W) /\ SameFrefs(U, W) /\ SameDisk(U, W)
    BY <1>12, <2>4 DEF State, SameTold, SameFrefs, SameDisk
  <2> HIDE DEF W
  <2>6. SameShown(U, W) /\ Screened(W) /\ W.broken = U.broken
    BY <1>10, <2>2, <2>3, <2>4, <2>5 DEF SameShown, Screened, Inits, Sound, SameTold
  <2>7. Sound(W, {})
    BY <1>10, <2>5, <2>6, SameSound DEF Inits
  <2>8. U.scr[n].ep # None
    BY <1>10, <1>14 DEF Inits
  <2>9. Shown(W) = Shown(S) \cup {n}
    BY <1>1, <1>12, <2>3, <2>4, <2>5, <2>8 DEF Shown
  <2>10. Range(W.dq) = Range(S.dq) \cup {n} /\ IsInjective(W.dq) /\ W.hq = S.hq
    BY <1>5, <1>6, <1>12, <2>5
  <2>11. Linked(W) = Linked(S) \cup {n}
    BY <2>10 DEF Linked
  <2>12. Queued(W)
    <3>1. n \notin Range(S.hq)
      BY DEF Linked
    <3> QED BY <1>1, <2>5, <2>9, <2>10, <2>11, <3>1 DEF Queued
  <2>13. Clean(W) /\ ~Failed(W)
    BY <1>9, <1>10, <1>14, <2>5 DEF Inits, Clean, SameTold, Failed
  <2>14. Good(S, W)
    BY <2>7, <2>12, <2>13 DEF Good
  <2> QED BY <2>1, <2>14
<1> QED BY <1>13, <1>14

-----------------------------------------------------------------------------
(* The commands                                                            *)

\* The screens, and so the argument lists, are not changed by a write.
LEMMA WriteKeepsScr ==
    ASSUME NEW S, Sound(S, {}), ~S.broken, NEW s \in Shown(S), NEW w \in WriteArgs,
           NEW full \in BOOLEAN
    PROVE  FileWrite(S, s, w, full).scr = S.scr
<1> DEFINE e == S.scr[s].ep
           f == S.scr[s].frp
           T == PutData(S, s, w, full)
           own == OwnName(S, s, w.name)
           done == [T EXCEPT !.fref[f].flags = @ \ {"NAMECHANGE"},
                             !.exf[e].modified = @ /\ ~(w.all /\ ~w.append)]
           tmpexit == IF ~(w.all /\ ~w.append) \/ "TMPFILE" \notin S.fref[f].flags THEN done
                      ELSE [done EXCEPT !.fref[f].flags =
                               IF own THEN @ \cup {"TMPEXIT"} ELSE @ \ {"TMPEXIT"}]
<1>1. FileWrite(S, s, w, full) =
        IF Refused(S, s, w) \/ Target(S, s, w.name) \in ReadOnly THEN Fail(S)
        ELSE IF full THEN Fail(T) ELSE tmpexit
  BY DEF FileWrite
<1>2. T \in State /\ T.scr = S.scr /\ S \in State
  BY PutDataIs DEF Wrote, Sound
<1> HIDE DEF T, e, f, own
<1>3. Fail(S).scr = S.scr /\ Fail(T).scr = S.scr
  BY <1>2 DEF Fail, State
<1>4. done.scr = S.scr
  BY <1>2 DEF State
<1>5. tmpexit.scr = S.scr
  <2> DEFINE D == [T EXCEPT !.fref[f].flags = @ \ {"NAMECHANGE"}]
  <2>1. [done EXCEPT !.fref[f].flags = IF own THEN @ \cup {"TMPEXIT"} ELSE @ \ {"TMPEXIT"}].scr
          = T.scr
    BY <1>2 DEF State
  <2> QED BY <1>2, <1>4, <2>1
<1> HIDE DEF tmpexit
<1> QED BY <1>1, <1>3, <1>5

LEMMA M1KeepsScr ==
    ASSUME NEW S, Sound(S, {}), ~S.broken, NEW s \in Shown(S), NEW force \in BOOLEAN,
           NEW full \in BOOLEAN
    PROVE  FileM1(S, s, force, full).scr = S.scr
<1>1. S \in State /\ \A T : Fail(T) = [T EXCEPT !.rc = 1]
  BY DEF Sound, Fail
<1>2. Whole(FALSE) \in WriteArgs
  BY DEF Whole, WriteArgs
<1> DEFINE W == FileWrite(S, s, Whole(FALSE), full)
<1>3. W.scr = S.scr /\ W \in State
  BY <1>2, WriteKeepsScr, FileWriteIs DEF Written, Mild, Sound
<1> HIDE DEF W
<1> DEFINE T == IF ~Modified(S, s) \/ force THEN S
                ELSE IF Autowrite THEN FileAw(S, s, full)
                ELSE IF ~Shared(S, s) THEN Fail(S)
                ELSE S
<1>4. T = S \/ T = Fail(S) \/ T = W
  BY DEF FileAw, W
<1>5. Fail(S) \in State /\ Fail(S).scr = S.scr
  BY <1>1 DEF State
<1>6. FileM1(S, s, force, full) = T \/ FileM1(S, s, force, full) = Fail(T)
  BY DEF FileM1, FileM3
<1> HIDE DEF T
<1>7. T \in State /\ T.scr = S.scr
  BY <1>1, <1>3, <1>4, <1>5
<1>8. Fail(T).scr = T.scr
  BY <1>1, <1>7 DEF State
<1> QED BY <1>6, <1>7, <1>8

\* An FREF is looked for, and one made if there is none.
LEMMA AddedIs ==
    ASSUME NEW S, NEW s, Fit(S, s), NEW n \in Path \cup {Null}
    PROVE  LET T == FileAdd(S, n).st
               f == FileAdd(S, n).f
           IN  /\ Mild(S, T) /\ Fit(T, s) /\ T.scr = S.scr /\ FrefOf(T, s) = FrefOf(S, s)
               /\ Good(S, Fail(T)) /\ (Safe(S, s) => Safe(T, s)) /\ Linked(T) = Linked(S)
               /\ f # None => f \in Fref /\ f \in Range(T.frefq)
<1> DEFINE T == FileAdd(S, n).st
           f == FileAdd(S, n).f
<1>1. /\ Sound(T, {}) /\ T.scr = S.scr /\ T.exf = S.exf
      /\ SameQueues(S, T) /\ SameTold(S, T) /\ SameDisk(S, T)
      /\ \A r \in Shown(S) : FrefOf(T, r) = FrefOf(S, r)
      /\ f # None => f \in Fref /\ f \in Range(T.frefq)
  BY FileAddIs DEF Fit
<1> HIDE DEF T, f
<1>2. Mild(S, T) /\ T.rc = S.rc
  BY <1>1 DEF Mild, SameTold, SameShown, Clean, Fit
<1>3. Fit(T, s)
  BY <1>2, MildGood DEF Fit, Failed
<1>4. FrefOf(T, s) = FrefOf(S, s)
  BY <1>1, FitIs
<1>5. Mild(T, Fail(T))
  BY <1>3, FailIs DEF Fit
<1>6. Good(S, Fail(T))
  BY <1>2, <1>5, MildTwice, MildGood
<1>7. Safe(S, s) => Safe(T, s)
  BY <1>1 DEF Safe, ExfOf, SameTold
<1>8. Linked(T) = Linked(S)
  BY <1>1 DEF Linked, SameQueues
<1> QED BY <1>1, <1>2, <1>3, <1>4, <1>6, <1>7, <1>8 DEF T, f

\* The switch to another file.
LEMMA InitGood ==
    ASSUME NEW S, NEW s, Fit(S, s), Safe(S, s), NEW f \in Fref, f \in Range(S.frefq),
           NEW rcv \in BOOLEAN
    PROVE  LET T == FileInit(S, s, f, rcv)
           IN  /\ Good(S, T) /\ (~Failed(T) => Fit(T, s))
               /\ T.scr[s].argv = S.scr[s].argv
<1>1. s \in Scr
  BY FitIs
<1>2. Inits(S, FileInit(S, s, f, rcv), s)
  BY <1>1, FileInitIs DEF Fit
<1>3. FileInit(S, s, f, rcv).scr[s].argv = S.scr[s].argv
  BY <1>2 DEF Inits
<1> QED BY <1>2, <1>3, InitsGood

\* The place in the argument list of the current screen, or the list, is set.
Placed(S, T, s, argv) ==
    /\ Mild(S, T) /\ Fit(T, s) /\ (Safe(S, s) => Safe(T, s))
    /\ T.scr[s].argv = argv

LEMMA PlacedIs ==
    ASSUME NEW S, NEW s, Fit(S, s), NEW c \in ScrRec, NEW pos \in Nat, NEW argv,
           c = [[S.scr[s] EXCEPT !.argv = argv] EXCEPT !.pos = pos],
           argv \in Seq(Path \cup {Null}), pos <= Len(argv)
    PROVE  Placed(S, [S EXCEPT !.scr = [S.scr EXCEPT ![s] = c]], s, argv)
<1> DEFINE T == [S EXCEPT !.scr = [S.scr EXCEPT ![s] = c]]
<1>1. s \in Scr /\ S.scr[s] \in ScrRec /\ S.scr \in [Scr -> ScrRec]
  BY FitIs, StateIs
<1>2. c.ep = S.scr[s].ep /\ c.frp = S.scr[s].frp /\ c.argv = argv /\ c.pos = pos
  BY <1>1 DEF ScrRec
<1>3. /\ Mild(S, T) /\ T.rc = S.rc /\ T.scr = [S.scr EXCEPT ![s] = c]
      /\ T.exf = S.exf /\ SameFrefs(S, T)
  <2>1. Sound(S, {}) /\ ~S.broken
    BY DEF Fit
  <2>2. c.pos <= Len(c.argv)
    BY <1>2
  <2>3. c.ep = S.scr[s].ep /\ c.frp = S.scr[s].frp
    BY <1>2
  <2> QED BY ONLY <1>1, <2>1, <2>2, <2>3, ScreenSame, c \in ScrRec
<1> HIDE DEF T
<1>4. Fit(T, s)
  BY <1>3, MildGood DEF Fit, Failed
<1>5. T.scr[s] = c
  BY <1>1, <1>3
<1>6. Safe(S, s) => Safe(T, s)
  BY <1>2, <1>3, <1>5 DEF Safe, ExfOf, Mild
<1>7. Placed(S, T, s, argv)
  BY <1>2, <1>3, <1>4, <1>5, <1>6 DEF Placed
<1> QED BY <1>7 DEF T

LEMMA SwitchToIs ==
    ASSUME NEW S, NEW s, Fit(S, s), Safe(S, s), NEW n \in Path \cup {Null}, NEW pos \in Nat,
           pos <= Len(S.scr[s].argv)
    PROVE  Good(S, SwitchTo(S, s, n, pos))
<1> DEFINE A == FileAdd(S, n).st
           f == FileAdd(S, n).f
           T == FileInit(A, s, f, FALSE)
           c == [[T.scr[s] EXCEPT !.argv = T.scr[s].argv] EXCEPT !.pos = pos]
           U == [T EXCEPT !.scr = [T.scr EXCEPT ![s] = c]]
<1>1. SwitchTo(S, s, n, pos) = IF f = None THEN Fail(A) ELSE IF Failed(T) THEN T
                               ELSE [T EXCEPT !.scr[s].pos = pos]
  BY DEF SwitchTo
<1>2. /\ Mild(S, A) /\ Fit(A, s) /\ A.scr = S.scr /\ Good(S, Fail(A)) /\ Safe(A, s)
      /\ f # None => f \in Fref /\ f \in Range(A.frefq)
  BY AddedIs
<1>3. CASE f = None
  BY <1>1, <1>2, <1>3
<1>4. CASE f # None
  <2> HIDE DEF A, f
  <2>1. Good(A, T) /\ (~Failed(T) => Fit(T, s)) /\ T.scr[s].argv = S.scr[s].argv
    <3>1. FALSE \in BOOLEAN
      OBVIOUS
    <3>2. Fit(A, s) /\ Safe(A, s) /\ f \in Fref /\ f \in Range(A.frefq)
      BY <1>2, <1>4
    <3>3. /\ Good(A, T) /\ (~Failed(T) => Fit(T, s))
          /\ T.scr[s].argv = A.scr[s].argv
      BY <3>1, <3>2, InitGood
    <3> HIDE DEF T
    <3> QED BY <1>2, <3>3
  <2>2. Good(S, T)
    BY <1>2, <2>1, GoodAfter
  <2> HIDE DEF T
  <2>3. CASE Failed(T)
    BY <1>1, <1>4, <2>2, <2>3
  <2>4. CASE ~Failed(T)
    <3>1. Fit(T, s)
      BY <2>1, <2>4
    <3>2. T \in State /\ s \in Scr /\ T.scr[s] \in ScrRec /\ T.scr \in [Scr -> ScrRec]
      BY <3>1, FitIs, StateIs
    <3>3. T.scr[s].argv \in Seq(Path \cup {Null}) /\ c \in ScrRec
      BY <3>2 DEF ScrRec
    <3>4. [T EXCEPT !.scr[s].pos = pos] = U
      <4>1. c = [T.scr[s] EXCEPT !.pos = pos]
        BY <3>2 DEF ScrRec
      <4> HIDE DEF c
      <4> QED BY <3>2, <4>1 DEF State
    <3>5. pos <= Len(T.scr[s].argv)
      BY <2>1
    <3>6. Mild(T, U)
      <4>1. Placed(T, U, s, T.scr[s].argv)
        <5>1. c = [[T.scr[s] EXCEPT !.argv = T.scr[s].argv] EXCEPT !.pos = pos]
          OBVIOUS
        <5> HIDE DEF c
        <5> QED BY <3>1, <3>3, <3>5, <5>1, PlacedIs
      <4> QED BY <4>1 DEF Placed
    <3> HIDE DEF U
    <3>7. Good(T, U)
      BY <3>1, <3>6, MildGood
    <3>8. ~Failed(U)
      <4>1. U.rc = T.rc
        BY <3>2, <3>4 DEF State
      <4> QED BY <2>4, <4>1 DEF Failed
    <3>9. Good(S, U)
      BY <3>7, <3>8 DEF Good
    <3> QED BY <1>1, <1>4, <2>4, <3>4, <3>9
  <2> QED BY <2>3, <2>4
<1> QED BY <1>3, <1>4

LEMMA FailGood ==
    ASSUME NEW S, NEW s, Fit(S, s)
    PROVE  Good(S, Fail(S)) /\ Good(S, S) /\ Failed(Fail(S))
BY FailIs, MildSame, MildGood DEF Fit

LEMMA NewScreenIs ==
    ASSUME NEW S, NEW env, NewScreen(S, env) # None
    PROVE  NewScreen(S, env) \in Scr /\ NewScreen(S, env) \notin Linked(S)
<1>1. Fresh(S) # {} /\ NewScreen(S, env) = Least(Fresh(S))
  BY DEF NewScreen
<1>2. Fresh(S) \subseteq Nat
  BY Constants DEF Fresh
<1> QED BY <1>1, <1>2, LeastOne DEF Fresh

\* The check before a file is left, passed or not.
LEMMA CheckedGood ==
    ASSUME NEW S, NEW s, Fit(S, s), NEW T, Checked(S, T, s)
    PROVE  Good(S, T) /\ (~Failed(T) => Fit(T, s) /\ Safe(T, s)) /\ Mild(S, T)
BY MildGood DEF Checked

LEMMA EditIs ==
    ASSUME NEW S, NEW s, Fit(S, s), NEW n \in Path \cup {Null}, NEW force \in BOOLEAN,
           force => S.forced, NEW new \in BOOLEAN, NEW env \in Env
    PROVE  Good(S, ExEdit(S, s, n, force, new, env))
<1> DEFINE again == n = Null /\ "TMPFILE" \notin Flags(S, s)
           f == IF again THEN S.scr[s].frp ELSE FileAdd(S, n).f
           T == IF again THEN S ELSE FileAdd(S, n).st
           m == NewScreen(T, env)
           M == FileM2(T, s, force)
<1>1. ExEdit(S, s, n, force, new, env) =
        IF f = None THEN Fail(T)
        ELSE IF new THEN IF m = None THEN Fail(T) ELSE Spawn(T, s, m, f, again, <<>>, env)
        ELSE IF Failed(M) THEN M ELSE FileInit(M, s, f, FALSE)
  BY DEF ExEdit
<1>2. /\ Mild(S, T) /\ Fit(T, s) /\ T.scr = S.scr /\ Good(S, Fail(T))
      /\ f # None => f \in Fref /\ f \in Range(T.frefq)
      /\ again => f = T.scr[s].frp
  <2>1. CASE again
    <3>1. Mild(S, S) /\ Good(S, Fail(S)) /\ S.scr[s].frp \in Fref /\ S.scr[s].frp \in Range(S.frefq)
      BY FitIs, MildSame, FailGood DEF Fit
    <3> QED BY <2>1, <3>1
  <2>2. CASE ~again
    BY <2>2, AddedIs
  <2> QED BY <2>1, <2>2
<1>3. again \in BOOLEAN /\ <<>> \in Seq(Path \cup {Null}) /\ FALSE \in BOOLEAN
  OBVIOUS
<1>4. m # None => m \in Scr /\ m \notin Linked(T)
  BY NewScreenIs
<1>5. force => T.forced
  BY <1>2 DEF Mild
<1> HIDE DEF T, f, again, m
<1>6. CASE f = None
  BY <1>1, <1>2, <1>6
<1>7. CASE f # None /\ new
  <2>1. CASE m = None
    BY <1>1, <1>2, <1>7, <2>1
  <2>2. CASE m # None
    <3>1. ExEdit(S, s, n, force, new, env) = Spawn(T, s, m, f, again, <<>>, env)
      BY <1>1, <1>7, <2>2
    <3>2. f \in Fref /\ f \in Range(T.frefq) /\ m \in Scr /\ m \notin Linked(T) /\ Fit(T, s)
          /\ again \in BOOLEAN /\ <<>> \in Seq(Path \cup {Null}) /\ (again => f = T.scr[s].frp)
      BY <1>2, <1>3, <1>4, <1>7, <2>2
    <3>3. Good(T, Spawn(T, s, m, f, again, <<>>, env))
      BY <3>2, SpawnIs
    <3> QED BY <1>2, <3>1, <3>3, GoodAfter
  <2> QED BY <2>1, <2>2
<1>8. CASE f # None /\ ~new
  <2>1. Checked(T, M, s)
    <3>1. Sound(T, {}) /\ ~T.broken /\ s \in Shown(T)
      BY <1>2, FitIs DEF Fit
    <3> QED BY <1>5, <3>1, FileM2Is
  <2>2. Good(T, M) /\ (~Failed(M) => Fit(M, s) /\ Safe(M, s)) /\ Mild(T, M)
    BY <1>2, <2>1, CheckedGood
  <2>3. ~Failed(M) => M = T
    <3>1. Failed(Fail(T))
      BY <1>2, FailGood
    <3> QED BY <3>1 DEF FileM2, FileM3
  <2>4. Good(S, M)
    BY <1>2, <2>2, GoodAfter
  <2> HIDE DEF M
  <2>5. CASE Failed(M)
    BY <1>1, <1>8, <2>4, <2>5
  <2>6. CASE ~Failed(M)
    <3>1. Fit(T, s) /\ Safe(T, s) /\ f \in Fref /\ f \in Range(T.frefq) /\ M = T
      BY <1>2, <1>8, <2>2, <2>3, <2>6
    <3>2. Good(T, FileInit(T, s, f, FALSE))
      BY <1>3, <3>1, InitGood
    <3>3. Good(S, FileInit(T, s, f, FALSE))
      BY <1>2, <3>2, GoodAfter
    <3> QED BY <1>1, <1>8, <2>6, <3>1, <3>3
  <2> QED BY <2>5, <2>6
<1> QED BY <1>6, <1>7, <1>8

LEMMA ArgsAre ==
    ASSUME NEW a \in ArgList
    PROVE  a \in Seq(Path \cup {Null}) /\ 1 <= Len(a) /\ a[1] \in Path /\ a # <<>>
<1>1. Name \subseteq Path
  BY Constants
<1>2. CASE \E n \in Name : a = <<n>>
  BY <1>1, <1>2
<1>3. CASE a \in Name \X Name
  <2>1. PICK n \in Name, m \in Name : a = <<n, m>>
    BY <1>3
  <2> QED BY <1>1, <2>1
<1> QED BY <1>2, <1>3 DEF ArgList

LEMMA NNextIs ==
    ASSUME NEW S, NEW s, Fit(S, s), NEW args \in ArgList, NEW env \in Env
    PROVE  Good(S, ExNNext(S, s, args, env))
<1> DEFINE m == NewScreen(S, env)
           T == FileAdd(S, args[1]).st
           f == FileAdd(S, args[1]).f
<1>1. ExNNext(S, s, args, env) = IF m = None THEN Fail(S) ELSE IF f = None THEN Fail(T)
                                 ELSE Spawn(T, s, m, f, FALSE, args, env)
  BY DEF ExNNext
<1>2. args \in Seq(Path \cup {Null}) /\ args[1] \in Path \cup {Null}
  BY ArgsAre
<1>3. /\ Mild(S, T) /\ Fit(T, s) /\ Good(S, Fail(T)) /\ Linked(T) = Linked(S)
      /\ f # None => f \in Fref /\ f \in Range(T.frefq)
  BY <1>2, AddedIs
<1>4. m # None => m \in Scr /\ m \notin Linked(S)
  BY NewScreenIs
<1>5. Good(S, Fail(S))
  BY FailGood
<1> HIDE DEF m, T, f
<1>6. CASE m # None /\ f # None
  <2>1. f \in Fref /\ f \in Range(T.frefq) /\ m \in Scr /\ m \notin Linked(T) /\ Fit(T, s)
        /\ FALSE \in BOOLEAN
    BY <1>3, <1>4, <1>6
  <2>2. Good(T, Spawn(T, s, m, f, FALSE, args, env))
    BY <1>2, <2>1, SpawnIs
  <2>3. Good(S, Spawn(T, s, m, f, FALSE, args, env))
    BY <1>3, <2>2, GoodAfter
  <2> QED BY <1>1, <1>6, <2>3
<1> QED BY <1>1, <1>3, <1>5, <1>6

\* The argument list of the current screen.
LEMMA ArgvIs ==
    ASSUME NEW S, NEW s, Fit(S, s)
    PROVE  /\ S.scr[s].pos \in Nat /\ Len(S.scr[s].argv) \in Nat
           /\ S.scr[s].pos <= Len(S.scr[s].argv)
           /\ S.scr[s].argv \in Seq(Path \cup {Null})
           /\ \A i \in 1..Len(S.scr[s].argv) : S.scr[s].argv[i] \in Path \cup {Null}
           /\ S.scr[s].argv # <<>> => 1 <= Len(S.scr[s].argv)
<1>1. S.scr[s] \in ScrRec /\ S.scr[s].pos <= Len(S.scr[s].argv)
  BY FitIs
<1> DEFINE a == S.scr[s].argv
           p == S.scr[s].pos
<1>2. a \in Seq(Path \cup {Null}) /\ p \in Nat
  BY <1>1 DEF ScrRec
<1> HIDE DEF a, p
<1>3. /\ Len(a) \in Nat /\ \A i \in 1..Len(a) : a[i] \in Path \cup {Null}
      /\ a # <<>> => 1 <= Len(a)
  BY <1>2
<1> QED BY <1>1, <1>2, <1>3 DEF a, p

\* file_m1() and what follows it see the argument list of the screen.
LEMMA M1Good ==
    ASSUME NEW S, NEW s, Fit(S, s), NEW force \in BOOLEAN, force => S.forced, NEW full \in BOOLEAN
    PROVE  LET M == FileM1(S, s, force, full)
           IN  /\ Good(S, M) /\ Mild(S, M) /\ (~Failed(M) => Fit(M, s) /\ Safe(M, s))
               /\ M.scr = S.scr
<1>1. Sound(S, {}) /\ ~S.broken /\ ~Failed(S) /\ s \in Shown(S)
  BY FitIs DEF Fit
<1>2. Checked(S, FileM1(S, s, force, full), s)
  BY <1>1, FileM1Is
<1>3. FileM1(S, s, force, full).scr = S.scr
  BY <1>1, M1KeepsScr
<1> QED BY <1>2, <1>3, CheckedGood

LEMMA NextIs ==
    ASSUME NEW S, NEW s, Fit(S, s), NEW args \in ArgList \cup {<<>>}, NEW force \in BOOLEAN,
           force => S.forced, NEW new \in BOOLEAN, NEW env \in Env
    PROVE  Good(S, ExNext(S, s, args, force, new, env))
<1> DEFINE x == S.scr[s]
           M == FileM1(S, s, force, env.full)
           c == [[M.scr[s] EXCEPT !.argv = args] EXCEPT !.pos = 1]
           U == [M EXCEPT !.scr = [M.scr EXCEPT ![s] = c]]
<1>1. ExNext(S, s, args, force, new, env) =
        IF args = <<>> /\ x.pos >= Len(x.argv) THEN Fail(S)
        ELSE IF new /\ args = <<>> THEN ExEdit(S, s, x.argv[x.pos + 1], force, TRUE, env)
        ELSE IF new THEN ExNNext(S, s, args, env)
        ELSE IF Failed(M) THEN M
        ELSE IF args = <<>> THEN SwitchTo(M, s, x.argv[x.pos + 1], x.pos + 1)
        ELSE SwitchTo([M EXCEPT !.scr[s].argv = args, !.scr[s].pos = 1], s, args[1], 1)
  BY DEF ExNext
<1>2. /\ x.pos \in Nat /\ Len(x.argv) \in Nat
      /\ \A i \in 1..Len(x.argv) : x.argv[i] \in Path \cup {Null}
  BY ArgvIs
<1>3. ~(args = <<>> /\ x.pos >= Len(x.argv)) /\ args = <<>>
        => /\ x.pos + 1 \in 1..Len(x.argv) /\ x.pos + 1 <= Len(x.argv) /\ x.pos + 1 \in Nat
           /\ x.argv[x.pos + 1] \in Path \cup {Null}
  <2> HIDE DEF x
  <2> QED BY <1>2
<1>4. env.full \in BOOLEAN /\ TRUE \in BOOLEAN
  BY DEF Env
<1>5. Good(S, M) /\ Mild(S, M) /\ (~Failed(M) => Fit(M, s) /\ Safe(M, s)) /\ M.scr = S.scr
  BY <1>4, M1Good
<1>6. Good(S, Fail(S))
  BY FailGood
<1> HIDE DEF M
<1>7. CASE args = <<>> /\ x.pos >= Len(x.argv)
  BY <1>1, <1>6, <1>7
<1>8. CASE ~(args = <<>> /\ x.pos >= Len(x.argv)) /\ new /\ args = <<>>
  <2>1. x.argv[x.pos + 1] \in Path \cup {Null}
    BY <1>3, <1>8
  <2>2. Good(S, ExEdit(S, s, x.argv[x.pos + 1], force, TRUE, env))
    BY <1>4, <2>1, EditIs
  <2> QED BY <1>1, <1>8, <2>2
<1>9. CASE new /\ args # <<>>
  BY <1>1, <1>9, NNextIs
<1>10. CASE ~(args = <<>> /\ x.pos >= Len(x.argv)) /\ ~new /\ Failed(M)
  BY <1>1, <1>5, <1>10
<1>11. CASE ~(args = <<>> /\ x.pos >= Len(x.argv)) /\ ~new /\ ~Failed(M) /\ args = <<>>
  <2>1. Fit(M, s) /\ Safe(M, s) /\ M.scr[s] = x
    BY <1>5, <1>11
  <2>2. /\ x.argv[x.pos + 1] \in Path \cup {Null} /\ x.pos + 1 \in Nat
        /\ x.pos + 1 <= Len(M.scr[s].argv)
    BY <1>3, <1>11, <2>1
  <2>3. Good(M, SwitchTo(M, s, x.argv[x.pos + 1], x.pos + 1))
    <3> HIDE DEF x
    <3> QED BY <2>1, <2>2, SwitchToIs
  <2>4. Good(S, SwitchTo(M, s, x.argv[x.pos + 1], x.pos + 1))
    BY <1>5, <2>3, GoodAfter
  <2> QED BY <1>1, <1>11, <2>4
<1>12. CASE ~new /\ ~Failed(M) /\ args # <<>>
  <2>1. args \in Seq(Path \cup {Null}) /\ 1 <= Len(args) /\ args[1] \in Path \cup {Null}
        /\ 1 \in Nat
    BY <1>12, ArgsAre
  <2>2. Fit(M, s) /\ Safe(M, s)
    BY <1>5, <1>12
  <2>3. M \in State /\ s \in Scr /\ M.scr[s] \in ScrRec /\ M.scr \in [Scr -> ScrRec]
    BY <2>2, FitIs, StateIs
  <2>4. c \in ScrRec
    BY <2>1, <2>3 DEF ScrRec
  <2>5. [M EXCEPT !.scr[s].argv = args, !.scr[s].pos = 1] = U
    <3>1. [M.scr EXCEPT ![s].argv = args, ![s].pos = 1] = [M.scr EXCEPT ![s] = c]
      BY <2>3
    <3> HIDE DEF c
    <3> QED BY <2>3, <3>1 DEF State
  <2>6. c = [[M.scr[s] EXCEPT !.argv = args] EXCEPT !.pos = 1]
    OBVIOUS
  <2> HIDE DEF c
  <2>7. Placed(M, U, s, args)
    <3>1. Fit(M, s) /\ c \in ScrRec /\ 1 \in Nat /\ args \in Seq(Path \cup {Null})
          /\ 1 <= Len(args) /\ c = [[M.scr[s] EXCEPT !.argv = args] EXCEPT !.pos = 1]
      BY <2>1, <2>2, <2>4, <2>6
    <3> QED BY ONLY <3>1, PlacedIs
  <2> HIDE DEF U
  <2>8. 1 <= Len(U.scr[s].argv) /\ Safe(U, s) /\ Fit(U, s)
    BY <2>1, <2>2, <2>7 DEF Placed
  <2>9. Good(U, SwitchTo(U, s, args[1], 1))
    BY <2>1, <2>8, SwitchToIs
  <2>10. Good(M, SwitchTo(U, s, args[1], 1))
    BY <2>2, <2>7, <2>9, GoodAfter DEF Placed
  <2>11. Good(S, SwitchTo(U, s, args[1], 1))
    BY <1>5, <2>10, GoodAfter
  <2> QED BY <1>1, <1>12, <2>5, <2>11
<1> QED BY <1>7, <1>8, <1>9, <1>10, <1>11, <1>12

LEMMA PrevIs ==
    ASSUME NEW S, NEW s, Fit(S, s), NEW force \in BOOLEAN, force => S.forced,
           NEW new \in BOOLEAN, NEW env \in Env
    PROVE  Good(S, ExPrev(S, s, force, new, env))
<1> DEFINE x == S.scr[s]
           M == FileM1(S, s, force, env.full)
<1>1. ExPrev(S, s, force, new, env) =
        IF x.pos <= 1 THEN Fail(S)
        ELSE IF new THEN ExEdit(S, s, x.argv[x.pos - 1], force, TRUE, env)
        ELSE IF Failed(M) THEN M ELSE SwitchTo(M, s, x.argv[x.pos - 1], x.pos - 1)
  BY DEF ExPrev
<1>2. /\ x.pos \in Nat /\ Len(x.argv) \in Nat /\ x.pos <= Len(x.argv)
      /\ \A i \in 1..Len(x.argv) : x.argv[i] \in Path \cup {Null}
  BY ArgvIs
<1>3. ~(x.pos <= 1) => /\ x.pos - 1 \in Nat /\ x.pos - 1 <= Len(x.argv)
                       /\ x.argv[x.pos - 1] \in Path \cup {Null}
  <2> HIDE DEF x
  <2> QED BY <1>2
<1>4. env.full \in BOOLEAN /\ TRUE \in BOOLEAN
  BY DEF Env
<1>5. Good(S, M) /\ Mild(S, M) /\ (~Failed(M) => Fit(M, s) /\ Safe(M, s)) /\ M.scr = S.scr
  BY <1>4, M1Good
<1>6. Good(S, Fail(S))
  BY FailGood
<1> HIDE DEF M
<1>7. CASE ~(x.pos <= 1) /\ new
  <2>1. Good(S, ExEdit(S, s, x.argv[x.pos - 1], force, TRUE, env))
    BY <1>3, <1>4, <1>7, EditIs
  <2> QED BY <1>1, <1>7, <2>1
<1>8. CASE ~(x.pos <= 1) /\ ~new /\ ~Failed(M)
  <2>1. /\ Fit(M, s) /\ Safe(M, s) /\ x.argv[x.pos - 1] \in Path \cup {Null} /\ x.pos - 1 \in Nat
        /\ x.pos - 1 <= Len(M.scr[s].argv)
    BY <1>3, <1>5, <1>8
  <2>2. Good(M, SwitchTo(M, s, x.argv[x.pos - 1], x.pos - 1))
    <3> HIDE DEF x
    <3> QED BY <2>1, SwitchToIs
  <2>3. Good(S, SwitchTo(M, s, x.argv[x.pos - 1], x.pos - 1))
    BY <1>5, <2>2, GoodAfter
  <2> QED BY <1>1, <1>8, <2>3
<1> QED BY <1>1, <1>5, <1>6, <1>7, <1>8

LEMMA RewIs ==
    ASSUME NEW S, NEW s, Fit(S, s), NEW force \in BOOLEAN, force => S.forced, NEW env \in Env
    PROVE  Good(S, ExRew(S, s, force, env))
<1> DEFINE x == S.scr[s]
           M == FileM1(S, s, force, env.full)
           c == [[M.scr[s] EXCEPT !.argv = x.argv] EXCEPT !.pos = 1]
           U == [M EXCEPT !.scr = [M.scr EXCEPT ![s] = c]]
<1>1. ExRew(S, s, force, env) =
        IF x.argv = <<>> THEN Fail(S) ELSE IF Failed(M) THEN M
        ELSE SwitchTo([M EXCEPT !.scr[s].pos = 1], s, x.argv[1], 1)
  BY DEF ExRew
<1>2. env.full \in BOOLEAN
  BY DEF Env
<1>3. Good(S, M) /\ Mild(S, M) /\ (~Failed(M) => Fit(M, s) /\ Safe(M, s)) /\ M.scr = S.scr
  BY <1>2, M1Good
<1>4. Good(S, Fail(S))
  BY FailGood
<1> HIDE DEF M
<1>5. CASE x.argv # <<>> /\ ~Failed(M)
  <2>1. /\ x.argv \in Seq(Path \cup {Null}) /\ 1 <= Len(x.argv) /\ 1 \in Nat
        /\ x.argv[1] \in Path \cup {Null}
    <3>1. /\ x.argv \in Seq(Path \cup {Null}) /\ Len(x.argv) \in Nat /\ 1 <= Len(x.argv)
          /\ \A i \in 1..Len(x.argv) : x.argv[i] \in Path \cup {Null}
      BY <1>5, ArgvIs
    <3> HIDE DEF x
    <3> QED BY <3>1
  <2>2. Fit(M, s) /\ Safe(M, s)
    BY <1>3, <1>5
  <2>3. M \in State /\ s \in Scr /\ M.scr[s] \in ScrRec /\ M.scr \in [Scr -> ScrRec]
        /\ M.scr[s] = x
    BY <1>3, <2>2, FitIs, StateIs
  <2>4. c \in ScrRec
    BY <2>1, <2>3 DEF ScrRec
  <2>5. [M EXCEPT !.scr[s].pos = 1] = U
    <3>1. c = [M.scr[s] EXCEPT !.pos = 1]
      BY <2>3 DEF ScrRec
    <3> HIDE DEF c
    <3> QED BY <2>3, <3>1 DEF State
  <2>6. c = [[M.scr[s] EXCEPT !.argv = x.argv] EXCEPT !.pos = 1]
    OBVIOUS
  <2> HIDE DEF c, x
  <2>7. Placed(M, U, s, x.argv)
    <3>1. Fit(M, s) /\ c \in ScrRec /\ 1 \in Nat /\ x.argv \in Seq(Path \cup {Null})
          /\ 1 <= Len(x.argv) /\ c = [[M.scr[s] EXCEPT !.argv = x.argv] EXCEPT !.pos = 1]
      BY <2>1, <2>2, <2>4, <2>6
    <3> QED BY ONLY <3>1, PlacedIs
  <2> HIDE DEF U
  <2>8. 1 <= Len(U.scr[s].argv) /\ Safe(U, s) /\ Fit(U, s)
    BY <2>1, <2>2, <2>7 DEF Placed
  <2>9. Good(U, SwitchTo(U, s, x.argv[1], 1))
    BY <2>1, <2>8, SwitchToIs
  <2>10. Good(M, SwitchTo(U, s, x.argv[1], 1))
    BY <2>2, <2>7, <2>9, GoodAfter DEF Placed
  <2>11. Good(S, SwitchTo(U, s, x.argv[1], 1))
    BY <1>3, <2>10, GoodAfter
  <2> QED BY <1>1, <1>5, <2>5, <2>11
<1> QED BY <1>1, <1>3, <1>4, <1>5

LEMMA WriteIs ==
    ASSUME NEW S, NEW s, Fit(S, s), NEW w \in WriteArgs, NEW full \in BOOLEAN
    PROVE  LET T == ExWr(S, s, w, full)
           IN  /\ Good(S, T) /\ Mild(S, T) /\ (~Failed(T) => Fit(T, s)) /\ Good(T, T)
               /\ ~Failed(T) /\ w.all /\ ~w.append => ~ExfOf(T, s).modified
<1> DEFINE T == ExWr(S, s, w, full)
<1>1. Sound(S, {}) /\ ~S.broken /\ s \in Shown(S) /\ ~Failed(S)
  BY FitIs DEF Fit
<1>2. Written(S, T, s, w)
  BY <1>1, ExWrIs
<1> HIDE DEF T
<1>3. Mild(S, T) /\ Good(S, T) /\ (~Failed(T) => Fit(T, s))
  BY <1>2, MildGood DEF Written
<1>4. Good(T, T)
  BY <1>3 DEF Good
<1> QED BY <1>1, <1>2, <1>3, <1>4 DEF Written, T

LEMMA WqIs ==
    ASSUME NEW S, NEW s, Fit(S, s), NEW w \in WriteArgs, NEW env \in Env
    PROVE  Good(S, ExWq(S, s, w, env))
<1> DEFINE T == ExWr(S, s, w, env.full)
           all == w.all /\ ~w.append
<1>1. env.full \in BOOLEAN /\ w.force \in BOOLEAN /\ all \in BOOLEAN
  BY DEF Env, WriteArgs
<1>2. /\ Mild(S, T) /\ (~Failed(T) => Fit(T, s)) /\ Good(T, T)
      /\ ~Failed(T) /\ all => ~ExfOf(T, s).modified
  BY <1>1, WriteIs
<1>3. ExWq(S, s, w, env) = Leave(T, s, all, w.force)
  BY DEF ExWq
<1> HIDE DEF T, all
<1>4. Sound(T, {}) /\ ~T.broken /\ s \in Shown(T)
  BY <1>2, MildShown, FitIs
<1>5. Good(T, Leave(T, s, all, w.force))
  BY <1>1, <1>2, <1>4, LeaveIs
<1> QED BY <1>2, <1>3, <1>5, GoodAfter

LEMMA XitIs ==
    ASSUME NEW S, NEW s, Fit(S, s), NEW w \in WriteArgs, NEW env \in Env
    PROVE  Good(S, ExXit(S, s, w, env))
<1>1. CASE Modified(S, s)
  <2>1. ExXit(S, s, w, env) = ExWq(S, s, w, env)
    BY <1>1 DEF ExXit
  <2> QED BY <2>1, WqIs
<1>2. CASE ~Modified(S, s)
  <2>1. ExXit(S, s, w, env) = Leave(S, s, TRUE, w.force)
    BY <1>2 DEF ExXit
  <2>2. /\ Sound(S, {}) /\ ~S.broken /\ s \in Shown(S) /\ ~Failed(S) /\ ~ExfOf(S, s).modified
        /\ w.force \in BOOLEAN /\ TRUE \in BOOLEAN
    BY <1>2, FitIs DEF Fit, Modified, ExfOf, WriteArgs
  <2>3. Good(S, Leave(S, s, TRUE, w.force))
    BY <2>2, LeaveIs
  <2> QED BY <2>1, <2>3
<1> QED BY <1>1, <1>2

LEMMA WnIs ==
    ASSUME NEW S, NEW s, Fit(S, s), NEW w \in WriteArgs, w.force => S.forced, NEW env \in Env
    PROVE  Good(S, ExWn(S, s, w, env))
<1> DEFINE T == ExWr(S, s, w, env.full)
           M == IF Failed(T) THEN T ELSE FileM3(T, s, FALSE)
<1>1. env.full \in BOOLEAN /\ w.force \in BOOLEAN /\ FALSE \in BOOLEAN
      /\ <<>> \in ArgList \cup {<<>>}
  BY DEF Env, WriteArgs
<1>2. Good(S, T) /\ Mild(S, T) /\ (~Failed(T) => Fit(T, s))
  BY <1>1, WriteIs
<1>3. ExWn(S, s, w, env) = IF Failed(M) THEN M ELSE ExNext(M, s, <<>>, w.force, FALSE, env)
  BY DEF ExWn
<1> HIDE DEF T
<1>4. CASE Failed(T)
  BY <1>2, <1>3, <1>4
<1>5. CASE ~Failed(T)
  <2> DEFINE N == FileM3(T, s, FALSE)
  <2>1. Fit(T, s) /\ Sound(T, {}) /\ ~T.broken /\ s \in Shown(T)
    BY <1>2, <1>5, FitIs DEF Fit
  <2>2. Mild(T, N)
    BY <1>1, <2>1, FileM3Is
  <2>3. ExWn(S, s, w, env) = IF Failed(N) THEN N ELSE ExNext(N, s, <<>>, w.force, FALSE, env)
    BY <1>3, <1>5
  <2> HIDE DEF N, M
  <2>4. Mild(S, N)
    BY <1>2, <2>2, MildTwice
  <2>5. Good(S, N) /\ (~Failed(N) => Fit(N, s))
    BY <2>4, MildGood
  <2>6. CASE Failed(N)
    BY <2>3, <2>5, <2>6
  <2>7. CASE ~Failed(N)
    <3>1. w.force => N.forced
      BY <2>4 DEF Mild
    <3>2. Good(N, ExNext(N, s, <<>>, w.force, FALSE, env))
      BY <1>1, <2>5, <2>7, <3>1, NextIs
    <3>3. Good(S, ExNext(N, s, <<>>, w.force, FALSE, env))
      BY <2>4, <3>2, GoodAfter
    <3> QED BY <2>3, <2>7, <3>3
  <2> QED BY <2>6, <2>7
<1> QED BY <1>4, <1>5

LEMMA QuitIs ==
    ASSUME NEW S, NEW s, Fit(S, s), NEW force \in BOOLEAN, force => S.forced
    PROVE  Good(S, ExQuit(S, s, force))
<1> DEFINE M == FileM2(S, s, force)
           N == NCheck(M, s, force)
<1>1. ExQuit(S, s, force) = IF Failed(M) THEN M ELSE IF Failed(N) THEN N ELSE Exit(N, s)
  BY DEF ExQuit
<1>2. Good(S, M) /\ (~Failed(M) => Fit(M, s) /\ Safe(M, s)) /\ Mild(S, M)
  <2>1. Sound(S, {}) /\ ~S.broken /\ s \in Shown(S)
    BY FitIs DEF Fit
  <2> QED BY <2>1, FileM2Is, CheckedGood
<1> HIDE DEF M
<1>3. CASE Failed(M)
  BY <1>1, <1>2, <1>3
<1>4. CASE ~Failed(M)
  <2>1. Fit(M, s) /\ Safe(M, s) /\ Sound(M, {}) /\ ~M.broken /\ s \in Shown(M)
    BY <1>2, <1>4, FitIs DEF Fit
  <2>2. Mild(M, N) /\ (~Failed(N) => N = M)
    BY <2>1, NCheckIs
  <2> HIDE DEF N
  <2>3. Good(S, N)
    BY <1>2, <2>2, MildTwice, MildGood
  <2>4. Good(S, Exit(M, s))
    BY <1>2, <2>1, ExitIs, GoodAfter
  <2> QED BY <1>1, <1>4, <2>2, <2>3, <2>4
<1> QED BY <1>3, <1>4

LEMMA RenameIs ==
    ASSUME NEW S, NEW s, Fit(S, s), NEW n \in Name
    PROVE  Good(S, ExFile(S, s, n))
<1> DEFINE f == S.scr[s].frp
           R == IF "TMPFILE" \in S.fref[f].flags THEN Slipped(S, f, "tmp") ELSE S
           A == {"NAMECHANGE"}
<1>1. Sound(S, {}) /\ ~S.broken /\ f \in Fref /\ s \in Shown(S)
  BY FitIs DEF Fit
<1>2. A \in SUBSET Flag /\ "TMPFILE" \notin A /\ "TMPEXIT" \notin A
  BY DEF Flag
<1>3. R = IF "TMPFILE" \in S.fref[f].flags THEN Slipped(S, f, "tmp") ELSE S
  OBVIOUS
<1>4. ExFile(S, s, n) = NewName(R, f, n, A)
  BY DEF ExFile, NewName
<1> HIDE DEF R, A, f
<1>5. Mild(S, NewName(R, f, n, A))
  BY <1>1, <1>2, <1>3, NamedIs
<1> QED BY <1>4, <1>5, MildGood

LEMMA RecoverIs ==
    ASSUME NEW S, NEW s, Fit(S, s), NEW n \in Name, NEW force \in BOOLEAN, force => S.forced,
           NEW env \in Env
    PROVE  Good(S, ExRecover(S, s, n, force, env))
<1> DEFINE M == FileM2(S, s, force)
           T == FileAdd(M, n).st
           f == FileAdd(M, n).f
<1>1. ExRecover(S, s, n, force, env) = IF Failed(M) THEN M ELSE IF f = None THEN Fail(T)
                                       ELSE FileInit(T, s, f, env.rcv)
  BY DEF ExRecover
<1>2. Good(S, M) /\ (~Failed(M) => Fit(M, s) /\ Safe(M, s)) /\ Mild(S, M)
  <2>1. Sound(S, {}) /\ ~S.broken /\ s \in Shown(S)
    BY FitIs DEF Fit
  <2> QED BY <2>1, FileM2Is, CheckedGood
<1>3. n \in Path \cup {Null} /\ env.rcv \in BOOLEAN
  BY Constants DEF Env
<1> HIDE DEF M
<1>4. CASE Failed(M)
  BY <1>1, <1>2, <1>4
<1>5. CASE ~Failed(M)
  <2>1. Fit(M, s) /\ Safe(M, s)
    BY <1>2, <1>5
  <2>2. /\ Mild(M, T) /\ Fit(T, s) /\ Good(M, Fail(T)) /\ Safe(T, s)
        /\ f # None => f \in Fref /\ f \in Range(T.frefq)
    BY <1>3, <2>1, AddedIs
  <2> HIDE DEF T, f
  <2>3. Good(S, Fail(T))
    BY <1>2, <2>2, GoodAfter
  <2>4. CASE f # None
    <3>1. Good(T, FileInit(T, s, f, env.rcv))
      BY <1>3, <2>2, <2>4, InitGood
    <3>2. Good(S, FileInit(T, s, f, env.rcv))
      BY <1>2, <2>1, <2>2, <3>1, GoodAfter
    <3> QED BY <1>1, <1>5, <2>4, <3>2
  <2> QED BY <1>1, <1>5, <2>3, <2>4
<1> QED BY <1>4, <1>5

\* The queues of screens change, and nothing else.
LEMMA QueuesGood ==
    ASSUME NEW S, NEW s, Fit(S, s), NEW dq \in Seq(Scr), NEW hq \in Seq(Scr), NEW cur,
           cur \in Range(dq), IsInjective(dq), Range(dq) \cap Range(hq) = {},
           Range(dq) \cup Range(hq) = Linked(S), NEW rc \in {0, 1}
    PROVE  Good(S, [S EXCEPT !.cur = cur, !.dq = dq, !.hq = hq, !.rc = rc])
<1> DEFINE T == [S EXCEPT !.cur = cur, !.dq = dq, !.hq = hq, !.rc = rc]
<1>1. S \in State /\ Sound(S, {}) /\ Queued(S) /\ Clean(S) /\ cur \in Scr
  BY FitIs, RangeIn DEF Fit
<1>2. /\ T \in State /\ T.dq = dq /\ T.hq = hq /\ T.cur = cur /\ T.scr = S.scr /\ T.exf = S.exf
      /\ SameFrefs(S, T) /\ SameDisk(S, T) /\ T.broken = S.broken
      /\ T.lost = S.lost /\ T.clobbered = S.clobbered
  BY <1>1 DEF State, SameFrefs, SameDisk
<1> HIDE DEF T
<1>3. SameShown(S, T) /\ Screened(T)
  BY <1>1, <1>2 DEF SameShown, Sound, Screened
<1>4. Sound(T, {})
  BY <1>1, <1>2, <1>3, SameSound
<1>5. Shown(T) = Shown(S) /\ Linked(T) = Linked(S)
  BY <1>2 DEF Shown, Linked
<1>6. Queued(T)
  BY <1>1, <1>2, <1>5 DEF Queued
<1>7. Good(S, T)
  BY <1>1, <1>2, <1>4, <1>5, <1>6 DEF Good, Clean
<1> QED BY <1>7 DEF T

LEMMA BgIs ==
    ASSUME NEW S, NEW s, Fit(S, s)
    PROVE  Good(S, ExBg(S, s))
<1> DEFINE h == Heir(S, s)
           dq == Without(S.dq, {s})
           hq == Append(S.hq, s)
           T == [S EXCEPT !.cur = h, !.dq = dq, !.hq = hq, !.rc = 0]
<1>1. CASE h = None
  BY <1>1, FailGood DEF ExBg
<1>2. CASE h # None
  <2>1. /\ S \in State /\ s \in Scr /\ S.dq \in Seq(Scr) /\ S.hq \in Seq(Scr) /\ s \in Range(S.dq)
        /\ IsInjective(S.dq) /\ Range(S.dq) \cap Range(S.hq) = {} /\ S.rc = 0
    BY FitIs DEF Fit, Queued, Failed
  <2>2. h \in Range(S.dq) /\ h # s
    BY <1>2, HeirIs
  <2>3. dq \in Seq(Scr) /\ Range(dq) = Range(S.dq) \ {s} /\ IsInjective(dq)
    BY <2>1, WithoutIs
  <2>4. hq \in Seq(Scr) /\ Range(hq) = Range(S.hq) \cup {s}
    BY <2>1, AppendIs
  <2>5. ExBg(S, s) = T
    BY <1>2, <2>1 DEF ExBg, State
  <2> HIDE DEF h, dq, hq
  <2>6. /\ h \in Range(dq) /\ Range(dq) \cap Range(hq) = {}
        /\ Range(dq) \cup Range(hq) = Linked(S)
    BY <2>1, <2>2, <2>3, <2>4 DEF Linked
  <2>7. Good(S, T)
    BY <2>3, <2>4, <2>6, QueuesGood
  <2> QED BY <2>5, <2>7
<1> QED BY <1>1, <1>2

LEMMA HiddenIs ==
    ASSUME NEW S, NEW s, Fit(S, s), NEW n, Hidden(S, n) # None
    PROVE  Hidden(S, n) \in Range(S.hq)
<1> DEFINE at == {i \in DOMAIN S.hq : n = Null \/ S.fref[S.scr[S.hq[i]].frp].name = n}
<1>1. at # {} /\ Hidden(S, n) = S.hq[Least(at)]
  BY DEF Hidden
<1>2. S.hq \in Seq(Scr)
  BY FitIs
<1>3. DOMAIN S.hq = 1..Len(S.hq) /\ \A i \in 1..Len(S.hq) : S.hq[i] \in Range(S.hq)
  BY <1>2, RangeIn
<1>4. at \subseteq DOMAIN S.hq /\ at \subseteq Nat
  BY <1>3
<1> HIDE DEF at
<1>5. Least(at) \in at
  BY <1>1, <1>4, LeastOne
<1> QED BY <1>1, <1>3, <1>4, <1>5

LEMMA FgIs ==
    ASSUME NEW S, NEW s, Fit(S, s), NEW n, NEW new \in BOOLEAN, NEW env \in Env
    PROVE  Good(S, ExFg(S, s, n, new, env))
<1> DEFINE h == Hidden(S, n)
           rest == Without(S.hq, {h})
           i == IF env.above THEN Place(S, s) ELSE Place(S, s) + 1
<1>1. /\ S \in State /\ s \in Scr /\ S.dq \in Seq(Scr) /\ S.hq \in Seq(Scr) /\ s \in Range(S.dq)
      /\ IsInjective(S.dq) /\ Range(S.dq) \cap Range(S.hq) = {} /\ S.rc = 0 /\ S.cur = s
      /\ Range(S.hq) \subseteq Scr /\ Linked(S) = Range(S.dq) \cup Range(S.hq)
  BY FitIs DEF Fit, Queued, Failed, Linked
<1>2. CASE h = None
  BY <1>2, FailGood DEF ExFg
<1>3. CASE h # None
  <2>1. h \in Range(S.hq) /\ h \in Scr /\ h \notin Range(S.dq)
    BY <1>1, <1>3, HiddenIs
  <2>2. rest \in Seq(Scr) /\ Range(rest) = Range(S.hq) \ {h}
    BY <1>1, WithoutIs
  <2>3. i \in 1..(Len(S.dq) + 1)
    <3>1. Place(S, s) \in 1..Len(S.dq) /\ Len(S.dq) \in Nat
      BY HeirIs
    <3> DEFINE p == Place(S, s)
    <3> HIDE DEF p
    <3> QED BY <3>1 DEF p
  <2>4. ExFg(S, s, n, new, env) =
          IF new
          THEN IF ~env.room THEN Fail([S EXCEPT !.hq = Append(rest, h)])
               ELSE [Link([S EXCEPT !.hq = rest], s, h, env.above) EXCEPT !.cur = h]
          ELSE [S EXCEPT !.cur = h, !.hq = Append(rest, s),
                         !.dq = [j \in DOMAIN S.dq |-> IF S.dq[j] = s THEN h ELSE S.dq[j]]]
    <3>1. Append(Without(S.hq, {h}), h) = Append(rest, h)
      OBVIOUS
    <3> HIDE DEF h
    <3> QED BY <1>1, <1>3 DEF ExFg, h
  <2> HIDE DEF h, rest
  <2>5. CASE new /\ ~env.room
    <3> DEFINE hq == Append(rest, h)
               T == [S EXCEPT !.cur = s, !.dq = S.dq, !.hq = hq, !.rc = 1]
    <3>1. hq \in Seq(Scr) /\ Range(hq) = Range(S.hq)
      <4>1. hq \in Seq(Scr) /\ Range(hq) = Range(rest) \cup {h}
        BY <2>1, <2>2, AppendIs
      <4> QED BY <2>1, <2>2, <4>1
    <3>2. ExFg(S, s, n, new, env) = Fail([S EXCEPT !.hq = hq])
      BY <2>4, <2>5
    <3> HIDE DEF hq
    <3>3. Fail([S EXCEPT !.hq = hq]) = T
      BY <1>1 DEF Fail, State
    <3>4. Good(S, T)
      BY <1>1, <3>1, QueuesGood
    <3> QED BY <3>2, <3>3, <3>4
  <2>6. CASE new /\ env.room
    <3> DEFINE dq == InsertAt(S.dq, i, h)
               T == [S EXCEPT !.cur = h, !.dq = dq, !.hq = rest, !.rc = 0]
               L == [S EXCEPT !.hq = rest]
    <3>1. dq \in Seq(Scr) /\ Range(dq) = Range(S.dq) \cup {h} /\ IsInjective(dq)
      BY <1>1, <2>1, <2>3, InsertIs
    <3>2. Link(L, s, h, env.above) = [L EXCEPT !.dq = dq]
      <4>1. L.dq = S.dq
        BY <1>1 DEF State
      <4> HIDE DEF L
      <4>2. Place(L, s) = Place(S, s)
        BY <4>1 DEF Place
      <4> QED BY <4>1, <4>2 DEF Link
    <3>3. ExFg(S, s, n, new, env) = [Link(L, s, h, env.above) EXCEPT !.cur = h]
      BY <2>4, <2>6
    <3> HIDE DEF dq
    <3>4. ExFg(S, s, n, new, env) = T
      <4>1. ExFg(S, s, n, new, env) = [[L EXCEPT !.dq = dq] EXCEPT !.cur = h]
        BY <3>2, <3>3
      <4>2. L = [S EXCEPT !.hq = rest] /\ S.rc = 0
        BY <1>1
      <4> HIDE DEF L
      <4> QED BY <1>1, <4>1, <4>2 DEF State
    <3>5. /\ h \in Range(dq) /\ Range(dq) \cap Range(rest) = {}
          /\ Range(dq) \cup Range(rest) = Linked(S)
      BY <1>1, <2>1, <2>2, <3>1
    <3>6. Good(S, T)
      BY <2>2, <3>1, <3>5, QueuesGood
    <3> QED BY <3>4, <3>6
  <2>7. CASE ~new
    <3> DEFINE dq == [j \in DOMAIN S.dq |-> IF S.dq[j] = s THEN h ELSE S.dq[j]]
               hq == Append(rest, s)
               T == [S EXCEPT !.cur = h, !.dq = dq, !.hq = hq, !.rc = 0]
    <3>1. dq \in Seq(Scr) /\ Range(dq) = (Range(S.dq) \ {s}) \cup {h} /\ IsInjective(dq)
      <4> DEFINE q == S.dq
                 r == [j \in DOMAIN q |-> IF q[j] = s THEN h ELSE q[j]]
      <4>1. q \in Seq(Scr) /\ s \in Scr /\ h \in Scr /\ s \in Range(q) /\ h \notin Range(q)
            /\ IsInjective(q)
        BY <1>1, <2>1
      <4> HIDE DEF q
      <4>2. /\ r \in Seq(Scr)
            /\ s \in Range(q) => Range(r) = (Range(q) \ {s}) \cup {h}
            /\ IsInjective(q) /\ h \notin Range(q) => IsInjective(r)
        BY ONLY <4>1, SwapIs
      <4> QED BY <4>1, <4>2 DEF q
    <3>2. hq \in Seq(Scr) /\ Range(hq) = Range(rest) \cup {s}
      BY <1>1, <2>2, AppendIs
    <3>3. ExFg(S, s, n, new, env) = [S EXCEPT !.cur = h, !.hq = hq, !.dq = dq]
      BY <2>4, <2>7
    <3> HIDE DEF dq, hq
    <3>4. ExFg(S, s, n, new, env) = T
      BY <1>1, <3>3 DEF State
    <3>5. /\ h \in Range(dq) /\ Range(dq) \cap Range(hq) = {}
          /\ Range(dq) \cup Range(hq) = Linked(S)
      BY <1>1, <2>1, <2>2, <3>1, <3>2
    <3>6. Good(S, T)
      BY <3>1, <3>2, <3>5, QueuesGood
    <3> QED BY <3>4, <3>6
  <2> QED BY <2>5, <2>6, <2>7
<1> QED BY <1>2, <1>3

LEMMA ScreenIs ==
    ASSUME NEW S, NEW s, Fit(S, s)
    PROVE  Good(S, VScreen(S, s))
<1> DEFINE i == (Place(S, s) % Len(S.dq)) + 1
           T == [S EXCEPT !.cur = S.dq[i], !.dq = S.dq, !.hq = S.hq, !.rc = 0]
<1>1. CASE Len(S.dq) = 1
  BY <1>1, FailGood DEF VScreen
<1>2. CASE Len(S.dq) # 1
  <2>1. /\ S \in State /\ S.dq \in Seq(Scr) /\ S.hq \in Seq(Scr) /\ S.rc = 0
        /\ IsInjective(S.dq) /\ Range(S.dq) \cap Range(S.hq) = {}
        /\ Linked(S) = Range(S.dq) \cup Range(S.hq)
    BY FitIs DEF Fit, Queued, Failed, Linked
  <2>2. i \in 1..Len(S.dq)
    <3>1. Place(S, s) \in 1..Len(S.dq) /\ Len(S.dq) \in Nat
      BY HeirIs
    <3>2. ASSUME NEW p \in Nat, NEW n \in Nat, p \in 1..n
          PROVE  (p % n) + 1 \in 1..n
      BY <3>2
    <3> QED BY <3>1, <3>2
  <2>3. S.dq[i] \in Range(S.dq)
    BY <2>1, <2>2, RangeIn
  <2>4. VScreen(S, s) = T
    <3>1. VScreen(S, s) = [S EXCEPT !.cur = S.dq[i]]
      BY <1>2 DEF VScreen
    <3> HIDE DEF i
    <3> QED BY <2>1, <3>1 DEF State
  <2> HIDE DEF i
  <2>5. Good(S, T)
    BY <2>1, <2>3, QueuesGood
  <2> QED BY <2>4, <2>5
<1> QED BY <1>1, <1>2

-----------------------------------------------------------------------------
(* The steps                                                               *)

\* A failed command leaves every screen the file it had.
Keeps == gs'.rc # 0 => \A s \in Linked(gs) : /\ gs'.scr[s].ep = gs.scr[s].ep
                                             /\ s \in Linked(gs')

LEMMA BegunIs ==
    ASSUME IInv, Ready, NEW force \in BOOLEAN
    PROVE  LET B == Begun(force)
           IN  /\ Fit(B, gs.cur) /\ Linked(B) = Linked(gs) /\ B.forced = force
               /\ \A r \in Scr : B.scr[r].ep = gs.scr[r].ep /\ B.scr[r].frp = gs.scr[r].frp
               /\ B.exf = gs.exf /\ B.fref = gs.fref /\ B.disk = gs.disk /\ B.lock = gs.lock
<1> DEFINE s == gs.cur
           v == IF gs.scr[s].quit = 2 THEN 1 ELSE 0
           c == [gs.scr[s] EXCEPT !.quit = v]
           C == [gs.scr EXCEPT ![s] = c]
           B == [gs EXCEPT !.rc = 0, !.forced = force, !.lost = {}, !.clobbered = {},
                           !.cmds = @ + 1, !.scr = C]
<1>1. /\ gs \in State /\ Sound(gs, {}) /\ Queued(gs) /\ s \in Scr /\ gs.scr \in [Scr -> ScrRec]
      /\ gs.scr[s] \in ScrRec /\ s # None /\ gs.broken = FALSE /\ gs.cmds \in Nat
  <2>1. gs \in State
    BY DEF IInv, Sound
  <2>2. s \in Scr /\ s # None /\ gs.broken = FALSE
    BY <2>1, StateIs DEF Ready
  <2> QED BY <2>1, <2>2, StateIs DEF IInv
<1>2. Begun(force) = B
  <2>1. [gs.scr EXCEPT ![s].quit = IF @ = 2 THEN 1 ELSE 0] = C
    BY <1>1
  <2> HIDE DEF C
  <2>2. [gs EXCEPT !.rc = 0, !.forced = force, !.lost = {}, !.clobbered = {}, !.cmds = @ + 1,
                   !.scr[s].quit = IF @ = 2 THEN 1 ELSE 0] = B
    BY <1>1, <2>1 DEF State
  <2> QED BY <2>2 DEF Begun
<1>3. v \in 0..2
  OBVIOUS
<1> HIDE DEF v
<1>4. /\ c \in ScrRec /\ c.ep = gs.scr[s].ep /\ c.frp = gs.scr[s].frp /\ c.pos = gs.scr[s].pos
      /\ c.argv = gs.scr[s].argv
  BY <1>1, <1>3 DEF ScrRec
<1> HIDE DEF c
<1>5. C \in [Scr -> ScrRec] /\ \A r \in Scr : C[r] = IF r = s THEN c ELSE gs.scr[r]
  BY <1>1, <1>4
<1> HIDE DEF C
<1>6. /\ B \in State /\ B.rc = 0 /\ B.forced = force /\ B.lost = {} /\ B.clobbered = {}
      /\ B.scr = C /\ B.exf = gs.exf /\ B.broken = FALSE
      /\ SameQueues(gs, B) /\ SameFrefs(gs, B) /\ SameDisk(gs, B)
  <2>1. 0 \in {0, 1} /\ {} \in SUBSET (Slip \cup {"plain"}) /\ gs.cmds + 1 \in Nat
    BY <1>1
  <2> QED BY <1>1, <1>5, <2>1 DEF State, SameQueues, SameFrefs, SameDisk
<1> HIDE DEF B
<1>7. SameShown(gs, B) /\ Screened(B)
  BY <1>1, <1>4, <1>5, <1>6 DEF SameShown, Screened, Sound
<1>8. B.broken = gs.broken
  BY <1>1, <1>6
<1>9. Sound(B, {})
  BY <1>1, <1>6, <1>7, <1>8, SameSound
<1>10. Shown(B) = Shown(gs) /\ Linked(B) = Linked(gs)
  BY <1>6, <1>7 DEF Shown, SameShown, Linked, SameQueues
<1>11. Queued(B)
  BY <1>1, <1>6, <1>10 DEF Queued, SameQueues
<1>12. Fit(B, s)
  BY <1>1, <1>6, <1>9, <1>11 DEF Fit, Clean, Failed, SameQueues
<1>13. /\ B.forced = force /\ B.exf = gs.exf /\ B.fref = gs.fref /\ B.disk = gs.disk /\ B.lock = gs.lock
       /\ \A r \in Scr : B.scr[r].ep = gs.scr[r].ep /\ B.scr[r].frp = gs.scr[r].frp
  BY <1>6, <1>7 DEF SameShown, SameFrefs, SameDisk
<1> QED BY <1>2, <1>10, <1>12, <1>13

\* The state a command leaves is the next state.
LEMMA EndsWell ==
    ASSUME IInv, Ready, NEW force \in BOOLEAN, NEW S, Good(Begun(force), S), gs' = S
    PROVE  IInv' /\ Keeps
<1> DEFINE B == Begun(force)
<1>1. /\ Linked(B) = Linked(gs) /\ \A r \in Scr : B.scr[r].ep = gs.scr[r].ep
      /\ Linked(gs) \subseteq Scr
  <2>1. Fit(B, gs.cur) /\ Linked(B) = Linked(gs) /\ \A r \in Scr : B.scr[r].ep = gs.scr[r].ep
    BY BegunIs
  <2> HIDE DEF B
  <2>2. Linked(B) \subseteq Scr
    BY <2>1, FitIs
  <2> QED BY <2>1, <2>2
<1> HIDE DEF B
<1>2. Good(B, gs')
  BY DEF B
<1>3. Sound(gs', {}) /\ Queued(gs') /\ Clean(gs')
  BY <1>2 DEF Good
<1>4. IInv'
  BY <1>3 DEF IInv
<1>5. Keeps
  BY <1>1, <1>2 DEF Keeps, Good, Failed
<1> QED BY <1>4, <1>5

LEMMA DoesWell ==
    ASSUME IInv, Ready, NEW force \in BOOLEAN, NEW S, Good(Begun(force), S), Does(S)
    PROVE  IInv' /\ Keeps
<1> DEFINE B == Begun(force)
           T == [S EXCEPT !.forced = FALSE]
<1> HIDE DEF B
<1>1. Good(B, S)
  BY DEF B
<1>2. S \in State /\ Sound(S, {}) /\ Queued(S) /\ Clean(S)
  BY <1>1 DEF Good, Sound
<1>3. /\ T \in State /\ T.scr = S.scr /\ T.exf = S.exf /\ T.broken = S.broken /\ T.rc = S.rc
      /\ SameQueues(S, T) /\ SameFrefs(S, T) /\ SameDisk(S, T)
      /\ T.lost = S.lost /\ T.clobbered = S.clobbered
  BY <1>2 DEF State, SameQueues, SameFrefs, SameDisk
<1>4. gs' = T
  BY DEF Does
<1> HIDE DEF T
<1>5. SameShown(S, T) /\ Screened(T)
  BY <1>2, <1>3 DEF SameShown, Screened, Sound
<1>6. Sound(T, {})
  BY <1>2, <1>3, <1>5, SameSound
<1>7. Linked(T) = Linked(S) /\ Shown(T) = Shown(S)
  BY <1>3 DEF Linked, Shown, SameQueues
<1>8. Queued(T) /\ Clean(T)
  BY <1>2, <1>3, <1>7 DEF Queued, Clean, SameQueues
<1>9. Good(B, T)
  BY <1>1, <1>3, <1>6, <1>7, <1>8 DEF Good, Failed
<1>10. Good(Begun(force), T)
  BY <1>9 DEF B
<1> QED BY <1>4, <1>10, EndsWell

\* The text or the files change, and no screen, FREF or queue does.
LEMMA OutsideGood ==
    ASSUME NEW S, NEW s, Fit(S, s), NEW T \in State, T.scr = S.scr, SameQueues(S, T),
           SameFrefs(S, T), T.temps = S.temps, T.temps \subseteq T.disk, T.broken = S.broken,
           T.rc = S.rc, T.lost = S.lost, T.clobbered = S.clobbered,
           \A e \in Exf : Grows(S.exf[e], T.exf[e])
    PROVE  Good(S, T)
<1>1. Sound(S, {}) /\ Queued(S) /\ Clean(S) /\ S.rc = 0
  BY DEF Fit, Failed
<1>2. SameShown(S, T) /\ Screened(T)
  BY <1>1 DEF SameShown, Screened, Sound
<1>3. Sound(T, {})
  BY <1>1, <1>2, GrowsSound
<1>4. Linked(T) = Linked(S) /\ Shown(T) = Shown(S)
  BY DEF Linked, Shown, SameQueues
<1>5. Queued(T) /\ Clean(T)
  BY <1>1, <1>4 DEF Queued, Clean, SameQueues
<1> QED BY <1>1, <1>3, <1>5 DEF Good, Failed

LEMMA ChangeIs ==
    ASSUME IInv, Change
    PROVE  IInv' /\ Keeps
<1> DEFINE B == Begun(FALSE)
           s == gs.cur
           e == gs.scr[s].ep
           y == [gs.exf[e] EXCEPT !.modified = TRUE, !.work = TRUE, !.kept = Null,
                                  !.slips = @ \ {"truncated", "partial"}]
           X == [B.exf EXCEPT ![e] = y]
           T == [B EXCEPT !.exf = X]
<1>1. Ready /\ FALSE \in BOOLEAN
  BY DEF Change
<1>2. Fit(B, s) /\ B.scr[s].ep = e /\ B.exf = gs.exf
  <2>1. Fit(B, s) /\ B.exf = gs.exf /\ \A r \in Scr : B.scr[r].ep = gs.scr[r].ep
    BY <1>1, BegunIs
  <2> HIDE DEF B
  <2> QED BY <2>1, FitIs
<1>3. gs' = [B EXCEPT !.exf[e] = y]
  BY DEF Change
<1> HIDE DEF B
<1>4. B \in State /\ e \in Exf /\ B.exf \in [Exf -> ExfRec] /\ B.exf[e] \in ExfRec
      /\ gs.exf[e] = B.exf[e]
  <2>1. s \in Shown(B) /\ Sound(B, {}) /\ B \in State
    BY <1>2, FitIs DEF Fit
  <2> QED BY <1>2, <2>1, ShownIs, StateIs
<1>5. gs' = T
  <2> HIDE DEF y
  <2>1. [B EXCEPT !.exf[e] = y] = T
    BY <1>4 DEF State
  <2> QED BY <1>3, <2>1
<1>6. /\ y \in ExfRec /\ y.refcnt = B.exf[e].refcnt /\ y.modified /\ y.saw = B.exf[e].saw
      /\ y.knows = B.exf[e].knows /\ y.slips = B.exf[e].slips \ {"truncated", "partial"}
  BY <1>4 DEF ExfRec
<1> HIDE DEF y, e
<1>7. X \in [Exf -> ExfRec] /\ X[e] = y /\ \A g \in Exf : g # e => X[g] = B.exf[g]
  BY <1>4, <1>6
<1> HIDE DEF X
<1>8. /\ T \in State /\ T.exf = X /\ T.scr = B.scr /\ SameQueues(B, T) /\ SameFrefs(B, T)
      /\ T.temps = B.temps /\ T.disk = B.disk /\ T.broken = B.broken /\ T.rc = B.rc
      /\ T.lost = B.lost /\ T.clobbered = B.clobbered
  BY <1>4, <1>7 DEF State, SameQueues, SameFrefs
<1> HIDE DEF T
<1>9. \A g \in Exf : Grows(B.exf[g], T.exf[g])
  <2>1. \A g \in Exf : B.exf[g].saw \in B.exf[g].knows \cup {Null} \/ "appended" \in B.exf[g].slips
    BY <1>2 DEF Fit, Sound, Saw
  <2>2. Grows(B.exf[e], y)
    BY <1>4, <1>6, <2>1 DEF Grows
  <2>3. \A g \in Exf : g # e => Grows(B.exf[g], T.exf[g])
    BY <1>7, <1>8, <2>1 DEF Grows
  <2> QED BY <1>7, <1>8, <2>2, <2>3
<1>10. T.temps \subseteq T.disk
  BY <1>2, <1>8 DEF Fit, Sound, Named
<1>11. Good(B, T)
  BY <1>2, <1>8, <1>9, <1>10, OutsideGood
<1>12. Good(Begun(FALSE), T)
  BY <1>11 DEF B
<1> QED BY <1>1, <1>5, <1>12, EndsWell

LEMMA ExternalIs ==
    ASSUME IInv, External
    PROVE  IInv' /\ Keeps
<1> DEFINE B == Begun(FALSE)
<1>1. Ready /\ FALSE \in BOOLEAN
  BY DEF External
<1>2. Fit(B, gs.cur) /\ B.lock = gs.lock
  BY <1>1, BegunIs
<1>3. PICK n \in Name :
        \/ gs' = [Touch(B, n) EXCEPT !.disk = @ \cup {n}]
        \/ gs' = Unlink(B, n)
        \/ gs' = [B EXCEPT !.lock[n] = Other]
        \/ gs' = [B EXCEPT !.lock[n] = None]
  BY DEF External
<1> HIDE DEF B
<1>4. /\ B \in State /\ Sound(B, {}) /\ n \in Path /\ n \notin Tmp /\ n # Null
      /\ B.temps \subseteq Tmp /\ B.temps \subseteq B.disk
      /\ B.lock \in [Path -> Exf \cup {None, Other}] /\ B.disk \subseteq Path
  BY <1>2, Constants, StateIs DEF Fit, Sound, Named
<1>5. \A e \in Exf : Grows(B.exf[e], B.exf[e])
  BY <1>4 DEF Grows, Sound, Saw
<1>6. \A e \in Exf : Grows(B.exf[e], Touched(B.exf[e], n))
  <2> SUFFICES ASSUME NEW e \in Exf
               PROVE  Grows(B.exf[e], Touched(B.exf[e], n))
    OBVIOUS
  <2> DEFINE x == B.exf[e]
             y == Touched(x, n)
  <2>1. x \in ExfRec /\ Grows(x, x)
    BY <1>4, <1>5, StateIs
  <2> HIDE DEF x
  <2>2. /\ y \in ExfRec /\ y.refcnt = x.refcnt /\ y.modified = x.modified
        /\ y.work = x.work /\ y.slips = x.slips /\ y.knows = x.knows \ {n}
        /\ y.saw = IF x.saw = n THEN Null ELSE x.saw
    BY <2>1, TouchedIs
  <2> HIDE DEF y
  <2>3. Grows(x, y)
    BY <2>1, <2>2 DEF Grows
  <2> QED BY <2>3 DEF x, y
<1>7. CASE gs' = [Touch(B, n) EXCEPT !.disk = @ \cup {n}]
  <2> DEFINE U == Touch(B, n)
             T == [U EXCEPT !.disk = U.disk \cup {n}]
  <2>1. /\ U \in State /\ U.scr = B.scr /\ SameQueues(B, U) /\ SameTold(B, U)
        /\ SameFrefs(B, U) /\ SameDisk(B, U) /\ \A e \in Exf : U.exf[e] = Touched(B.exf[e], n)
    BY <1>4, TouchIs
  <2> HIDE DEF U
  <2>2. U.disk \cup {n} \in SUBSET Path
    BY <1>4, <2>1 DEF SameDisk
  <2>3. /\ T \in State /\ T.scr = U.scr /\ SameQueues(U, T) /\ SameTold(U, T)
        /\ SameFrefs(U, T) /\ T.exf = U.exf /\ T.temps = U.temps /\ T.disk = U.disk \cup {n}
    BY <2>1, <2>2 DEF State, SameQueues, SameTold, SameFrefs
  <2>4. gs' = T
    BY <1>7, <2>1 DEF U
  <2> HIDE DEF T
  <2>5. /\ T.scr = B.scr /\ SameQueues(B, T) /\ SameFrefs(B, T) /\ T.temps = B.temps
        /\ T.temps \subseteq T.disk /\ T.broken = B.broken /\ T.rc = B.rc /\ T.lost = B.lost
        /\ T.clobbered = B.clobbered
    BY <1>4, <2>1, <2>3 DEF SameQueues, SameTold, SameFrefs, SameDisk
  <2>6. \A e \in Exf : Grows(B.exf[e], T.exf[e])
    BY <1>6, <2>1, <2>3
  <2>7. Good(B, T)
    BY <1>2, <2>3, <2>5, <2>6, OutsideGood
  <2>8. Good(Begun(FALSE), T)
    BY <2>7 DEF B
  <2> QED BY <1>1, <2>4, <2>8, EndsWell
<1>8. CASE gs' = Unlink(B, n)
  <2> DEFINE T == Unlink(B, n)
  <2>1. /\ T \in State /\ T.scr = B.scr /\ SameQueues(B, T) /\ SameTold(B, T)
        /\ SameFrefs(B, T) /\ T.disk = B.disk \ {n} /\ T.temps = B.temps \ {n}
        /\ \A e \in Exf : T.exf[e] = Touched(B.exf[e], n)
    BY <1>4, UnlinkIs
  <2> HIDE DEF T
  <2>2. /\ T.temps = B.temps /\ T.temps \subseteq T.disk /\ T.broken = B.broken /\ T.rc = B.rc
        /\ T.lost = B.lost /\ T.clobbered = B.clobbered
    BY <1>4, <2>1 DEF SameTold
  <2>3. \A e \in Exf : Grows(B.exf[e], T.exf[e])
    BY <1>6, <2>1
  <2>4. Good(B, T)
    BY <1>2, <2>1, <2>2, <2>3, OutsideGood
  <2>5. Good(Begun(FALSE), T) /\ gs' = T
    BY <1>8, <2>4 DEF B, T
  <2> QED BY <1>1, <2>5, EndsWell
<1>9. ASSUME NEW x \in {Other, None}, gs' = [B EXCEPT !.lock[n] = x]
      PROVE  IInv' /\ Keeps
  <2> DEFINE K == [B.lock EXCEPT ![n] = x]
             T == [B EXCEPT !.lock = K]
  <2>1. K \in [Path -> Exf \cup {None, Other}]
    BY <1>4
  <2> HIDE DEF K
  <2>2. /\ T \in State /\ T.scr = B.scr /\ T.exf = B.exf /\ SameQueues(B, T) /\ SameFrefs(B, T)
        /\ T.temps = B.temps /\ T.disk = B.disk /\ T.broken = B.broken /\ T.rc = B.rc
        /\ T.lost = B.lost /\ T.clobbered = B.clobbered
    BY <1>4, <2>1 DEF State, SameQueues, SameFrefs
  <2>3. gs' = T
    BY <1>4, <1>9 DEF State, K
  <2> HIDE DEF T
  <2>4. Good(B, T)
    BY <1>2, <1>4, <1>5, <2>2, OutsideGood
  <2>5. Good(Begun(FALSE), T)
    BY <2>4 DEF B
  <2> QED BY <1>1, <2>3, <2>5, EndsWell
<1> QED BY <1>3, <1>7, <1>8, <1>9

LEMMA CommandIs ==
    ASSUME IInv,
           Edit \/ NextFile \/ Prev \/ Rewind \/ Recover \/ Rename \/ Background \/ Foreground
             \/ OtherScreen
    PROVE  IInv' /\ Keeps
<1> DEFINE B(force) == Begun(force)
           s == gs.cur
<1>1. Ready
  BY DEF Edit, NextFile, Prev, Rewind, Recover, Rename, Background, Foreground, OtherScreen
<1>2. \A force \in BOOLEAN : /\ Fit(B(force), s) /\ B(force).forced = force
                             /\ gs.fref[gs.scr[s].frp].name \in Path
  <2> SUFFICES ASSUME NEW force \in BOOLEAN
               PROVE  /\ Fit(B(force), s) /\ B(force).forced = force
                      /\ gs.fref[gs.scr[s].frp].name \in Path
    OBVIOUS
  <2> DEFINE D == B(force)
  <2>1. /\ Fit(D, s) /\ D.forced = force /\ D.fref = gs.fref
        /\ \A r \in Scr : D.scr[r].frp = gs.scr[r].frp
    BY <1>1, BegunIs
  <2> HIDE DEF D
  <2>2. s \in Scr /\ D.fref[D.scr[s].frp].name \in Path
    BY <2>1, FitIs
  <2>3. Fit(D, s) /\ D.forced = force /\ gs.fref[gs.scr[s].frp].name \in Path
    BY <2>1, <2>2
  <2> QED BY <2>3 DEF D
<1>3. \A force \in BOOLEAN : \A S : Good(B(force), S) /\ Does(S) => IInv' /\ Keeps
  BY <1>1, DoesWell
<1>4. /\ \A a, b \in BOOLEAN : [Calm EXCEPT !.above = a, !.room = b] \in Env
      /\ \A a \in BOOLEAN : [Calm EXCEPT !.full = a] \in Env
      /\ \A a \in BOOLEAN : [Calm EXCEPT !.rcv = a] \in Env
      /\ \A a \in BOOLEAN : [Calm EXCEPT !.room = a] \in Env
  BY DEF Calm, Env
<1>5. Given \subseteq Path \cup {Null} /\ FALSE \in BOOLEAN
  BY <1>2, Constants DEF Given
<1> HIDE DEF B
<1>6. CASE Edit
  <2>1. PICK n \in Given, force, new, above, room \in BOOLEAN :
          Does(ExEdit(B(force), s, n, force, new, [Calm EXCEPT !.above = above, !.room = room]))
    BY <1>6 DEF Edit, B
  <2>2. Good(B(force), ExEdit(B(force), s, n, force, new,
                              [Calm EXCEPT !.above = above, !.room = room]))
    BY <1>2, <1>4, <1>5, EditIs
  <2> QED BY <1>3, <2>1, <2>2
<1>7. CASE NextFile
  <2>1. PICK args \in ArgList \cup {<<>>}, force, new, full \in BOOLEAN :
          Does(ExNext(B(force), s, args, force, new, [Calm EXCEPT !.full = full]))
    BY <1>7 DEF NextFile, B
  <2>2. Good(B(force), ExNext(B(force), s, args, force, new, [Calm EXCEPT !.full = full]))
    BY <1>2, <1>4, NextIs
  <2> QED BY <1>3, <2>1, <2>2
<1>8. CASE Prev
  <2>1. PICK force, new, full \in BOOLEAN :
          Does(ExPrev(B(force), s, force, new, [Calm EXCEPT !.full = full]))
    BY <1>8 DEF Prev, B
  <2>2. Good(B(force), ExPrev(B(force), s, force, new, [Calm EXCEPT !.full = full]))
    BY <1>2, <1>4, PrevIs
  <2> QED BY <1>3, <2>1, <2>2
<1>9. CASE Rewind
  <2>1. PICK force, full \in BOOLEAN :
          Does(ExRew(B(force), s, force, [Calm EXCEPT !.full = full]))
    BY <1>9 DEF Rewind, B
  <2>2. Good(B(force), ExRew(B(force), s, force, [Calm EXCEPT !.full = full]))
    BY <1>2, <1>4, RewIs
  <2> QED BY <1>3, <2>1, <2>2
<1>10. CASE Recover
  <2>1. PICK n \in Name, force, rcv \in BOOLEAN :
          Does(ExRecover(B(force), s, n, force, [Calm EXCEPT !.rcv = rcv]))
    BY <1>10 DEF Recover, B
  <2>2. Good(B(force), ExRecover(B(force), s, n, force, [Calm EXCEPT !.rcv = rcv]))
    BY <1>2, <1>4, RecoverIs
  <2> QED BY <1>3, <2>1, <2>2
<1>11. CASE Rename
  <2>1. PICK n \in Name : Does(ExFile(B(FALSE), s, n))
    BY <1>11 DEF Rename, B
  <2>2. Good(B(FALSE), ExFile(B(FALSE), s, n))
    BY <1>2, <1>5, RenameIs
  <2> QED BY <1>3, <1>5, <2>1, <2>2
<1>12. CASE Background
  <2>1. Does(ExBg(B(FALSE), s))
    BY <1>12 DEF Background, B
  <2>2. Good(B(FALSE), ExBg(B(FALSE), s))
    BY <1>2, <1>5, BgIs
  <2> QED BY <1>3, <1>5, <2>1, <2>2
<1>13. CASE Foreground
  <2>1. PICK n \in Name \cup {Null}, new, room \in BOOLEAN :
          Does(ExFg(B(FALSE), s, n, new, [Calm EXCEPT !.room = room]))
    BY <1>13 DEF Foreground, B
  <2>2. Good(B(FALSE), ExFg(B(FALSE), s, n, new, [Calm EXCEPT !.room = room]))
    BY <1>2, <1>4, <1>5, FgIs
  <2> QED BY <1>3, <1>5, <2>1, <2>2
<1>14. CASE OtherScreen
  <2>1. Does(VScreen(B(FALSE), s))
    BY <1>14 DEF OtherScreen, B
  <2>2. Good(B(FALSE), VScreen(B(FALSE), s))
    BY <1>2, <1>5, ScreenIs
  <2> QED BY <1>3, <1>5, <2>1, <2>2
<1> QED BY <1>6, <1>7, <1>8, <1>9, <1>10, <1>11, <1>12, <1>13, <1>14

LEMMA WriteCommandIs ==
    ASSUME IInv, Write \/ WriteQuit \/ Xit \/ ZZ \/ WriteNext \/ Quit
    PROVE  IInv' /\ Keeps
<1> DEFINE B(force) == Begun(force)
           s == gs.cur
<1>1. Ready
  BY DEF Write, WriteQuit, Xit, ZZ, WriteNext, Quit
<1>2. \A force \in BOOLEAN : Fit(B(force), s) /\ B(force).forced = force
  BY <1>1, BegunIs
<1>3. \A force \in BOOLEAN : \A S : Good(B(force), S) /\ Does(S) => IInv' /\ Keeps
  BY <1>1, DoesWell
<1>4. Calm \in Env /\ Whole(FALSE) \in WriteArgs /\ FALSE \in BOOLEAN
      /\ \A w \in WriteArgs : w.force \in BOOLEAN
  BY DEF Calm, Env, Whole, WriteArgs
<1> HIDE DEF B
<1>5. CASE Write
  <2>1. PICK w \in WriteArgs, full \in BOOLEAN : Does(ExWr(B(w.force), s, w, full))
    BY <1>5 DEF Write, B
  <2>2. Good(B(w.force), ExWr(B(w.force), s, w, full))
    BY <1>2, <1>4, WriteIs
  <2> QED BY <1>3, <1>4, <2>1, <2>2
<1>6. CASE WriteQuit
  <2>1. PICK w \in WriteArgs : Does(ExWq(B(w.force), s, w, Calm))
    BY <1>6 DEF WriteQuit, B
  <2>2. Good(B(w.force), ExWq(B(w.force), s, w, Calm))
    BY <1>2, <1>4, WqIs
  <2> QED BY <1>3, <1>4, <2>1, <2>2
<1>7. CASE Xit
  <2>1. PICK w \in WriteArgs : Does(ExXit(B(w.force), s, w, Calm))
    BY <1>7 DEF Xit, B
  <2>2. Good(B(w.force), ExXit(B(w.force), s, w, Calm))
    BY <1>2, <1>4, XitIs
  <2> QED BY <1>3, <1>4, <2>1, <2>2
<1>8. CASE ZZ
  <2>1. Does(ExXit(B(FALSE), s, Whole(FALSE), Calm))
    BY <1>8 DEF ZZ, B
  <2>2. Good(B(FALSE), ExXit(B(FALSE), s, Whole(FALSE), Calm))
    BY <1>2, <1>4, XitIs
  <2> QED BY <1>3, <1>4, <2>1, <2>2
<1>9. CASE WriteNext
  <2>1. PICK w \in WriteArgs : Does(ExWn(B(w.force), s, w, Calm))
    BY <1>9 DEF WriteNext, B
  <2>2. Fit(B(w.force), s) /\ (w.force => B(w.force).forced)
    BY <1>2, <1>4
  <2>3. Good(B(w.force), ExWn(B(w.force), s, w, Calm))
    BY <1>4, <2>2, WnIs
  <2> QED BY <1>3, <1>4, <2>1, <2>3
<1>10. CASE Quit
  <2>1. PICK force \in BOOLEAN : Does(ExQuit(B(force), s, force))
    BY <1>10 DEF Quit, B
  <2>2. Good(B(force), ExQuit(B(force), s, force))
    BY <1>2, QuitIs
  <2> QED BY <1>3, <2>1, <2>2
<1> QED BY <1>5, <1>6, <1>7, <1>8, <1>9, <1>10

LEMMA StepKeeps ==
    ASSUME IInv, Next
    PROVE  IInv' /\ Keeps
BY CommandIs, WriteCommandIs, ChangeIs, ExternalIs DEF Next

LEMMA StartIs ==
    ASSUME NEW disk \in SUBSET Path, NEW args \in ArgList \cup {<<>>},
           ~Failed(Started(disk, args)), gs = Started(disk, args)
    PROVE  IInv
<1> DEFINE c == [[NoScr EXCEPT !.argv = args] EXCEPT !.pos = IF args = <<>> THEN 0 ELSE 1]
           C == [[r \in Scr |-> NoScr] EXCEPT ![1] = c]
           S == [disk |-> disk, lock |-> [p \in Path |-> None], temps |-> {}, frefq |-> <<>>,
                 fref |-> [f \in Fref |-> NoFref], exf |-> [e \in Exf |-> NoExf],
                 scr |-> [r \in Scr |-> NoScr], dq |-> <<1>>, hq |-> <<>>, cur |-> 1,
                 rc |-> 0, forced |-> FALSE, lost |-> {}, clobbered |-> {},
                 broken |-> FALSE, cmds |-> 0]
           T == [S EXCEPT !.scr = C]
           n == IF args = <<>> THEN Null ELSE args[1]
           A == FileAdd(T, n).st
           f == FileAdd(T, n).f
           U == FileInit(A, 1, f, FALSE)
<1>1. 1 \in Scr /\ n \in Path \cup {Null} /\ FALSE \in BOOLEAN /\ args \in Seq(Path \cup {Null})
      /\ (args # <<>> => 1 <= Len(args))
  <2>1. CASE args = <<>>
    <3>1. <<>> \in Seq(Path \cup {Null})
      BY EmptyIs
    <3> QED BY <2>1, <3>1, Constants
  <2>2. CASE args # <<>>
    <3>1. args \in Seq(Path \cup {Null}) /\ 1 <= Len(args) /\ args[1] \in Path
      BY <2>2, ArgsAre
    <3> QED BY <2>2, <3>1, Constants
  <2> QED BY <2>1, <2>2
<1>2. Started(disk, args) = U
  <2>1. [S EXCEPT !.scr[1].argv = args, !.scr[1].pos = IF args = <<>> THEN 0 ELSE 1] = T
    <3> DEFINE N == [r \in Scr |-> NoScr]
               pos == IF args = <<>> THEN 0 ELSE 1
    <3>1. N \in [Scr -> ScrRec] /\ N[1] = NoScr /\ N = S.scr
      BY <1>1, Nothings
    <3>2. [N EXCEPT ![1].argv = args, ![1].pos = pos] = [N EXCEPT ![1] = c]
      <4> HIDE DEF N
      <4>1. c = [[N[1] EXCEPT !.argv = args] EXCEPT !.pos = pos]
        BY <3>1
      <4> HIDE DEF c, pos
      <4> QED BY <1>1, <3>1, <4>1
    <3> HIDE DEF N, c, pos
    <3> QED BY <3>1, <3>2 DEF pos, N
  <2> HIDE DEF T
  <2> QED BY <2>1 DEF Started
<1>3. c \in ScrRec /\ c.ep = None /\ c.frp = None /\ c.pos <= Len(c.argv)
  <2> DEFINE pos == IF args = <<>> THEN 0 ELSE 1
             N == NoScr
  <2>1. N \in ScrRec /\ N.ep = None /\ N.frp = None
    BY Nothings
  <2>2. pos \in Nat /\ pos <= Len(args)
    <3>1. CASE args = <<>>
      BY <3>1
    <3>2. CASE args # <<>>
      BY <1>1, <3>2
    <3> QED BY <3>1, <3>2
  <2>3. c = [[N EXCEPT !.argv = args] EXCEPT !.pos = pos]
    OBVIOUS
  <2> HIDE DEF c, N, pos
  <2>4. c \in ScrRec
    BY <1>1, <2>1, <2>2, <2>3 DEF ScrRec
  <2>5. c.ep = N.ep /\ c.frp = N.frp /\ c.argv = args /\ c.pos = pos
    BY <2>1, <2>3 DEF ScrRec
  <2> QED BY <2>1, <2>2, <2>4, <2>5
<1> HIDE DEF c
<1>4. C \in [Scr -> ScrRec] /\ \A r \in Scr : C[r] = IF r = 1 THEN c ELSE NoScr
  BY <1>1, <1>3, Nothings
<1> HIDE DEF C
<1>5. /\ T = [S EXCEPT !.scr = C] /\ T.disk = disk /\ T.temps = {} /\ T.frefq = <<>>
      /\ T.fref = [g \in Fref |-> NoFref] /\ T.exf = [e \in Exf |-> NoExf] /\ T.scr = C
      /\ T.dq = <<1>> /\ T.hq = <<>> /\ T.cur = 1 /\ T.rc = 0 /\ T.forced = FALSE
      /\ T.lost = {} /\ T.clobbered = {} /\ T.broken = FALSE
  OBVIOUS
<1>6. T \in State
  <2>1. /\ [p \in Path |-> None] \in [Path -> Exf \cup {None, Other}]
        /\ [g \in Fref |-> NoFref] \in [Fref -> FrefRec]
        /\ [e \in Exf |-> NoExf] \in [Exf -> ExfRec]
    BY Nothings
  <2>2. /\ <<>> \in Seq(Fref) /\ <<1>> \in Seq(Scr) /\ <<>> \in Seq(Scr)
    BY <1>1, EmptyIs, OneIs
  <2> QED BY <1>1, <1>4, <2>1, <2>2 DEF State
<1> HIDE DEF T, S
<1>7. \A r \in Scr : T.scr[r].ep = None /\ T.scr[r].frp = None /\ T.scr[r].pos <= Len(T.scr[r].argv)
  BY <1>3, <1>4, <1>5, Nothings
<1>8. Shown(T) = {}
  BY <1>7 DEF Shown
<1>9. Sound(T, {})
  <2>1. Screened(T)
    BY <1>7 DEF Screened
  <2>2. Counted(T)
    <3>1. \A e \in Exf : Users(T, e) = {}
      BY <1>7, Constants DEF Users
    <3>2. {} \in SUBSET Scr
      OBVIOUS
    <3>3. Cardinality({}) = 0
      BY <3>2, Sized
    <3>4. \A e \in Exf : T.exf[e].refcnt = 0
      BY <1>5, Nothings
    <3> QED BY <3>1, <3>3, <3>4 DEF Counted
  <2>3. Listed(T) /\ Together(T) /\ Used(T, {})
    BY <1>5, <1>8 DEF Listed, Together, Used
  <2>4. \A g \in Fref : T.fref[g].tname = Null /\ T.fref[g].flags = {}
    BY <1>5, Nothings
  <2>5. Named(T) /\ Guarded(T)
    BY <1>5, <1>8, <2>4 DEF Named, Guarded
  <2>6. Saw(T)
    BY <1>5, Nothings DEF Saw
  <2> QED BY <1>6, <2>1, <2>2, <2>3, <2>5, <2>6 DEF Sound
<1> HIDE DEF n
<1>10. f # None
  <2> DEFINE q == Without(T.frefq, {})
             fresh == Fref \ (Range(q) \cup {T.scr[r].frp : r \in Scr})
  <2>1. Range(q) = {}
    <3>1. <<>> \in Seq(Fref) /\ Range(<<>>) = {}
      BY EmptyIs
    <3> DEFINE z == <<>>
    <3> HIDE DEF z
    <3>2. z \in Seq(Fref) => Range(Without(z, {})) = Range(z) \ {}
      BY WithoutIs
    <3>3. q = Without(z, {})
      BY <1>5 DEF z
    <3> QED BY <3>1, <3>2, <3>3 DEF z
  <2>2. fresh = Fref
    BY <1>7, <2>1, Constants
  <2>3. Least(fresh) \in Fref
    <3>1. Fref # {} /\ Fref \subseteq Nat
      BY BoundAssumption, Constants DEF Fref
    <3> QED BY <2>2, <3>1, LeastOne
  <2>4. f = Least(fresh)
    <3> DEFINE at == {i \in DOMAIN T.frefq : T.fref[T.frefq[i]].name = n}
    <3>1. at = {}
      BY <1>5
    <3>2. Len(T.frefq) + 1 = 1 /\ 1..(1 - 1) = {}
      BY <1>5
    <3> DEFINE dead == IF n = Null THEN {}
                       ELSE {T.frefq[i] : i \in {j \in 1..(1 - 1) :
                                                  T.fref[T.frefq[j]].name = Null}}
    <3>3. dead = {}
      BY <3>2
    <3> DEFINE D == [T EXCEPT !.frefq = Without(@, {}),
                              !.fref = [g \in Fref |-> IF g \in {} THEN NoFref ELSE T.fref[g]]]
               free == Fref \ (Range(D.frefq) \cup {T.scr[r].frp : r \in Scr})
    <3>4. D.frefq = q
      BY <1>6 DEF State
    <3>5. free = fresh
      BY <3>4
    <3>6. fresh # {}
      <4>1. 1 \in Fref
        BY ONLY BoundAssumption DEF Fref
      <4> HIDE DEF fresh
      <4> QED BY <2>2, <4>1
    <3> HIDE DEF q, fresh
    <3>7. FileAdd(T, n).f = Least(free)
      BY <3>1, <3>2, <3>3, <3>5, <3>6 DEF FileAdd
    <3> QED BY <3>5, <3>7
  <2> QED BY <2>3, <2>4, Constants
<1>11. /\ Sound(A, {}) /\ A.scr = T.scr /\ SameQueues(T, A) /\ SameTold(T, A)
       /\ f \in Fref /\ f \in Range(A.frefq)
  BY <1>1, <1>5, <1>9, <1>10, FileAddIs
<1> HIDE DEF A, f
<1>12. Inits(A, U, 1)
  <2>1. ~A.broken /\ ~Failed(A) /\ A.scr[1].ep = None
    BY <1>1, <1>5, <1>7, <1>11 DEF SameTold, Failed
  <2> QED BY <1>1, <1>11, <2>1, FileInitIs
<1>13. gs = U /\ ~Failed(U)
  BY <1>2
<1> HIDE DEF U
<1>14. /\ Sound(U, {}) /\ U.dq = <<1>> /\ U.hq = <<>> /\ U.cur = 1 /\ (Clean(A) => Clean(U))
       /\ U.scr[1].ep # None /\ \A r \in Scr : r # 1 => U.scr[r].ep = None
  BY <1>5, <1>7, <1>11, <1>12, <1>13 DEF Inits, SameQueues
<1>15. Clean(U)
  BY <1>5, <1>11, <1>14 DEF Clean, SameTold
<1>16. Range(U.dq) = {1} /\ Range(U.hq) = {} /\ IsInjective(U.dq)
  BY <1>1, <1>14, OneIs, EmptyIs
<1>17. Shown(U) = {1} /\ Linked(U) = {1}
  BY <1>1, <1>14, <1>16 DEF Shown, Linked
<1>18. Queued(U)
  BY <1>14, <1>16, <1>17 DEF Queued
<1> QED BY <1>13, <1>14, <1>15, <1>18 DEF IInv

LEMMA InitIs ==
    ASSUME Init
    PROVE  IInv
<1>1. PICK there \in SUBSET (Name \ (ReadOnly \cup Unreadable)), args \in ArgList \cup {<<>>} :
        /\ gs = Started(there \cup ReadOnly \cup Unreadable, args)
        /\ ~Failed(gs)
  BY DEF Init
<1>2. there \cup ReadOnly \cup Unreadable \in SUBSET Path
  BY NameAssumption, Constants
<1> QED BY <1>1, <1>2, StartIs

-----------------------------------------------------------------------------
(* What holds                                                              *)

\* The invariant: what the screens show, what the FREFs and EXFs say and which
\* files there are fit together, and text no file holds is guarded.
THEOREM InvariantHolds == Spec => []IInv
<1>1. Init => IInv
  BY InitIs
<1>2. IInv /\ [Next]_gs => IInv'
  <2>1. CASE Next
    BY <2>1, StepKeeps
  <2>2. CASE UNCHANGED gs
    <3>1. ASSUME IInv, gs' = gs
          PROVE  IInv'
      BY <3>1 DEF IInv
    <3> QED BY <2>2, <3>1
  <2> QED BY <2>1, <2>2
<1> QED BY <1>1, <1>2, PTL DEF Spec

\* A command without ! never drops the only copy of a text (file_m1 to file_m3,
\* file_end): not for any number of screens, FREFs, EXFs and files.
THEOREM TextIsKept == Spec => []NothingLost
<1>1. IInv => NothingLost
  BY DEF IInv, Clean, NothingLost
<1> QED BY <1>1, InvariantHolds, PTL

\* Without ! file_write() overwrites no file whose contents the session has not
\* read or written itself.
THEOREM OthersAreKept == Spec => []NoOverwrite
<1>1. IInv => NoOverwrite
  BY DEF IInv, Clean, NoOverwrite
<1> QED BY <1>1, InvariantHolds, PTL

\* EXFs are counted by the screens that show them, temporary files are there for
\* the FREF of an open screen, and what a screen shows is listed and named.
THEOREM FilesAreListed == Spec => []FilesListed
<1>1. IInv => FilesListed
  <2> SUFFICES ASSUME IInv
               PROVE  FilesListed
    OBVIOUS
  <2>1. Shown(gs) = Linked(gs) /\ Shown(gs) \subseteq Scr
    BY DEF IInv, Queued, Shown
  <2>2. RefcntCountsScreens
    BY <2>1 DEF IInv, Sound, Counted, Shown, RefcntCountsScreens
  <2>3. TempsInUse
    <3> SUFFICES ASSUME NEW t \in gs.temps
                 PROVE  \E s \in Linked(gs) : /\ gs.scr[s].frp # None
                                              /\ gs.fref[gs.scr[s].frp].tname = t
      BY DEF TempsInUse
    <3>1. PICK f \in {gs.scr[s].frp : s \in Shown(gs)} : f \in Fref /\ gs.fref[f].tname = t
      BY DEF IInv, Sound, Used
    <3>2. PICK s \in Shown(gs) : f = gs.scr[s].frp
      BY <3>1
    <3> QED BY <2>1, <3>1, <3>2, Constants
  <2>4. FrefsListed
    BY <2>1 DEF IInv, Sound, Listed, FrefOf, FrefsListed
  <2> QED BY <2>2, <2>3, <2>4 DEF FilesListed
<1> QED BY <1>1, InvariantHolds, PTL

\* A command that fails leaves every screen the file it had: file_init() lets go
\* of the old file only when the new one is there.
THEOREM FailedCommandsKeepFiles == Spec => FailureKeepsFiles
<1>1. IInv /\ [Next]_gs => [Keeps]_gs
  BY StepKeeps
<1>2. [Keeps]_gs => [gs'.rc # 0 => \A s \in Linked(gs) : /\ gs'.scr[s].ep = gs.scr[s].ep
                                                         /\ s \in Linked(gs')]_gs
  BY DEF Keeps
<1> QED BY <1>1, <1>2, InvariantHolds, PTL DEF Spec, FailureKeepsFiles
=============================================================================
