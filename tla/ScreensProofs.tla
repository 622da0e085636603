--------------------------- MODULE ScreensProofs ---------------------------
(***************************************************************************)
(* Proofs about Screens: each screen is in exactly one queue, the rows of  *)
(* the displayed ones tile the terminal, and each can show its text.       *)
(*                                                                         *)
(* The queues come first (QueuesSound), for they say where each screen is; *)
(* the geometry is then a fact about the neighbours in dq (Tiled), and the *)
(* rows of text a fact about one screen (Fits).                            *)
(***************************************************************************)
EXTENDS Screens, SequenceTheorems, TLAPS

-----------------------------------------------------------------------------
(* Queues                                                                  *)

Elems(q) == {q[i] : i \in 1..Len(q)}

(* A queue of screens that holds no screen twice.                          *)
Queue(q) == /\ q \in Seq(Screen)
            /\ \A i, j \in 1..Len(q) : q[i] = q[j] => i = j

(* r is q with n inserted at i.                                            *)
Between(q, i, n, r) ==
  /\ i \in 1..(Len(q) + 1)
  /\ Len(r) = Len(q) + 1
  /\ r[i] = n
  /\ \A j \in 1..Len(q) : r[IF j < i THEN j ELSE j + 1] = q[j]

-----------------------------------------------------------------------------
(* The inductive invariant                                                 *)

(* What each screen may be: its geometry, or nothing.                      *)
Geometries == [Screen -> Geometry \cup {NoScreen}]

Types ==
  /\ scr \in Geometries
  /\ cur \in Screen \cup {NoScreen}
  /\ vi \in BOOLEAN

Queues ==
  /\ Queue(dq) /\ Queue(hq)
  /\ Elems(dq) \cap Elems(hq) = {}
  /\ \A s \in Screen : scr[s] \in Geometry <=> s \in Elems(dq) \cup Elems(hq)
  /\ IF cur = NoScreen THEN dq = <<>>
     ELSE cur \in Elems(dq) /\ (vi \/ dq = <<cur>>)
  /\ vi => \A s \in Elems(dq) : scr[s].map = TRUE

QueuesSound == Types /\ Queues

(* The rows from the first of q to the last, in the geometry g.  Only sums *)
(* of integers are compared: that each screen has rows is said by Fits.    *)
Tiled(q, g) ==
  /\ q # <<>> => g[q[1]].woff = 0 /\ g[q[Len(q)]].woff + g[q[Len(q)]].rows = Lines
  /\ \A i \in 1..(Len(q) - 1) : g[q[i]].woff + g[q[i]].rows = g[q[i + 1]].woff

Tiling == vi => Tiled(dq, scr)

(* The rows of text that a displayed screen can show.                      *)
Fits(x) ==
  /\ x.woff >= 0 /\ x.rows >= 2 /\ x.woff + x.rows <= Lines
  /\ x.tmin >= 1 /\ x.tmin <= x.trows /\ x.trows <= x.tmax /\ x.tmax = x.rows - 1

TextFits ==
  /\ \A s \in Elems(dq) \cup Elems(hq) : scr[s].window >= 1
  /\ vi => \A s \in Elems(dq) : Fits(scr[s])

IInv == QueuesSound /\ Tiling /\ (RegularOnly => TextFits)

-----------------------------------------------------------------------------
(* Facts about queues.                                                     *)

(* InsertAt(), as vs_split() links a new screen next to the old one.       *)
LEMMA InsertIs ==
  ASSUME NEW q \in Seq(Screen), NEW i \in 1..(Len(q) + 1), NEW n \in Screen
  PROVE  InsertAt(q, i, n) \in Seq(Screen) /\ Between(q, i, n, InsertAt(q, i, n))
<1> DEFINE a == SubSeq(q, 1, i - 1)
           b == SubSeq(q, i, Len(q))
           p == a \o <<n>>
           r == InsertAt(q, i, n)
<1>0. Len(q) \in Nat
  BY LenProperties
<1>1. /\ a \in Seq(Screen) /\ Len(a) = i - 1
      /\ \A j \in 1..(i - 1) : a[j] = q[j]
  BY <1>0, SubSeqProperties
<1>2. /\ b \in Seq(Screen) /\ Len(b) = Len(q) - i + 1
      /\ \A j \in 1..(Len(q) - i + 1) : b[j] = q[i + j - 1]
  BY <1>0, SubSeqProperties
<1>3. <<n>> \in Seq(Screen) /\ Len(<<n>>) = 1 /\ <<n>>[1] = n
  OBVIOUS
<1>4. /\ p \in Seq(Screen) /\ Len(p) = i
      /\ \A j \in 1..i : p[j] = IF j < i THEN q[j] ELSE n
  <2>1. /\ p \in Seq(Screen) /\ Len(p) = Len(a) + Len(<<n>>)
        /\ \A j \in 1..(Len(a) + Len(<<n>>)) :
             p[j] = IF j <= Len(a) THEN a[j] ELSE <<n>>[j - Len(a)]
    <3> HIDE DEF a
    <3> QED BY <1>1, <1>3, ConcatProperties
  <2> HIDE DEF p, a
  <2> QED BY <1>0, <1>1, <1>3, <2>1
<1>5. r = p \o b
  BY DEF InsertAt
<1>6. /\ r \in Seq(Screen) /\ Len(r) = Len(p) + Len(b)
      /\ \A j \in 1..(Len(p) + Len(b)) : r[j] = IF j <= Len(p) THEN p[j] ELSE b[j - Len(p)]
  <2> HIDE DEF p, b, r
  <2> QED BY <1>2, <1>4, <1>5, ConcatProperties
<1> HIDE DEF p, b, a, r
<1>7. Len(r) = Len(q) + 1 /\ r[i] = n
  BY <1>0, <1>2, <1>4, <1>6
<1>8. ASSUME NEW j \in 1..Len(q)
      PROVE  r[IF j < i THEN j ELSE j + 1] = q[j]
  <2>1. CASE j < i
    BY <2>1, <1>0, <1>2, <1>4, <1>6
  <2>2. CASE ~(j < i)
    <3>1. r[j + 1] = b[j + 1 - i]
      BY <2>2, <1>0, <1>2, <1>4, <1>6
    <3>2. j + 1 - i \in 1..(Len(q) - i + 1) /\ i + (j + 1 - i) - 1 = j
      BY <2>2, <1>0
    <3> QED BY <3>1, <3>2, <2>2, <1>2
  <2> QED BY <2>1, <2>2
<1> QED BY <1>6, <1>7, <1>8 DEF Between, r

(* RemoveAt(), as a queue unlinks a screen.                                *)
LEMMA RemoveIs ==
  ASSUME NEW r \in Seq(Screen), NEW i \in 1..Len(r)
  PROVE  RemoveAt(r, i) \in Seq(Screen) /\ Between(RemoveAt(r, i), i, r[i], r)
<1> DEFINE a == SubSeq(r, 1, i - 1)
           b == SubSeq(r, i + 1, Len(r))
           q == RemoveAt(r, i)
<1>0. Len(r) \in Nat
  BY LenProperties
<1>1. /\ a \in Seq(Screen) /\ Len(a) = i - 1
      /\ \A j \in 1..(i - 1) : a[j] = r[j]
  BY <1>0, SubSeqProperties
<1>2. /\ b \in Seq(Screen) /\ Len(b) = Len(r) - i
      /\ \A j \in 1..(Len(r) - i) : b[j] = r[i + j]
  <2>1. i + 1 \in 1..(Len(r) + 1)
    BY <1>0
  <2>2. /\ b \in Seq(Screen)
        /\ Len(b) = IF i + 1 <= Len(r) THEN Len(r) - (i + 1) + 1 ELSE 0
        /\ \A j \in 1..(Len(r) - (i + 1) + 1) : b[j] = r[(i + 1) + j - 1]
    BY <1>0, <2>1, SubSeqProperties
  <2>3. Len(b) = Len(r) - i
    BY <1>0, <2>2
  <2>4. ASSUME NEW j \in 1..(Len(r) - i)
        PROVE  b[j] = r[i + j]
    <3>1. j \in 1..(Len(r) - (i + 1) + 1) /\ (i + 1) + j - 1 = i + j
      BY <1>0
    <3> QED BY <3>1, <2>2
  <2> QED BY <2>2, <2>3, <2>4
<1>3. q = a \o b
  BY DEF RemoveAt
<1>4. /\ q \in Seq(Screen) /\ Len(q) = Len(a) + Len(b)
      /\ \A j \in 1..(Len(a) + Len(b)) : q[j] = IF j <= Len(a) THEN a[j] ELSE b[j - Len(a)]
  <2> HIDE DEF a, b, q
  <2> QED BY <1>1, <1>2, <1>3, ConcatProperties
<1> HIDE DEF a, b, q
<1>5. Len(q) = Len(r) - 1
  BY <1>0, <1>1, <1>2, <1>4
<1>6. ASSUME NEW j \in 1..Len(q)
      PROVE  r[IF j < i THEN j ELSE j + 1] = q[j]
  <2>1. CASE j < i
    BY <2>1, <1>0, <1>1, <1>2, <1>4, <1>5
  <2>2. CASE ~(j < i)
    <3>1. q[j] = b[j - (i - 1)]
      BY <2>2, <1>0, <1>1, <1>2, <1>4, <1>5
    <3>2. j - (i - 1) \in 1..(Len(r) - i) /\ i + (j - (i - 1)) = j + 1
      BY <2>2, <1>0, <1>5
    <3> QED BY <3>1, <3>2, <2>2, <1>2
  <2> QED BY <2>1, <2>2
<1>7. i \in 1..(Len(q) + 1) /\ Len(r) = Len(q) + 1
  BY <1>0, <1>5
<1> QED BY <1>4, <1>6, <1>7 DEF Between, q

(* Inserting a screen that is not there keeps a queue one.                 *)
LEMMA InsertedQueue ==
  ASSUME NEW q, Queue(q), NEW i, NEW n, n \notin Elems(q), NEW r \in Seq(Screen), Between(q, i, n, r)
  PROVE  Queue(r) /\ Elems(r) = Elems(q) \cup {n}
<1> DEFINE to(j) == IF j < i THEN j ELSE j + 1
<1>0. /\ Len(q) \in Nat /\ i \in 1..(Len(q) + 1) /\ Len(r) = Len(q) + 1 /\ r[i] = n
      /\ \A j \in 1..Len(q) : r[to(j)] = q[j]
  BY LenProperties DEF Queue, Between
<1>1. ASSUME NEW k \in 1..Len(r), k # i
      PROVE  \E j \in 1..Len(q) : k = to(j) /\ r[k] = q[j]
  <2>1. CASE k < i
    <3>1. k \in 1..Len(q) /\ to(k) = k
      BY <1>0, <2>1
    <3> QED BY <3>1, <1>0
  <2>2. CASE k > i
    <3>1. k - 1 \in 1..Len(q) /\ to(k - 1) = k
      BY <1>0, <2>2
    <3> QED BY <3>1, <1>0
  <2> QED BY <1>0, <1>1, <2>1, <2>2
<1>2. ASSUME NEW j \in 1..Len(q)
      PROVE  to(j) \in 1..Len(r) /\ to(j) # i
  BY <1>0
<1>3. ASSUME NEW k \in 1..Len(r), NEW m \in 1..Len(r), r[k] = r[m]
      PROVE  k = m
  <2>1. ASSUME NEW x \in 1..Len(r), x # i
        PROVE  r[x] # n
    BY <1>1, <2>1 DEF Elems
  <2>2. CASE k = i \/ m = i
    BY <2>1, <2>2, <1>0, <1>3
  <2>3. CASE k # i /\ m # i
    <3>1. PICK j \in 1..Len(q) : k = to(j) /\ r[k] = q[j]
      BY <1>1, <2>3
    <3>2. PICK l \in 1..Len(q) : m = to(l) /\ r[m] = q[l]
      BY <1>1, <2>3
    <3>3. j = l
      BY <3>1, <3>2, <1>3 DEF Queue
    <3> QED BY <3>1, <3>2, <3>3
  <2> QED BY <2>2, <2>3
<1>4. Queue(r)
  BY <1>3 DEF Queue
<1>5. ASSUME NEW x \in Elems(r)
      PROVE  x \in Elems(q) \cup {n}
  BY <1>0, <1>1 DEF Elems
<1>6. ASSUME NEW x \in Elems(q) \cup {n}
      PROVE  x \in Elems(r)
  <2> HIDE DEF to
  <2>1. CASE x = n
    BY <2>1, <1>0 DEF Elems
  <2>2. CASE x \in Elems(q)
    <3>1. PICK j \in 1..Len(q) : x = q[j]
      BY <2>2 DEF Elems
    <3>2. to(j) \in 1..Len(r) /\ r[to(j)] = x
      BY <3>1, <1>0, <1>2
    <3> QED BY <3>2 DEF Elems
  <2> QED BY <1>6, <2>1, <2>2
<1> QED BY <1>4, <1>5, <1>6

(* Taking a screen out of a queue leaves a queue without it.               *)
LEMMA RemovedQueue ==
  ASSUME NEW r, Queue(r), NEW i, NEW q \in Seq(Screen), Between(q, i, r[i], r)
  PROVE  /\ Queue(q) /\ Elems(r) = Elems(q) \cup {r[i]} /\ r[i] \notin Elems(q)
         /\ Len(q) = Len(r) - 1
<1> DEFINE to(j) == IF j < i THEN j ELSE j + 1
<1>0. /\ Len(q) \in Nat /\ i \in 1..(Len(q) + 1) /\ Len(r) = Len(q) + 1
      /\ \A j \in 1..Len(q) : r[to(j)] = q[j]
  BY LenProperties DEF Queue, Between
<1>1. ASSUME NEW j \in 1..Len(q)
      PROVE  to(j) \in 1..Len(r) /\ to(j) # i
  BY <1>0
<1>2. ASSUME NEW j \in 1..Len(q), NEW l \in 1..Len(q), to(j) = to(l)
      PROVE  j = l
  BY <1>0, <1>2
<1>3. r[i] \notin Elems(q)
  <2> SUFFICES ASSUME NEW j \in 1..Len(q), q[j] = r[i]
               PROVE  FALSE
    BY DEF Elems
  <2> HIDE DEF to
  <2>1. r[to(j)] = r[i] /\ to(j) \in 1..Len(r) /\ to(j) # i /\ i \in 1..Len(r)
    BY <1>0, <1>1
  <2> QED BY <2>1 DEF Queue
<1>4. Queue(q)
  <2> SUFFICES ASSUME NEW j \in 1..Len(q), NEW l \in 1..Len(q), q[j] = q[l]
               PROVE  j = l
    BY DEF Queue
  <2> HIDE DEF to
  <2>1. r[to(j)] = r[to(l)] /\ to(j) \in 1..Len(r) /\ to(l) \in 1..Len(r)
    BY <1>0, <1>1
  <2>2. to(j) = to(l)
    BY <2>1 DEF Queue
  <2> QED BY <2>2, <1>2
<1>5. Elems(r) = Elems(q) \cup {r[i]}
  BY <1>3, <1>4, InsertedQueue DEF Queue
<1> QED BY <1>0, <1>3, <1>4, <1>5

(* Where a screen of the queue is.                                         *)
LEMMA AtIs ==
  ASSUME NEW q, Queue(q), NEW s \in Elems(q)
  PROVE  /\ At(q, s) \in 1..Len(q) /\ q[At(q, s)] = s /\ Len(q) \in Nat
         /\ \A i \in 1..Len(q) : q[i] = s => i = At(q, s)
<1>1. DOMAIN q = 1..Len(q) /\ Len(q) \in Nat
  BY LenProperties DEF Queue
<1>2. \E i \in DOMAIN q : q[i] = s
  BY <1>1 DEF Elems
<1>3. At(q, s) \in DOMAIN q /\ q[At(q, s)] = s
  BY <1>2 DEF At
<1> QED BY <1>1, <1>3 DEF Queue

(* Append(): a screen at the end of the hidden queue.                      *)
LEMMA AppendedQueue ==
  ASSUME NEW q, Queue(q), NEW n \in Screen, n \notin Elems(q)
  PROVE  /\ Queue(Append(q, n)) /\ Elems(Append(q, n)) = Elems(q) \cup {n}
<1> DEFINE r == Append(q, n)
<1>1. /\ r \in Seq(Screen) /\ Len(r) = Len(q) + 1 /\ Len(q) \in Nat
      /\ r[Len(q) + 1] = n
      /\ \A j \in 1..Len(q) : r[j] = q[j]
  BY AppendProperties, LenProperties DEF Queue
<1> HIDE DEF r
<1>2. Between(q, Len(q) + 1, n, r)
  BY <1>1 DEF Between
<1>3. Queue(r) /\ Elems(r) = Elems(q) \cup {n}
  BY <1>1, <1>2, InsertedQueue
<1> QED BY <1>3 DEF r

(* \o: v_dtoh() moves the displayed screens behind the hidden ones.        *)
LEMMA JoinedQueue ==
  ASSUME NEW q, Queue(q), NEW p, Queue(p), Elems(q) \cap Elems(p) = {}
  PROVE  Queue(q \o p) /\ Elems(q \o p) = Elems(q) \cup Elems(p)
<1> DEFINE r == q \o p
<1>1. /\ r \in Seq(Screen) /\ Len(r) = Len(q) + Len(p) /\ Len(q) \in Nat /\ Len(p) \in Nat
      /\ \A j \in 1..(Len(q) + Len(p)) : r[j] = IF j <= Len(q) THEN q[j] ELSE p[j - Len(q)]
  BY ConcatProperties, LenProperties DEF Queue
<1> HIDE DEF r
<1>2. ASSUME NEW j \in 1..Len(r)
      PROVE  \/ j \in 1..Len(q) /\ r[j] = q[j] /\ r[j] \in Elems(q)
             \/ j - Len(q) \in 1..Len(p) /\ r[j] = p[j - Len(q)] /\ r[j] \in Elems(p)
  BY <1>1 DEF Elems
<1>3. ASSUME NEW j \in 1..Len(r), NEW l \in 1..Len(r), r[j] = r[l]
      PROVE  j = l
  <2>1. CASE j \in 1..Len(q) /\ l \in 1..Len(q)
    BY <2>1, <1>1, <1>3 DEF Queue
  <2>2. CASE j \notin 1..Len(q) /\ l \notin 1..Len(q)
    <3>1. j - Len(q) \in 1..Len(p) /\ l - Len(q) \in 1..Len(p) /\ p[j - Len(q)] = p[l - Len(q)]
      BY <2>2, <1>2, <1>3
    <3>2. j - Len(q) = l - Len(q)
      BY <3>1 DEF Queue
    <3> QED BY <3>2, <1>1
  <2>3. CASE ~(j \in 1..Len(q) <=> l \in 1..Len(q))
    BY <2>3, <1>2, <1>3
  <2> QED BY <2>1, <2>2, <2>3
<1>4. ASSUME NEW j \in 1..Len(q)
      PROVE  j \in 1..Len(r) /\ r[j] = q[j]
  BY <1>1
<1>5. ASSUME NEW j \in 1..Len(p)
      PROVE  j + Len(q) \in 1..Len(r) /\ r[j + Len(q)] = p[j]
  <2>1. j + Len(q) \in 1..Len(r) /\ ~(j + Len(q) <= Len(q)) /\ j + Len(q) - Len(q) = j
    BY <1>1
  <2> QED BY <2>1, <1>1
<1>6. Elems(r) \subseteq Elems(q) \cup Elems(p)
  BY <1>2 DEF Elems
<1>7. Elems(q) \subseteq Elems(r)
  BY <1>4 DEF Elems
<1>8. Elems(p) \subseteq Elems(r)
  BY <1>5 DEF Elems
<1>9. Queue(r)
  BY <1>1, <1>3 DEF Queue
<1> QED BY <1>6, <1>7, <1>8, <1>9 DEF r

(* Tail(): screen_next() takes the first hidden screen.                    *)
LEMMA TailQueue ==
  ASSUME NEW q, Queue(q), q # <<>>
  PROVE  /\ Queue(Tail(q)) /\ q[1] \in Screen /\ q[1] \notin Elems(Tail(q))
         /\ Elems(q) = Elems(Tail(q)) \cup {q[1]}
<1>1. /\ Tail(q) \in Seq(Screen) /\ Len(Tail(q)) = Len(q) - 1 /\ Len(q) \in Nat /\ Len(q) >= 1
      /\ \A j \in 1..Len(Tail(q)) : Tail(q)[j] = q[j + 1]
  BY HeadTailProperties, LenProperties, EmptySeq DEF Queue
<1>2. Between(Tail(q), 1, q[1], q)
  BY <1>1 DEF Between
<1>3. q[1] \in Screen
  BY <1>1, ElementOfSeq DEF Queue
<1> QED BY <1>1, <1>2, <1>3, RemovedQueue

(* ReplaceAt(): a hidden screen in the place of a displayed one.           *)
LEMMA ReplacedQueue ==
  ASSUME NEW q, Queue(q), NEW i \in 1..Len(q), NEW n \in Screen, n \notin Elems(q)
  PROVE  /\ Queue(ReplaceAt(q, i, n))
         /\ Elems(ReplaceAt(q, i, n)) = (Elems(q) \ {q[i]}) \cup {n}
         /\ Len(ReplaceAt(q, i, n)) = Len(q)
         /\ \A j \in 1..Len(q) : ReplaceAt(q, i, n)[j] = IF j = i THEN n ELSE q[j]
<1> DEFINE r == ReplaceAt(q, i, n)
<1>1. /\ r \in Seq(Screen) /\ Len(r) = Len(q) /\ Len(q) \in Nat
      /\ \A j \in 1..Len(q) : r[j] = IF j = i THEN n ELSE q[j]
  BY ExceptSeq, LenProperties DEF ReplaceAt, Queue
<1> HIDE DEF r
<1>2. \A j \in 1..Len(q) : q[j] # n
  BY DEF Elems
<1>3. Queue(r)
  BY <1>1, <1>2 DEF Queue
<1>4. Elems(r) \subseteq (Elems(q) \ {q[i]}) \cup {n}
  BY <1>1 DEF Elems, Queue
<1>5. (Elems(q) \ {q[i]}) \cup {n} \subseteq Elems(r)
  BY <1>1 DEF Elems
<1> QED BY <1>1, <1>3, <1>4, <1>5 DEF r

(* A queue of one screen, and of none.                                     *)
LEMMA OneQueue ==
  ASSUME NEW s \in Screen
  PROVE  Queue(<<s>>) /\ Elems(<<s>>) = {s} /\ Len(<<s>>) = 1 /\ <<s>>[1] = s /\ <<s>> # <<>>
<1>1. <<s>> \in Seq(Screen) /\ Len(<<s>>) = 1 /\ <<s>>[1] = s
  OBVIOUS
<1>2. Queue(<<s>>)
  BY <1>1 DEF Queue
<1>3. Elems(<<s>>) = {s}
  BY <1>1 DEF Elems
<1> QED BY <1>1, <1>2, <1>3

LEMMA NoQueue == Queue(<<>>) /\ Elems(<<>>) = {}
<1>1. <<>> \in Seq(Screen) /\ Len(<<>>) = 0 /\ 1..0 = {}
  OBVIOUS
<1> QED BY <1>1 DEF Queue, Elems

(* A queue that holds a screen is not empty, and the members are screens.  *)
LEMMA Members ==
  ASSUME NEW q, Queue(q)
  PROVE  /\ Elems(q) \subseteq Screen /\ Len(q) \in Nat /\ DOMAIN q = 1..Len(q)
         /\ \A i \in 1..Len(q) : q[i] \in Elems(q)
         /\ q = <<>> <=> Elems(q) = {}
<1>1. /\ Len(q) \in Nat /\ DOMAIN q = 1..Len(q)
      /\ \A i \in 1..Len(q) : q[i] \in Screen
  BY LenProperties, ElementOfSeq DEF Queue
<1>2. q = <<>> <=> Len(q) = 0
  BY EmptySeq DEF Queue
<1>3. q # <<>> => 1 \in 1..Len(q)
  BY <1>1, <1>2
<1> QED BY <1>1, <1>2, <1>3, NoQueue DEF Elems

-----------------------------------------------------------------------------
(* Facts about the tiling.                                                 *)

Measured(q, g) == \A s \in Elems(q) : g[s].woff \in Int /\ g[s].rows \in Int

SameRows(x, y) == x.woff = y.woff /\ x.rows = y.rows

(* The rows of q[k] are cut in two, those of r[k] and r[k + 1]; the others *)
(* are where they were.                                                    *)
Cut(q, g, k, r, h) ==
  /\ k \in 1..Len(q) /\ Len(r) = Len(q) + 1
  /\ \A j \in 1..(k - 1) : SameRows(h[r[j]], g[q[j]])
  /\ \A j \in (k + 1)..Len(q) : SameRows(h[r[j + 1]], g[q[j]])
  /\ h[r[k]].woff = g[q[k]].woff
  /\ h[r[k + 1]].woff + h[r[k + 1]].rows = g[q[k]].woff + g[q[k]].rows

(* A tiling stays one when one screen is cut in two, or two made one.      *)
LEMMA CutTiles ==
  ASSUME NEW q, Queue(q), NEW g, Measured(q, g), NEW r, Queue(r), NEW h, Measured(r, h),
         NEW k, Cut(q, g, k, r, h)
  PROVE  /\ Tiled(q, g) /\ h[r[k]].woff + h[r[k]].rows = h[r[k + 1]].woff => Tiled(r, h)
         /\ Tiled(r, h) => Tiled(q, g)
<1> DEFINE a(j) == g[q[j]].woff
           b(j) == g[q[j]].woff + g[q[j]].rows
           c(j) == h[r[j]].woff
           d(j) == h[r[j]].woff + h[r[j]].rows
<1>0. Len(q) \in Nat /\ k \in 1..Len(q) /\ Len(r) = Len(q) + 1 /\ q # <<>> /\ r # <<>>
  <2>1. Len(q) \in Nat /\ k \in 1..Len(q) /\ Len(r) = Len(q) + 1
    BY Members DEF Cut
  <2> QED BY <2>1, EmptySeq DEF Queue
<1>1. ASSUME NEW j \in 1..Len(q)
      PROVE  a(j) \in Int /\ b(j) \in Int
  <2>1. g[q[j]].woff \in Int /\ g[q[j]].rows \in Int
    BY Members DEF Measured
  <2> QED BY <2>1
<1>2. ASSUME NEW j \in 1..Len(r)
      PROVE  c(j) \in Int /\ d(j) \in Int
  <2>1. h[r[j]].woff \in Int /\ h[r[j]].rows \in Int
    BY Members DEF Measured
  <2> QED BY <2>1
<1>3. /\ \A j \in 1..(k - 1) : c(j) = a(j) /\ d(j) = b(j)
      /\ \A j \in (k + 1)..Len(q) : c(j + 1) = a(j) /\ d(j + 1) = b(j)
      /\ c(k) = a(k) /\ d(k + 1) = b(k)
  BY DEF Cut, SameRows
<1>4. Tiled(q, g) <=> /\ a(1) = 0 /\ b(Len(q)) = Lines
                      /\ \A j \in 1..(Len(q) - 1) : b(j) = a(j + 1)
  BY <1>0 DEF Tiled
<1>5. Tiled(r, h) <=> /\ c(1) = 0 /\ d(Len(q) + 1) = Lines
                      /\ \A j \in 1..Len(q) : d(j) = c(j + 1)
  <2>1. Len(r) - 1 = Len(q)
    BY <1>0
  <2> QED BY <1>0, <2>1 DEF Tiled
<1> HIDE DEF a, b, c, d
<1>6. c(1) = a(1)
  <2>1. CASE k = 1
    BY <2>1, <1>3
  <2>2. CASE k # 1
    BY <2>2, <1>0, <1>3
  <2> QED BY <2>1, <2>2
<1>7. d(Len(q) + 1) = b(Len(q))
  <2>1. CASE k = Len(q)
    BY <2>1, <1>3
  <2>2. CASE k # Len(q)
    <3>1. Len(q) \in (k + 1)..Len(q)
      BY <2>2, <1>0
    <3> QED BY <3>1, <1>3
  <2> QED BY <2>1, <2>2
<1>8. ASSUME Tiled(q, g), d(k) = c(k + 1), NEW j \in 1..Len(q)
      PROVE  d(j) = c(j + 1)
  <2>0. \A l \in 1..(Len(q) - 1) : b(l) = a(l + 1)
    BY <1>8, <1>4
  <2>1. CASE j = k
    BY <2>1, <1>8
  <2>2. CASE j < k
    <3>1. j \in 1..(k - 1) /\ j \in 1..(Len(q) - 1)
      BY <2>2, <1>0
    <3>2. d(j) = a(j + 1)
      BY <3>1, <2>0, <1>3
    <3>3. c(j + 1) = a(j + 1)
      <4>1. j + 1 = k \/ j + 1 \in 1..(k - 1)
        BY <2>2, <1>0
      <4> QED BY <4>1, <1>3
    <3> QED BY <3>2, <3>3
  <2>3. CASE j > k
    <3>1. /\ j \in (k + 1)..Len(q)
          /\ j - 1 \in 1..(Len(q) - 1) /\ (j - 1) + 1 = j
          /\ j - 1 = k \/ j - 1 \in (k + 1)..Len(q)
      BY <2>3, <1>0
    <3>2. c(j + 1) = a(j)
      BY <3>1, <1>3
    <3>3. b(j - 1) = a(j)
      BY <3>1, <2>0
    <3>4. d(j) = b(j - 1)
      <4>1. CASE j - 1 = k
        BY <4>1, <3>1, <1>3
      <4>2. CASE j - 1 \in (k + 1)..Len(q)
        BY <4>2, <3>1, <1>3
      <4> QED BY <4>1, <4>2, <3>1
    <3> QED BY <3>2, <3>3, <3>4
  <2> QED BY <1>0, <2>1, <2>2, <2>3
<1>9. ASSUME Tiled(r, h), NEW j \in 1..(Len(q) - 1)
      PROVE  b(j) = a(j + 1)
  <2>0. \A l \in 1..Len(q) : d(l) = c(l + 1)
    BY <1>9, <1>5
  <2>1. CASE j < k
    <3>1. /\ j \in 1..(k - 1) /\ j \in 1..Len(q)
          /\ j + 1 = k \/ j + 1 \in 1..(k - 1)
      BY <2>1, <1>0
    <3>2. d(j) = c(j + 1) /\ d(j) = b(j)
      BY <3>1, <2>0, <1>3
    <3>3. c(j + 1) = a(j + 1)
      BY <3>1, <1>3
    <3> QED BY <3>2, <3>3
  <2>2. CASE j >= k
    <3>1. /\ j + 1 \in (k + 1)..Len(q) /\ j + 1 \in 1..Len(q)
          /\ j = k \/ j \in (k + 1)..Len(q)
      BY <2>2, <1>0
    <3>2. d(j + 1) = c((j + 1) + 1) /\ c((j + 1) + 1) = a(j + 1)
      BY <3>1, <2>0, <1>3
    <3>3. d(j + 1) = b(j)
      BY <3>1, <1>3
    <3> QED BY <3>2, <3>3
  <2> QED BY <1>0, <2>1, <2>2
<1>10. ASSUME Tiled(q, g), d(k) = c(k + 1)
       PROVE  Tiled(r, h)
  BY <1>4, <1>5, <1>6, <1>7, <1>8, <1>10
<1>11. ASSUME Tiled(r, h)
       PROVE  Tiled(q, g)
  BY <1>4, <1>5, <1>6, <1>7, <1>9, <1>11
<1> QED BY <1>10, <1>11 DEF c, d

(* Inserting n next to s = q[k] cuts the rows of s.                        *)
LEMMA InsertCuts ==
  ASSUME NEW q, Queue(q), NEW r, NEW i, NEW n, Between(q, i, n, r), n \notin Elems(q),
         NEW k \in 1..Len(q), i \in {k, k + 1}, NEW g, NEW h,
         \A s \in Elems(q) \ {q[k]} : SameRows(h[s], g[s]),
         h[r[k]].woff = g[q[k]].woff,
         h[r[k + 1]].woff + h[r[k + 1]].rows = g[q[k]].woff + g[q[k]].rows
  PROVE  /\ Cut(q, g, k, r, h)
         /\ i = k => r[k] = n /\ r[k + 1] = q[k]
         /\ i = k + 1 => r[k] = q[k] /\ r[k + 1] = n
<1>0. /\ Len(q) \in Nat /\ i \in 1..(Len(q) + 1) /\ Len(r) = Len(q) + 1 /\ r[i] = n
      /\ \A j \in 1..Len(q) : r[IF j < i THEN j ELSE j + 1] = q[j]
  BY Members DEF Between
<1>1. ASSUME NEW j \in 1..(k - 1)
      PROVE  SameRows(h[r[j]], g[q[j]])
  <2>1. j \in 1..Len(q) /\ j < i /\ j # k
    BY <1>0
  <2>2. r[j] = q[j] /\ q[j] # q[k] /\ q[j] \in Elems(q)
    BY <2>1, <1>0, Members DEF Queue
  <2> QED BY <2>2
<1>2. ASSUME NEW j \in (k + 1)..Len(q)
      PROVE  SameRows(h[r[j + 1]], g[q[j]])
  <2>1. j \in 1..Len(q) /\ ~(j < i) /\ j # k
    BY <1>0
  <2>2. r[j + 1] = q[j] /\ q[j] # q[k] /\ q[j] \in Elems(q)
    BY <2>1, <1>0, Members DEF Queue
  <2> QED BY <2>2
<1>3. i = k => r[k] = n /\ r[k + 1] = q[k]
  BY <1>0
<1>4. i = k + 1 => r[k] = q[k] /\ r[k + 1] = n
  BY <1>0
<1> QED BY <1>0, <1>1, <1>2, <1>3, <1>4 DEF Cut

(* The rows between two neighbours can be shared out anew (vs_resize()).   *)
LEMMA MoveTiles ==
  ASSUME NEW q, Queue(q), NEW g, Tiled(q, g), NEW h, NEW k \in 1..(Len(q) - 1),
         \A s \in Elems(q) \ {q[k], q[k + 1]} : SameRows(h[s], g[s]),
         h[q[k]].woff = g[q[k]].woff,
         h[q[k]].woff + h[q[k]].rows = h[q[k + 1]].woff,
         h[q[k + 1]].woff + h[q[k + 1]].rows = g[q[k + 1]].woff + g[q[k + 1]].rows
  PROVE  Tiled(q, h)
<1> DEFINE a(j) == g[q[j]].woff
           b(j) == g[q[j]].woff + g[q[j]].rows
           c(j) == h[q[j]].woff
           d(j) == h[q[j]].woff + h[q[j]].rows
<1>0. Len(q) \in Nat /\ k \in 1..Len(q) /\ k + 1 \in 1..Len(q) /\ q # <<>>
  <2>1. Len(q) \in Nat
    BY Members
  <2>2. k \in 1..Len(q) /\ k + 1 \in 1..Len(q)
    BY <2>1
  <2> QED BY <2>1, <2>2, EmptySeq DEF Queue
<1>1. ASSUME NEW j \in 1..Len(q), j # k, j # k + 1
      PROVE  c(j) = a(j) /\ d(j) = b(j)
  <2>1. q[j] \in Elems(q) \ {q[k], q[k + 1]}
    BY <1>0, <1>1, Members DEF Queue
  <2> QED BY <2>1 DEF SameRows
<1>2. c(k) = a(k) /\ d(k) = c(k + 1) /\ d(k + 1) = b(k + 1)
  OBVIOUS
<1>3. a(1) = 0 /\ b(Len(q)) = Lines /\ \A j \in 1..(Len(q) - 1) : b(j) = a(j + 1)
  BY <1>0 DEF Tiled
<1>4. (c(1) = 0 /\ d(Len(q)) = Lines /\ \A j \in 1..(Len(q) - 1) : d(j) = c(j + 1))
        => Tiled(q, h)
  BY DEF Tiled
<1> HIDE DEF a, b, c, d
<1>5. c(1) = 0
  BY <1>0, <1>1, <1>2, <1>3
<1>6. d(Len(q)) = Lines
  BY <1>0, <1>1, <1>2, <1>3
<1>7. ASSUME NEW j \in 1..(Len(q) - 1)
      PROVE  d(j) = c(j + 1)
  <2>1. j \in 1..Len(q) /\ j + 1 \in 1..Len(q) /\ b(j) = a(j + 1)
    BY <1>0, <1>3
  <2>2. j # k => d(j) = b(j)
    BY <2>1, <1>0, <1>1, <1>2
  <2>3. j # k => c(j + 1) = a(j + 1)
    BY <2>1, <1>0, <1>1, <1>2
  <2> QED BY <2>1, <2>2, <2>3, <1>2
<1> QED BY <1>4, <1>5, <1>6, <1>7

(* A screen may take the rows of another.                                  *)
LEMMA SameTiles ==
  ASSUME NEW q, Queue(q), NEW r, Queue(r), NEW g, NEW h, Len(r) = Len(q),
         \A j \in 1..Len(q) : SameRows(h[r[j]], g[q[j]]), Tiled(q, g)
  PROVE  Tiled(r, h)
<1>1. CASE q = <<>>
  <2>1. r = <<>> /\ Len(q) = 0 /\ 1..(0 - 1) = {}
    BY <1>1, EmptySeq DEF Queue
  <2> QED BY <2>1 DEF Tiled
<1>2. CASE q # <<>>
  <2>1. Len(q) \in Nat /\ 1 \in 1..Len(q) /\ Len(q) \in 1..Len(q)
    <3>1. Len(q) \in Nat /\ Len(q) # 0
      BY <1>2, Members, EmptySeq DEF Queue
    <3> QED BY <3>1
  <2>2. ASSUME NEW j \in 1..(Len(q) - 1)
        PROVE  j \in 1..Len(q) /\ j + 1 \in 1..Len(q)
    BY <2>1
  <2> QED BY <1>2, <2>1, <2>2 DEF Tiled, SameRows
<1> QED BY <1>1, <1>2

(* One screen tiles the terminal when it has all of it.                    *)
LEMMA OneTile ==
  ASSUME NEW s \in Screen, NEW g, g[s].woff = 0, g[s].rows = Lines
  PROVE  Tiled(<<s>>, g)
<1>1. Len(<<s>>) = 1 /\ <<s>>[1] = s
  BY OneQueue
<1>2. 1..(1 - 1) = {} /\ 0 + Lines = Lines
  BY ScreensAssumption
<1> QED BY <1>1, <1>2 DEF Tiled

-----------------------------------------------------------------------------
(* Facts about the geometry.                                               *)

LEMMA WrapIs ==
  ASSUME NEW n \in Int
  PROVE  Wrap(n) \in Int /\ (n \in 0..(SizeMod - 1) => Wrap(n) = n)
<1>1. SizeMod \in Nat /\ SizeMod > 0
  BY ScreensAssumption
<1> QED BY <1>1 DEF Wrap

LEMMA HalfIs ==
  ASSUME NEW s \in Screen, scr[s] \in Geometry, NEW ccl
  PROVE  /\ HalfOf(s, ccl) \in Int
         /\ scr[s].rows >= 4 => HalfOf(s, ccl) >= 2 /\ scr[s].rows - HalfOf(s, ccl) >= 2
<1>1. scr[s].rows \in Int
  BY DEF Geometry
<1> QED BY <1>1 DEF HalfOf

LEMMA WholeIs ==
  ASSUME NEW w \in Int
  PROVE  LET x == WholeTerminal(w)
         IN  /\ x \in Geometry /\ x.woff = 0 /\ x.rows = Lines /\ x.map = TRUE /\ x.window = w
             /\ w >= 1 => Fits(x)
<1> DEFINE t == Lesser(w, Lines - 1)
<1>1. t \in Int /\ Lines \in Int /\ Lines >= 2 /\ t <= Lines - 1 /\ (w >= 1 => t >= 1)
  BY ScreensAssumption DEF Lesser
<1> HIDE DEF t
<1> DEFINE x == WholeTerminal(w)
<1>2. x = [rows |-> Lines, woff |-> 0, trows |-> t, tmin |-> t, tmax |-> Lines - 1,
           window |-> w, map |-> TRUE, ccl |-> FALSE]
  BY DEF WholeTerminal, t
<1> HIDE DEF x
<1>3. x \in Geometry
  BY <1>1, <1>2 DEF Geometry
<1>4. /\ x.rows = Lines /\ x.woff = 0 /\ x.trows = t /\ x.tmin = t /\ x.tmax = Lines - 1
      /\ x.window = w /\ x.map = TRUE
  BY <1>2
<1>5. w >= 1 => Fits(x)
  BY <1>1, <1>4 DEF Fits
<1> QED BY <1>3, <1>4, <1>5 DEF x
(* A screen that gets other rows.                                          *)
Reshape(g, a, b, c, d, e) ==
  [g EXCEPT !.rows = a, !.woff = b, !.trows = c, !.tmin = d, !.tmax = e]

LEMMA Reshaped ==
  ASSUME NEW g \in Geometry, NEW a \in Int, NEW b \in Int, NEW c \in Int,
         NEW d \in Int, NEW e \in Int
  PROVE  /\ Reshape(g, a, b, c, d, e) \in Geometry
         /\ Reshape(g, a, b, c, d, e).rows = a /\ Reshape(g, a, b, c, d, e).woff = b
         /\ Reshape(g, a, b, c, d, e).trows = c /\ Reshape(g, a, b, c, d, e).tmin = d
         /\ Reshape(g, a, b, c, d, e).tmax = e
         /\ Reshape(g, a, b, c, d, e).window = g.window
         /\ Reshape(g, a, b, c, d, e).map = g.map
<1> DEFINE x == Reshape(g, a, b, c, d, e)
<1>1. x.rows = a /\ x.woff = b /\ x.trows = c /\ x.tmin = d /\ x.tmax = e
  BY DEF Geometry, Reshape
<1>2. x.window = g.window
  BY DEF Geometry, Reshape
<1>3. x.map = g.map
  BY DEF Geometry, Reshape
<1>4. x \in Geometry
  BY DEF Geometry, Reshape
<1> QED BY <1>1, <1>2, <1>3, <1>4

(* The old screen of a split.                                              *)
LEMMA SplitOldIs ==
  ASSUME NEW s \in Screen, scr[s] \in Geometry, NEW ccl, NEW smp
  PROVE  LET x    == SplitOld(s, ccl, smp)
             up   == SplitUp(s, ccl, smp)
             half == HalfOf(s, ccl)
         IN  /\ x \in Geometry /\ x.map = scr[s].map /\ x.window = scr[s].window
             /\ x.rows = IF up THEN half ELSE scr[s].rows - half
             /\ x.woff = IF up THEN scr[s].woff + (scr[s].rows - half) ELSE scr[s].woff
             /\ (Fits(scr[s]) /\ scr[s].rows >= 4
                  /\ (IsSmall(s) /\ up => KeepsText(s, scr[s].rows - half))) => Fits(x)
<1> DEFINE g == scr[s]
           up == SplitUp(s, ccl, smp)
           half == HalfOf(s, ccl)
           rows == IF up THEN half ELSE g.rows - half
           gone == g.rows - rows
           shown == IF up THEN Wrap(g.trows - gone) ELSE g.trows
           woff == IF up THEN g.woff + gone ELSE g.woff
           trows == IF IsSmall(s) THEN Lesser(shown, rows - 1) ELSE rows - 1
           tmin == IF IsSmall(s) THEN Lesser(g.tmin, rows - 1) ELSE rows - 1
           x == SplitOld(s, ccl, smp)
<1>1. /\ g \in Geometry
      /\ g.rows \in Int /\ g.woff \in Int /\ g.trows \in Int /\ g.tmin \in Int /\ g.tmax \in Int
  BY DEF Geometry
<1>2. half \in Int /\ (g.rows >= 4 => half >= 2 /\ g.rows - half >= 2)
  BY HalfIs
<1>3. x = [g EXCEPT !.rows = rows, !.woff = woff, !.tmax = rows - 1, !.trows = trows, !.tmin = tmin]
  BY DEF SplitOld
<1>4. IsSmall(s) <=> g.tmin # g.tmax
  BY DEF IsSmall
<1>5. KeepsText(s, g.rows - half) =>
        g.trows - (g.rows - half) >= IF g.tmin < g.tmax - (g.rows - half) THEN g.tmin
                                     ELSE g.tmax - (g.rows - half)
  BY DEF KeepsText
<1> HIDE DEF g, half, x
<1>6. rows \in Int /\ gone \in Int /\ woff \in Int
  BY <1>1, <1>2
<1>7. shown \in Int
  BY <1>1, <1>6, WrapIs
<1>8. trows \in Int /\ tmin \in Int
  BY <1>1, <1>6, <1>7 DEF Lesser
<1>9. /\ x.rows = rows /\ x.woff = woff /\ x.tmax = rows - 1 /\ x.trows = trows /\ x.tmin = tmin
      /\ x.window = g.window /\ x.map = g.map /\ x \in Geometry
  <2> DEFINE tmax == rows - 1
  <2>1. tmax \in Int
    BY <1>6
  <2>2. x = [g EXCEPT !.rows = rows, !.woff = woff, !.trows = trows, !.tmin = tmin, !.tmax = tmax]
    BY <1>3
  <2> HIDE DEF rows, woff, trows, tmin, tmax
  <2>3. x = Reshape(g, rows, woff, trows, tmin, tmax)
    BY <2>2 DEF Reshape
  <2> HIDE DEF up, gone, shown
  <2>4. /\ g \in Geometry /\ rows \in Int /\ woff \in Int /\ trows \in Int /\ tmin \in Int
        /\ tmax \in Int
    BY <1>1, <1>6, <1>8, <2>1
  <2>5. x.rows = rows /\ x.woff = woff /\ x.tmax = tmax
    BY ONLY <2>3, <2>4, Reshaped
  <2>6. x.trows = trows /\ x.tmin = tmin /\ x.window = g.window
    BY ONLY <2>3, <2>4, Reshaped
  <2>7. x \in Geometry
    BY ONLY <2>3, <2>4, Reshaped
  <2>8. x.map = g.map
    BY ONLY <2>3, <2>4, Reshaped
  <2> QED BY <2>5, <2>6, <2>7, <2>8 DEF tmax
<1>12. x.rows = (IF up THEN half ELSE g.rows - half)
       /\ x.woff = (IF up THEN g.woff + (g.rows - half) ELSE g.woff)
  BY <1>9
<1>13. ASSUME Fits(g), g.rows >= 4, IsSmall(s) /\ up => KeepsText(s, g.rows - half)
       PROVE  Fits(x)
  <2>0. /\ g.woff >= 0 /\ g.rows >= 2 /\ g.woff + g.rows <= Lines
        /\ g.tmin >= 1 /\ g.tmin <= g.trows /\ g.trows <= g.tmax /\ g.tmax = g.rows - 1
        /\ Lines \in Int /\ SizeMod \in Int /\ SizeMod > 2 * Lines
    BY <1>13, ScreensAssumption DEF Fits
  <2>1. rows >= 2 /\ woff >= 0 /\ woff + rows <= Lines
    BY <1>1, <1>2, <1>13, <2>0
  <2>2. CASE ~IsSmall(s)
    <3>1. trows = rows - 1 /\ tmin = rows - 1
      BY <2>2
    <3> QED BY <3>1, <2>1, <1>6, <1>9 DEF Fits
  <2>3. CASE IsSmall(s)
    <3>1. tmin = Lesser(g.tmin, rows - 1) /\ trows = Lesser(shown, rows - 1)
      BY <2>3
    <3>2. shown >= Lesser(g.tmin, rows - 1)
      <4>1. CASE up
        <5>1. /\ gone = g.rows - half /\ rows = half /\ g.tmax - gone = rows - 1
          BY <4>1, <1>1, <1>2, <2>0
        <5>2. g.trows - gone >= Lesser(g.tmin, rows - 1)
          BY <4>1, <2>3, <1>1, <1>2, <1>5, <1>13, <5>1 DEF Lesser
        <5>3. Lesser(g.tmin, rows - 1) >= 1
          BY <1>1, <1>6, <2>0, <2>1 DEF Lesser
        <5>4. g.trows - gone \in 0..(SizeMod - 1)
          <6> DEFINE l == Lesser(g.tmin, rows - 1)
          <6>1. l \in Int
            BY <1>1, <1>6 DEF Lesser
          <6>2. gone >= 0
            BY <5>1, <1>2, <1>13, <1>1
          <6> HIDE DEF l, gone
          <6> QED BY <6>1, <6>2, <5>2, <5>3, <2>0, <1>1, <1>6 DEF l
        <5>5. shown = g.trows - gone
          BY <4>1, <5>4, <1>1, <1>6, WrapIs
        <5> QED BY <5>2, <5>5
      <4>2. CASE ~up
        <5>1. shown = g.trows
          BY <4>2
        <5> QED BY <5>1, <1>1, <1>6, <2>0 DEF Lesser
      <4> QED BY <4>1, <4>2
    <3>3. /\ tmin >= 1 /\ tmin <= trows /\ trows <= rows - 1
      <4> HIDE DEF rows, shown, tmin, trows
      <4>1. tmin >= 1 /\ tmin <= rows - 1
        BY <3>1, <2>0, <2>1, <1>1, <1>6 DEF Lesser
      <4> QED BY <4>1, <3>1, <3>2, <1>6, <1>7, <1>8 DEF Lesser
    <3> HIDE DEF rows, woff, trows, tmin
    <3> QED BY <3>3, <2>1, <1>6, <1>9 DEF Fits
  <2> QED BY <2>2, <2>3
<1> QED BY <1>9, <1>12, <1>13 DEF g, half, x

(* The new screen of a split.                                              *)
NewPart(x, s, ccl, smp, w) ==
  LET up == SplitUp(s, ccl, smp)
  IN  /\ x \in Geometry /\ x.map = TRUE /\ x.window = w
      /\ x.rows = IF up THEN scr[s].rows - HalfOf(s, ccl) ELSE HalfOf(s, ccl)
      /\ x.woff = IF up THEN scr[s].woff ELSE scr[s].woff + (scr[s].rows - HalfOf(s, ccl))
      /\ (Fits(scr[s]) /\ scr[s].rows >= 4 /\ w >= 1) => Fits(x)

LEMMA SplitNewIs ==
  ASSUME NEW s \in Screen, scr[s] \in Geometry, NEW ccl \in BOOLEAN, NEW smp, NEW w \in Int
  PROVE  NewPart(SplitNew(s, ccl, smp, w), s, ccl, smp, w)
<1> DEFINE g == scr[s]
           up == SplitUp(s, ccl, smp)
           half == HalfOf(s, ccl)
           rows == IF up THEN g.rows - half ELSE half
           woff == g.woff + IF up THEN 0 ELSE g.rows - half
           t == Lesser(w, rows - 1)
           x == SplitNew(s, ccl, smp, w)
<1>1. g.rows \in Int /\ g.woff \in Int
  BY DEF Geometry
<1>2. half \in Int /\ (g.rows >= 4 => half >= 2 /\ g.rows - half >= 2)
  BY HalfIs
<1>3. x = [rows |-> rows, woff |-> woff, trows |-> t, tmin |-> t, tmax |-> rows - 1,
           window |-> w, map |-> TRUE, ccl |-> ccl]
  BY DEF SplitNew
<1> HIDE DEF g, half, x
<1>4. rows \in Int /\ woff \in Int
  BY <1>1, <1>2
<1>5. t \in Int
  BY <1>4 DEF Lesser
<1>6. x \in Geometry
  <2> HIDE DEF rows, woff, t
  <2> QED BY <1>3, <1>4, <1>5 DEF Geometry
<1>7. /\ x.rows = rows /\ x.woff = woff /\ x.trows = t /\ x.tmin = t /\ x.tmax = rows - 1
      /\ x.window = w
  BY <1>3
<1>8. x.map = TRUE
  BY <1>3
<1>9. x.rows = (IF up THEN g.rows - half ELSE half)
      /\ x.woff = (IF up THEN g.woff ELSE g.woff + (g.rows - half))
  BY <1>1, <1>7
<1>10. ASSUME Fits(g), g.rows >= 4, w >= 1
       PROVE  Fits(x)
  <2>1. rows >= 2 /\ woff >= 0 /\ woff + rows <= Lines
    BY <1>1, <1>2, <1>10, ScreensAssumption DEF Fits
  <2>2. t >= 1 /\ t <= rows - 1
    BY <1>4, <1>10, <2>1 DEF Lesser
  <2> HIDE DEF rows, woff, t
  <2> QED BY <2>1, <2>2, <1>4, <1>5, <1>7 DEF Fits
<1> QED BY <1>6, <1>7, <1>8, <1>9, <1>10 DEF g, half, x, NewPart

(* A flag of a screen says nothing of its rows.                            *)
SameShape(x, y) ==
  /\ x.rows = y.rows /\ x.woff = y.woff /\ x.trows = y.trows /\ x.tmin = y.tmin
  /\ x.tmax = y.tmax /\ x.window = y.window

Mapped(x, b) == [x EXCEPT !.map = b]
Colon(x, b) == [x EXCEPT !.ccl = b]

LEMMA MappedIs ==
  ASSUME NEW x \in Geometry, NEW b \in BOOLEAN
  PROVE  Mapped(x, b) \in Geometry /\ SameShape(Mapped(x, b), x) /\ Mapped(x, b).map = b
<1>1. Mapped(x, b) \in Geometry
  BY DEF Geometry, Mapped
<1>2. SameShape(Mapped(x, b), x)
  BY DEF Geometry, Mapped, SameShape
<1>3. Mapped(x, b).map = b
  BY DEF Geometry, Mapped
<1> QED BY <1>1, <1>2, <1>3

LEMMA ColonIs ==
  ASSUME NEW x \in Geometry, NEW b \in BOOLEAN
  PROVE  Colon(x, b) \in Geometry /\ SameShape(Colon(x, b), x) /\ Colon(x, b).map = x.map
<1>1. Colon(x, b) \in Geometry
  BY DEF Geometry, Colon
<1>2. SameShape(Colon(x, b), x)
  BY DEF Geometry, Colon, SameShape
<1>3. Colon(x, b).map = x.map
  BY DEF Geometry, Colon
<1> QED BY <1>1, <1>2, <1>3

LEMMA SameFits ==
  ASSUME NEW x, NEW y, SameShape(x, y)
  PROVE  SameRows(x, y) /\ (Fits(y) => Fits(x))
BY DEF SameShape, SameRows, Fits

(* The hidden screen n in the rows of s.                                   *)
LEMMA ReplacingIs ==
  ASSUME NEW n \in Screen, scr[n] \in Geometry, NEW s \in Screen, scr[s] \in Geometry
  PROVE  LET x == Replacing(n, s)
         IN  /\ x \in Geometry /\ x.map = TRUE /\ x.window = scr[n].window
             /\ SameRows(x, scr[s])
             /\ (Fits(scr[s]) /\ scr[n].window >= 1
                  /\ (IsSmall(n) => scr[n].tmax = scr[s].rows - 1)) => Fits(x)
<1> DEFINE g == scr[n]
           t == scr[s]
           clip == IF g.window > t.tmax THEN g.tmax ELSE g.window
           text == IF IsSmall(n) THEN clip ELSE t.rows - 1
           tmax == IF IsSmall(n) THEN g.tmax ELSE t.rows - 1
           x == Replacing(n, s)
           y == Reshape(g, t.rows, t.woff, text, text, tmax)
<1>1. /\ g \in Geometry /\ g.window \in Int /\ g.tmax \in Int
      /\ t.rows \in Int /\ t.woff \in Int /\ t.tmax \in Int
  BY DEF Geometry
<1>2. x = [g EXCEPT !.rows = t.rows, !.woff = t.woff, !.map = TRUE,
                    !.trows = text, !.tmin = text, !.tmax = tmax]
  BY DEF Replacing
<1>3. text \in Int /\ tmax \in Int
  BY <1>1
<1>4. x = Mapped(y, TRUE)
  <2> HIDE DEF g, t, text, tmax, x
  <2> QED BY <1>1, <1>2 DEF Geometry, Mapped, Reshape
<1> HIDE DEF g, t, text, tmax, x, y
<1>5. y \in Geometry
  BY <1>1, <1>3, Reshaped DEF y
<1>6. y.rows = t.rows /\ y.woff = t.woff /\ y.trows = text /\ y.tmin = text
      /\ y.tmax = tmax /\ y.window = g.window
  BY <1>1, <1>3, Reshaped DEF y
<1>7. x \in Geometry
  BY <1>4, <1>5, MappedIs
<1>8. x.map = TRUE
  BY <1>4, <1>5, MappedIs
<1>9. /\ x.rows = t.rows /\ x.woff = t.woff /\ x.trows = text /\ x.tmin = text /\ x.tmax = tmax
      /\ x.window = g.window
  <2>1. SameShape(x, y)
    BY <1>4, <1>5, MappedIs
  <2> QED BY <2>1, <1>6 DEF SameShape
<1>10. ASSUME Fits(t), g.window >= 1, IsSmall(n) => g.tmax = t.rows - 1
       PROVE  Fits(x)
  <2>1. tmax = t.rows - 1
    BY <1>10 DEF tmax
  <2>2. text >= 1 /\ text <= t.rows - 1
    BY <1>1, <1>10 DEF text, Fits
  <2>3. t.woff >= 0 /\ t.rows >= 2 /\ t.woff + t.rows <= Lines
    BY <1>10 DEF Fits
  <2> QED BY <1>3, <1>9, <2>1, <2>2, <2>3 DEF Fits
<1> QED BY <1>7, <1>8, <1>9, <1>10 DEF g, t, x, SameRows

(* count rows moved from s to g.                                           *)
LEMMA MovedIs ==
  ASSUME NEW g \in Screen, NEW s \in Screen, g # s, scr \in Geometries,
         scr[g] \in Geometry, scr[s] \in Geometry,
         NEW count \in Int, NEW goff \in Int, NEW soff \in Int
  PROVE  LET f == Moved(g, s, count, goff, soff)
         IN  /\ f \in Geometries /\ \A x \in Screen \ {g, s} : f[x] = scr[x]
             /\ f[g] \in Geometry /\ f[g].map = scr[g].map /\ f[g].window = scr[g].window
             /\ f[s] \in Geometry /\ f[s].map = scr[s].map /\ f[s].window = scr[s].window
             /\ f[g].rows = scr[g].rows + count /\ f[g].woff = scr[g].woff + goff
             /\ f[s].rows = scr[s].rows - count /\ f[s].woff = scr[s].woff + soff
             /\ (/\ Fits(scr[g]) /\ Fits(scr[s]) /\ count >= 1 /\ scr[s].tmax >= 1 + count
                 /\ KeepsText(s, count)
                 /\ f[g].woff >= 0 /\ f[g].woff + f[g].rows <= Lines
                 /\ f[s].woff >= 0 /\ f[s].woff + f[s].rows <= Lines)
                => Fits(f[g]) /\ Fits(f[s])
<1> DEFINE a == scr[g]
           b == scr[s]
           amin == IF a.tmin = a.tmax THEN a.tmin + count ELSE a.tmin
           bmin == Lesser(b.tmin, b.tmax - count)
           atext == Wrap(a.trows + count)
           btext == Wrap(b.trows - count)
           x == Reshape(a, a.rows + count, a.woff + goff, atext, amin, a.tmax + count)
           y == Reshape(b, b.rows - count, b.woff + soff, btext, bmin, b.tmax - count)
           f == Moved(g, s, count, goff, soff)
<1>1. /\ a \in Geometry /\ b \in Geometry
      /\ a.rows \in Int /\ a.woff \in Int /\ a.trows \in Int /\ a.tmin \in Int /\ a.tmax \in Int
      /\ b.rows \in Int /\ b.woff \in Int /\ b.trows \in Int /\ b.tmin \in Int /\ b.tmax \in Int
  BY DEF Geometry
<1>2. f = [scr EXCEPT ![g] = x, ![s] = y]
  <2>1. IsSmall(g) <=> a.tmin # a.tmax
    BY DEF IsSmall
  <2> DEFINE xx == [a EXCEPT !.rows = @ + count, !.woff = @ + goff, !.trows = Wrap(@ + count),
                             !.tmin = IF IsSmall(g) THEN @ ELSE @ + count, !.tmax = @ + count]
             yy == [b EXCEPT !.rows = @ - count, !.woff = @ + soff, !.trows = Wrap(@ - count),
                             !.tmin = Lesser(@, b.tmax - count), !.tmax = @ - count]
  <2>2. f = [scr EXCEPT ![g] = xx, ![s] = yy]
    BY DEF Moved
  <2>3. xx = x
    <3> HIDE DEF a
    <3> QED BY <1>1, <2>1 DEF Reshape, Geometry
  <2>4. yy = y
    BY <1>1 DEF Reshape, Geometry
  <2> HIDE DEF xx, yy, x, y
  <2> QED BY <2>2, <2>3, <2>4
<1>3. KeepsText(s, count) =>
        b.trows - count >= IF b.tmin < b.tmax - count THEN b.tmin ELSE b.tmax - count
  BY DEF KeepsText
<1> HIDE DEF a, b
<1>4. amin \in Int /\ bmin \in Int /\ atext \in Int /\ btext \in Int
  <2>1. a.trows + count \in Int /\ b.trows - count \in Int
    BY <1>1
  <2>2. atext \in Int /\ btext \in Int
    BY <2>1, WrapIs
  <2>3. amin \in Int /\ bmin \in Int
    BY <1>1 DEF Lesser
  <2> QED BY <2>2, <2>3
<1> HIDE DEF amin, bmin, atext, btext, x, y, f
<1>13. /\ a.rows + count \in Int /\ a.woff + goff \in Int /\ a.tmax + count \in Int
       /\ b.rows - count \in Int /\ b.woff + soff \in Int /\ b.tmax - count \in Int
  BY <1>1
<1>5. x \in Geometry
  BY <1>1, <1>4, <1>13, Reshaped DEF x
<1>6. y \in Geometry
  BY <1>1, <1>4, <1>13, Reshaped DEF y
<1>7. /\ x.rows = a.rows + count /\ x.woff = a.woff + goff /\ x.trows = atext /\ x.tmin = amin
      /\ x.tmax = a.tmax + count /\ x.window = a.window
  BY <1>1, <1>4, Reshaped DEF x
<1>8. /\ y.rows = b.rows - count /\ y.woff = b.woff + soff /\ y.trows = btext /\ y.tmin = bmin
      /\ y.tmax = b.tmax - count /\ y.window = b.window
  BY <1>1, <1>4, Reshaped DEF y
<1>9. x.map = a.map
  BY <1>1, <1>4, Reshaped DEF x
<1>10. y.map = b.map
  BY <1>1, <1>4, Reshaped DEF y
<1>11. f \in Geometries /\ f[g] = x /\ f[s] = y /\ \A z \in Screen \ {g, s} : f[z] = scr[z]
  BY <1>2, <1>5, <1>6 DEF Geometries
<1>12. ASSUME Fits(a), Fits(b), count >= 1, b.tmax >= 1 + count, KeepsText(s, count),
              x.woff >= 0, x.woff + x.rows <= Lines, y.woff >= 0, y.woff + y.rows <= Lines
       PROVE  Fits(x) /\ Fits(y)
  <2>1. /\ a.rows >= 2 /\ a.tmin >= 1 /\ a.tmin <= a.trows /\ a.trows <= a.tmax /\ a.tmax = a.rows - 1
        /\ b.rows >= 2 /\ b.tmin >= 1 /\ b.tmin <= b.trows /\ b.trows <= b.tmax /\ b.tmax = b.rows - 1
    BY <1>12 DEF Fits
  <2>2. Lines \in Int /\ SizeMod \in Int /\ SizeMod > 2 * Lines
    BY ScreensAssumption
  <2>3. /\ a.rows + count <= Lines /\ b.rows <= Lines
    BY <1>1, <1>7, <1>12, <2>2 DEF Fits
  <2>4. atext = a.trows + count
    <3>1. a.trows + count \in 0..(SizeMod - 1)
      BY <1>1, <1>12, <2>1, <2>2, <2>3
    <3> QED BY <3>1, WrapIs DEF atext
  <2>5. bmin >= 1 /\ b.trows - count >= bmin /\ bmin <= b.tmax - count
    BY <1>1, <1>3, <1>12, <2>1 DEF bmin, Lesser
  <2>6. btext = b.trows - count
    <3>1. b.trows - count \in 0..(SizeMod - 1)
      BY <1>1, <1>4, <1>12, <2>1, <2>2, <2>3, <2>5
    <3> QED BY <3>1, WrapIs DEF btext
  <2>7. Fits(x)
    <3>1. amin >= 1 /\ amin <= a.trows + count
      BY <1>1, <1>12, <2>1 DEF amin
    <3> QED BY <3>1, <1>1, <1>7, <1>12, <2>1, <2>4 DEF Fits
  <2>8. Fits(y)
    BY <1>1, <1>8, <1>12, <2>1, <2>5, <2>6 DEF Fits
  <2> QED BY <2>7, <2>8
<1> QED BY <1>5, <1>6, <1>7, <1>8, <1>9, <1>10, <1>11, <1>12 DEF a, b, f

(* The screen that takes over the rows of s: its neighbour.                *)
LEMMA HeirIs ==
  ASSUME NEW q, Queue(q), NEW s \in Elems(q)
  PROVE  LET h == Heir(q, s)
             i == At(q, s)
         IN  /\ h = NoScreen => q = <<s>> /\ Elems(q) = {s}
             /\ h # NoScreen => /\ h \in Elems(q) \ {s}
                                /\ IF i > 1 THEN i - 1 \in 1..Len(q) /\ h = q[i - 1]
                                   ELSE i = 1 /\ 2 \in 1..Len(q) /\ h = q[2]
<1> DEFINE h == Heir(q, s)
           i == At(q, s)
<1>1. i \in 1..Len(q) /\ q[i] = s /\ Len(q) \in Nat
  BY AtIs
<1>2. s \in Screen /\ q \in Seq(Screen)
  BY Members DEF Queue
<1>3. \A j \in 1..Len(q) : q[j] \in Elems(q) /\ q[j] # NoScreen
  BY Members, ScreensAssumption
<1>4. h = IF i > 1 THEN q[i - 1] ELSE IF i < Len(q) THEN q[i + 1] ELSE NoScreen
  BY DEF Heir
<1> HIDE DEF h, i
<1>5. ASSUME i > 1
      PROVE  i - 1 \in 1..Len(q) /\ h = q[i - 1] /\ h \in Elems(q) \ {s} /\ h # NoScreen
  <2>1. i - 1 \in 1..Len(q) /\ i - 1 # i
    BY <1>1, <1>5
  <2> QED BY <2>1, <1>1, <1>3, <1>4, <1>5 DEF Queue
<1>6. ASSUME i = 1, Len(q) > 1
      PROVE  2 \in 1..Len(q) /\ h = q[2] /\ h \in Elems(q) \ {s} /\ h # NoScreen
  <2>1. 2 \in 1..Len(q) /\ 2 # i /\ i + 1 = 2 /\ i < Len(q) /\ ~(i > 1)
    BY <1>1, <1>6
  <2>2. h = q[2]
    BY <2>1, <1>4
  <2> QED BY <2>1, <2>2, <1>1, <1>3 DEF Queue
<1>7. ASSUME i = 1, ~(Len(q) > 1)
      PROVE  h = NoScreen /\ q = <<s>> /\ Elems(q) = {s}
  <2>1. Len(q) = 1 /\ q[1] = s /\ ~(i > 1) /\ ~(i < Len(q))
    BY <1>1, <1>7
  <2>2. q = <<s>>
    BY <1>2, <2>1, SeqEqual, OneQueue DEF Queue
  <2> QED BY <2>1, <2>2, <1>2, <1>4, OneQueue
<1> QED BY <1>1, <1>5, <1>6, <1>7 DEF h, i

(* Folding s into its heir: only the heir changes, and it ends up with the *)
(* rows of both.                                                           *)
LEMMA FoldedIs ==
  ASSUME NEW q, Queue(q), NEW s \in Elems(q), NEW g \in Geometries,
         \A x \in Elems(q) : g[x] \in Geometry
  PROVE  LET h == Heir(q, s)
             f == Folded(q, g, s)
         IN  /\ h = NoScreen => f = g
             /\ h # NoScreen =>
                  /\ f \in Geometries /\ \A x \in Screen \ {h} : f[x] = g[x]
                  /\ f[h] \in Geometry /\ f[h].map = g[h].map /\ f[h].window = g[h].window
                  /\ f[h].rows = g[h].rows + g[s].rows
                  /\ f[h].woff = IF At(q, s) > 1 THEN g[h].woff ELSE g[s].woff
                  /\ f[h].tmax = g[h].rows + g[s].rows - 1
                  /\ IF g[h].tmin # g[h].tmax
                     THEN f[h].trows = g[h].trows /\ f[h].tmin = g[h].tmin
                     ELSE f[h].trows = f[h].tmax /\ f[h].tmin = f[h].tmax
<1> DEFINE h == Heir(q, s)
           f == Folded(q, g, s)
<1>1. h = NoScreen => f = g
  BY DEF Folded
<1>2. ASSUME h # NoScreen
      PROVE  /\ f \in Geometries /\ \A x \in Screen \ {h} : f[x] = g[x]
             /\ f[h] \in Geometry /\ f[h].map = g[h].map /\ f[h].window = g[h].window
             /\ f[h].rows = g[h].rows + g[s].rows
             /\ f[h].woff = IF At(q, s) > 1 THEN g[h].woff ELSE g[s].woff
             /\ f[h].tmax = g[h].rows + g[s].rows - 1
             /\ IF g[h].tmin # g[h].tmax
                THEN f[h].trows = g[h].trows /\ f[h].tmin = g[h].tmin
                ELSE f[h].trows = f[h].tmax /\ f[h].tmin = f[h].tmax
  <2> DEFINE a == g[h]
             rows == a.rows + g[s].rows
             woff == IF At(q, h) < At(q, s) THEN a.woff ELSE g[s].woff
             trows == IF a.tmin # a.tmax THEN a.trows ELSE rows - 1
             tmin == IF a.tmin # a.tmax THEN a.tmin ELSE rows - 1
             tmax == rows - 1
             y == Reshape(a, rows, woff, trows, tmin, tmax)
  <2>1. h \in Elems(q) /\ h \in Screen
    BY <1>2, HeirIs, Members
  <2>2. /\ a \in Geometry /\ a.rows \in Int /\ a.woff \in Int /\ a.trows \in Int
        /\ a.tmin \in Int /\ a.tmax \in Int
        /\ g[s].rows \in Int /\ g[s].woff \in Int
    BY <2>1 DEF Geometry
  <2>3. At(q, h) < At(q, s) <=> At(q, s) > 1
    <3>1. At(q, s) \in 1..Len(q) /\ Len(q) \in Nat
      BY AtIs
    <3>2. \A j \in 1..Len(q) : q[j] = h => j = At(q, h)
      BY <2>1, AtIs
    <3>3. IF At(q, s) > 1 THEN At(q, s) - 1 = At(q, h) ELSE At(q, s) = 1 /\ At(q, h) = 2
      BY <1>2, <3>1, <3>2, HeirIs
    <3> QED BY <3>1, <3>3
  <2>4. f = [g EXCEPT ![h] = y]
    <3> DEFINE z == [a EXCEPT !.rows = rows,
                              !.woff = IF At(q, h) < At(q, s) THEN @ ELSE g[s].woff,
                              !.trows = IF a.tmin # a.tmax THEN @ ELSE rows - 1,
                              !.tmin = IF a.tmin # a.tmax THEN @ ELSE rows - 1,
                              !.tmax = rows - 1]
    <3>1. f = [g EXCEPT ![h] = z]
      BY <1>2 DEF Folded
    <3>2. z = y
      BY <2>2 DEF Reshape, Geometry
    <3> HIDE DEF z, y
    <3> QED BY <3>1, <3>2
  <2> HIDE DEF a, h
  <2>5. rows \in Int /\ woff \in Int /\ trows \in Int /\ tmin \in Int /\ tmax \in Int
    BY <2>2
  <2>10. tmax = a.rows + g[s].rows - 1
    BY <2>2
  <2>12. a.tmin # a.tmax => trows = a.trows /\ tmin = a.tmin
    OBVIOUS
  <2>13. a.tmin = a.tmax => trows = tmax /\ tmin = tmax
    OBVIOUS
  <2> HIDE DEF rows, trows, tmin, tmax, y, f
  <2>6. /\ y.rows = rows /\ y.woff = woff /\ y.window = a.window
        /\ y.trows = trows /\ y.tmin = tmin /\ y.tmax = tmax
    BY <2>2, <2>5, Reshaped DEF y
  <2>7. y.map = a.map
    BY <2>2, <2>5, Reshaped DEF y
  <2>8. y \in Geometry
    BY <2>2, <2>5, Reshaped DEF y
  <2>9. f \in Geometries /\ f[h] = y /\ \A x \in Screen \ {h} : f[x] = g[x]
    BY <2>1, <2>4, <2>8 DEF Geometries
  <2> QED BY <2>3, <2>6, <2>7, <2>8, <2>9, <2>10, <2>12, <2>13 DEF a, rows
<1> QED BY <1>1, <1>2

LEMMA FoldedFits ==
  ASSUME NEW q, Queue(q), NEW s \in Elems(q), NEW g \in Geometries,
         \A x \in Elems(q) : g[x] \in Geometry, Heir(q, s) # NoScreen,
         Tiled(q, g), Fits(g[s]), Fits(g[Heir(q, s)])
  PROVE  Fits(Folded(q, g, s)[Heir(q, s)])
<1> DEFINE h == Heir(q, s)
           f == Folded(q, g, s)
           i == At(q, s)
           a == g[h]
           b == g[s]
           c == f[h]
<1>1. h \in Elems(q) /\ h \in Screen
  BY HeirIs, Members
<1>2. /\ a.rows \in Int /\ a.woff \in Int /\ a.trows \in Int /\ a.tmin \in Int /\ a.tmax \in Int
      /\ b.rows \in Int /\ b.woff \in Int
  BY <1>1 DEF Geometry
<1>3. /\ c.rows = a.rows + b.rows
      /\ c.woff = IF i > 1 THEN a.woff ELSE b.woff
  BY FoldedIs
<1>4. /\ c.tmax = a.rows + b.rows - 1
      /\ IF a.tmin # a.tmax THEN c.trows = a.trows /\ c.tmin = a.tmin
         ELSE c.trows = c.tmax /\ c.tmin = c.tmax
  BY FoldedIs
<1>5. IF i > 1 THEN a.woff + a.rows = b.woff ELSE b.woff + b.rows = a.woff
  <2>1. i \in 1..Len(q) /\ q[i] = s /\ Len(q) \in Nat
    BY AtIs
  <2>2. IF i > 1 THEN i - 1 \in 1..(Len(q) - 1) /\ h = q[i - 1] /\ (i - 1) + 1 = i
        ELSE i = 1 /\ 1 \in 1..(Len(q) - 1) /\ h = q[2] /\ 1 + 1 = 2
    BY <2>1, HeirIs
  <2>3. \A j \in 1..(Len(q) - 1) : g[q[j]].woff + g[q[j]].rows = g[q[j + 1]].woff
    BY DEF Tiled
  <2> QED BY <2>1, <2>2, <2>3
<1>6. /\ a.woff >= 0 /\ a.rows >= 2 /\ a.woff + a.rows <= Lines
      /\ a.tmin >= 1 /\ a.tmin <= a.trows /\ a.trows <= a.tmax /\ a.tmax = a.rows - 1
      /\ b.woff >= 0 /\ b.rows >= 2 /\ b.woff + b.rows <= Lines
  BY DEF Fits
<1> HIDE DEF a, b, c, h, i
<1>7. Lines \in Int
  BY ScreensAssumption
<1>8. c.woff >= 0 /\ c.rows >= 2 /\ c.woff + c.rows <= Lines
  BY <1>2, <1>3, <1>5, <1>6, <1>7
<1>9. c.tmin >= 1 /\ c.tmin <= c.trows /\ c.trows <= c.tmax /\ c.tmax = c.rows - 1
  BY <1>2, <1>3, <1>4, <1>6
<1>10. Fits(c)
  BY <1>8, <1>9 DEF Fits
<1> QED BY <1>10 DEF c, h

(* Taking s out of a tiling leaves one, when the geometry is folded.       *)
LEMMA FoldedTiles ==
  ASSUME NEW q, Queue(q), NEW s \in Elems(q), NEW g \in Geometries,
         \A x \in Elems(q) : g[x] \in Geometry, Heir(q, s) # NoScreen, Tiled(q, g),
         NEW p \in Seq(Screen), Between(p, At(q, s), s, q),
         NEW f, \A x \in Elems(p) : f[x] = Folded(q, g, s)[x]
  PROVE  Tiled(p, f)
<1> DEFINE h == Heir(q, s)
           i == At(q, s)
           k == IF i > 1 THEN i - 1 ELSE 1
           e == Folded(q, g, s)
<1>1. i \in 1..Len(q) /\ q[i] = s /\ Len(q) \in Nat
  BY AtIs
<1>2. Queue(p) /\ Elems(q) = Elems(p) \cup {s} /\ s \notin Elems(p) /\ Len(p) = Len(q) - 1
  <2> HIDE DEF i
  <2>1. Between(p, i, q[i], q)
    BY <1>1 DEF i
  <2> QED BY <1>1, <2>1, RemovedQueue
<1>3. /\ h \in Elems(q) \ {s}
      /\ IF i > 1 THEN i - 1 \in 1..Len(q) /\ h = q[i - 1]
         ELSE i = 1 /\ 2 \in 1..Len(q) /\ h = q[2]
  BY HeirIs
<1>4. k \in 1..Len(p) /\ i \in {k, k + 1} /\ p[k] = h
  <2>1. \A j \in 1..Len(p) : q[IF j < i THEN j ELSE j + 1] = p[j]
    BY DEF Between
  <2>2. CASE i > 1
    <3>1. k = i - 1 /\ k \in 1..Len(p) /\ k < i /\ i = k + 1
      BY <2>2, <1>1, <1>2
    <3> QED BY <2>1, <2>2, <3>1, <1>3
  <2>3. CASE i = 1
    <3>1. k = 1 /\ 1 \in 1..Len(p) /\ ~(1 < i) /\ 1 + 1 = 2
      BY <2>3, <1>1, <1>2, <1>3
    <3>2. q[2] = p[1]
      BY <2>1, <2>3, <3>1
    <3> QED BY <2>3, <3>1, <3>2, <1>3
  <2> QED BY <1>1, <2>2, <2>3
<1>5. /\ \A x \in Screen \ {h} : e[x] = g[x]
      /\ e[h] \in Geometry /\ e[h].rows = g[h].rows + g[s].rows
      /\ e[h].woff = IF i > 1 THEN g[h].woff ELSE g[s].woff
  BY FoldedIs
<1>6. Elems(p) \subseteq Screen /\ h \in Elems(p)
  BY <1>2, <1>3, Members
<1>7. f[h] = e[h] /\ \A x \in Elems(p) \ {h} : f[x] = g[x]
  BY <1>5, <1>6
<1> HIDE DEF h, i, e
<1>8. IF i > 1 THEN q[k] = h /\ q[k + 1] = s ELSE q[k] = s /\ q[k + 1] = h
  BY <1>1, <1>3
<1>9. IF i > 1 THEN g[h].woff + g[h].rows = g[s].woff ELSE g[s].woff + g[s].rows = g[h].woff
  <2>1. k \in 1..(Len(q) - 1)
    BY <1>1, <1>2, <1>4
  <2>2. g[q[k]].woff + g[q[k]].rows = g[q[k + 1]].woff
    BY <2>1 DEF Tiled
  <2> QED BY <1>8, <2>2
<1>10. /\ g[h].woff \in Int /\ g[h].rows \in Int /\ g[s].woff \in Int /\ g[s].rows \in Int
  BY <1>3 DEF Geometry
<1>11. g[q[k]].woff = f[p[k]].woff
  BY <1>4, <1>5, <1>7, <1>8
<1>12. g[q[k + 1]].woff + g[q[k + 1]].rows = f[p[k]].woff + f[p[k]].rows
  <2>1. f[p[k]].rows = g[h].rows + g[s].rows
    BY <1>4, <1>5, <1>7
  <2>2. f[p[k]].woff = IF i > 1 THEN g[h].woff ELSE g[s].woff
    BY <1>4, <1>5, <1>7
  <2>3. CASE i > 1
    BY <2>1, <2>2, <2>3, <1>8, <1>9, <1>10
  <2>4. CASE ~(i > 1)
    BY <2>1, <2>2, <2>4, <1>8, <1>9, <1>10
  <2> QED BY <2>3, <2>4
<1> HIDE DEF k
<1>13. Cut(p, f, k, q, g)
  <2>1. \A x \in Elems(p) \ {p[k]} : SameRows(g[x], f[x])
    BY <1>4, <1>7 DEF SameRows
  <2>2. Between(p, i, s, q)
    BY DEF i
  <2> QED BY <1>2, <1>4, <1>11, <1>12, <2>1, <2>2, InsertCuts
<1>14. Measured(p, f)
  <2>1. ASSUME NEW x \in Elems(p)
        PROVE  f[x] \in Geometry
    BY <1>2, <1>5, <1>7
  <2> QED BY <2>1 DEF Measured, Geometry
<1>15. Measured(q, g)
  BY DEF Measured, Geometry
<1> QED BY <1>2, <1>13, <1>14, <1>15, CutTiles

-----------------------------------------------------------------------------
(* What the invariant says of the screens an action touches.               *)

LEMMA Known ==
  ASSUME IInv
  PROVE  /\ scr \in Geometries /\ vi \in BOOLEAN /\ cur \in Screen \cup {NoScreen}
         /\ Queue(dq) /\ Queue(hq) /\ Elems(dq) \cap Elems(hq) = {}
         /\ Elems(dq) \subseteq Screen /\ Elems(hq) \subseteq Screen
         /\ \A s \in Elems(dq) \cup Elems(hq) : scr[s] \in Geometry /\ scr[s].window \in Int
         /\ \A s \in Screen : Exists(s) <=> s \in Elems(dq) \cup Elems(hq)
         /\ \A s \in Screen : scr[s] = NoScreen <=> s \notin Elems(dq) \cup Elems(hq)
         /\ cur # NoScreen => cur \in Elems(dq) /\ cur \in Screen /\ scr[cur] \in Geometry
         /\ vi => Tiled(dq, scr) /\ \A s \in Elems(dq) : scr[s].map = TRUE
<1>1. /\ scr \in Geometries /\ vi \in BOOLEAN /\ cur \in Screen \cup {NoScreen}
      /\ Queue(dq) /\ Queue(hq) /\ Elems(dq) \cap Elems(hq) = {}
      /\ \A s \in Screen : scr[s] \in Geometry <=> s \in Elems(dq) \cup Elems(hq)
      /\ cur # NoScreen => cur \in Elems(dq)
      /\ vi => Tiled(dq, scr)
  BY DEF IInv, QueuesSound, Types, Queues, Tiling
<1>2. vi => \A s \in Elems(dq) : scr[s].map = TRUE
  BY DEF IInv, QueuesSound, Queues
<1>3. Elems(dq) \subseteq Screen /\ Elems(hq) \subseteq Screen
  BY <1>1, Members
<1>4. \A s \in Screen : scr[s] \in Geometry \/ scr[s] = NoScreen
  BY <1>1 DEF Geometries
<1>5. NoScreen \notin Geometry
  BY ScreensAssumption
<1>6. \A s \in Elems(dq) \cup Elems(hq) : scr[s] \in Geometry
  BY <1>1, <1>3
<1>7. \A s \in Elems(dq) \cup Elems(hq) : scr[s].window \in Int
  BY <1>6 DEF Geometry
<1>8. \A s \in Screen : Exists(s) <=> s \in Elems(dq) \cup Elems(hq)
  BY <1>1, <1>4, <1>5 DEF Exists
<1> QED BY <1>1, <1>2, <1>3, <1>4, <1>5, <1>6, <1>7, <1>8

LEMMA HeldIn ==
  ASSUME NEW q, NEW s
  PROVE  Contains(q, s) <=> s \in Elems(q)
BY DEF Contains, Elems

(* The current screen is split for n: the geometry g and the queue q.      *)
SplitFor(n, w, g, q) ==
  /\ g \in Geometries /\ \A x \in Screen \ {n, cur} : g[x] = scr[x]
  /\ g[n] \in Geometry /\ g[n].map = TRUE /\ g[n].window = w
  /\ g[cur] \in Geometry /\ g[cur].map = TRUE /\ g[cur].window = scr[cur].window
  /\ Queue(q) /\ Elems(q) = Elems(dq) \cup {n} /\ Between(dq, At(q, n), n, q)
  /\ Tiled(q, g)
  /\ RegularOnly /\ w >= 1 => Fits(g[n]) /\ Fits(g[cur])

LEMMA SplitIs ==
  ASSUME IInv, CanSplit, NEW n \in Screen, n \notin Elems(dq), NEW ccl \in BOOLEAN,
         NEW smp \in Cursors(ccl), NEW w \in Int
  PROVE  SplitFor(n, w, SplitGeometry(n, ccl, smp, w), SplitOrder(n, ccl, smp))
<1> DEFINE x == SplitOld(cur, ccl, smp)
           y == SplitNew(cur, ccl, smp, w)
           g == SplitGeometry(n, ccl, smp, w)
           q == SplitOrder(n, ccl, smp)
           up == SplitUp(cur, ccl, smp)
           half == HalfOf(cur, ccl)
           k == At(dq, cur)
           i == k + IF up THEN 0 ELSE 1
<1>1. /\ cur # NoScreen /\ vi /\ scr[cur].rows >= 4
  BY DEF CanSplit, InVi
<1>2. /\ scr \in Geometries /\ Queue(dq) /\ Elems(dq) \subseteq Screen
      /\ cur \in Elems(dq) /\ cur \in Screen /\ scr[cur] \in Geometry /\ cur # n
      /\ \A s \in Elems(dq) : scr[s] \in Geometry
      /\ Tiled(dq, scr) /\ scr[cur].map = TRUE
  BY <1>1, Known
<1>3. scr[cur].rows \in Int /\ scr[cur].woff \in Int /\ half \in Int
  BY <1>2, HalfIs DEF Geometry
<1>4. /\ x \in Geometry /\ x.window = scr[cur].window
      /\ x.rows = IF up THEN half ELSE scr[cur].rows - half
      /\ x.woff = IF up THEN scr[cur].woff + (scr[cur].rows - half) ELSE scr[cur].woff
  BY <1>2, SplitOldIs
<1>5. x.map = TRUE
  BY <1>2, SplitOldIs
<1>20. NewPart(y, cur, ccl, smp, w)
  BY <1>2, SplitNewIs
<1>21. y \in Geometry
  BY <1>20 DEF NewPart
<1>6. /\ y.window = w
      /\ y.rows = IF up THEN scr[cur].rows - half ELSE half
      /\ y.woff = IF up THEN scr[cur].woff ELSE scr[cur].woff + (scr[cur].rows - half)
  <2> HIDE DEF y, up, half
  <2> QED BY <1>20 DEF NewPart, up, half
<1>7. y.map = TRUE
  BY <1>20 DEF NewPart
<1>8. RegularOnly /\ w >= 1 => Fits(x) /\ Fits(y)
  <2> SUFFICES ASSUME RegularOnly, w >= 1
               PROVE  Fits(x) /\ Fits(y)
    OBVIOUS
  <2>1. Fits(scr[cur])
    BY <1>1, <1>2 DEF IInv, TextFits
  <2>2. IsSmall(cur) /\ up => KeepsText(cur, scr[cur].rows - half)
    BY DEF Cursors, Regular
  <2>3. Fits(x)
    BY <1>1, <1>2, <2>1, <2>2, SplitOldIs
  <2>4. Fits(y)
    BY <1>1, <1>20, <2>1 DEF NewPart
  <2> QED BY <2>3, <2>4
<1>9. g = [scr EXCEPT ![cur] = x, ![n] = y]
  BY DEF SplitGeometry
<1>10. q = InsertAt(dq, i, n)
  BY DEF SplitOrder
<1>11. k \in 1..Len(dq) /\ dq[k] = cur /\ Len(dq) \in Nat
  BY <1>2, AtIs
<1> HIDE DEF x, y, g, q, up, half, k
<1>12. /\ g \in Geometries /\ g[cur] = x /\ g[n] = y
       /\ \A z \in Screen \ {n, cur} : g[z] = scr[z]
  BY <1>2, <1>4, <1>21, <1>9 DEF Geometries
<1>13. i \in 1..(Len(dq) + 1) /\ i \in {k, k + 1} /\ (IF up THEN i = k ELSE i = k + 1)
  BY <1>11
<1> HIDE DEF i
<1>14. q \in Seq(Screen) /\ Between(dq, i, n, q)
  BY <1>2, <1>10, <1>13, InsertIs DEF Queue
<1>15. Queue(q) /\ Elems(q) = Elems(dq) \cup {n}
  BY <1>2, <1>14, InsertedQueue
<1>16. i = At(q, n) /\ q[i] = n
  <2>1. i \in 1..Len(q) /\ q[i] = n /\ n \in Elems(q)
    BY <1>11, <1>13, <1>14, <1>15 DEF Between
  <2> QED BY <2>1, <1>15, AtIs
<1>17. IF up THEN q[k] = n /\ q[k + 1] = cur ELSE q[k] = cur /\ q[k + 1] = n
  <2>1. \A j \in 1..Len(dq) : q[IF j < i THEN j ELSE j + 1] = dq[j]
    BY <1>14 DEF Between
  <2>2. q[IF k < i THEN k ELSE k + 1] = cur
    BY <2>1, <1>11
  <2>3. CASE up
    BY <2>2, <2>3, <1>11, <1>13, <1>16
  <2>4. CASE ~up
    BY <2>2, <2>4, <1>11, <1>13, <1>16
  <2> QED BY <2>3, <2>4
<1>18. /\ g[q[k]].woff = scr[cur].woff
       /\ g[q[k]].woff + g[q[k]].rows = g[q[k + 1]].woff
       /\ g[q[k + 1]].woff + g[q[k + 1]].rows = scr[cur].woff + scr[cur].rows
  <2>1. CASE up
    <3>1. g[q[k]] = y /\ g[q[k + 1]] = x
      BY <2>1, <1>12, <1>17
    <3> QED BY <2>1, <3>1, <1>3, <1>4, <1>6
  <2>2. CASE ~up
    <3>1. g[q[k]] = x /\ g[q[k + 1]] = y
      BY <2>2, <1>12, <1>17
    <3> QED BY <2>2, <3>1, <1>3, <1>4, <1>6
  <2> QED BY <2>1, <2>2
<1>19. Tiled(q, g)
  <2>1. \A z \in Elems(dq) \ {cur} : SameRows(g[z], scr[z])
    BY <1>2, <1>12 DEF SameRows
  <2>2. Cut(dq, scr, k, q, g)
    BY <1>2, <1>11, <1>13, <1>14, <1>18, <2>1, InsertCuts
  <2>3. Measured(dq, scr)
    BY <1>2 DEF Measured, Geometry
  <2>4. \A z \in Elems(q) : g[z] \in Geometry
    BY <1>2, <1>4, <1>21, <1>12, <1>15
  <2>5. Measured(q, g)
    BY <2>4 DEF Measured, Geometry
  <2> QED BY <1>2, <1>15, <1>18, <2>2, <2>3, <2>5, CutTiles
<1> QED BY <1>4, <1>5, <1>6, <1>21, <1>7, <1>8, <1>12, <1>14, <1>15, <1>16, <1>19 DEF g, q, SplitFor

-----------------------------------------------------------------------------
(* Each action keeps the invariant.                                        *)

(* What an action has to establish.                                        *)
LEMMA Rebuilt ==
  ASSUME scr' \in Geometries, vi' \in BOOLEAN, Queue(dq'), Queue(hq'),
         Elems(dq') \cap Elems(hq') = {},
         \A s \in Elems(dq') \cup Elems(hq') : scr'[s] \in Geometry,
         \A s \in Screen \ (Elems(dq') \cup Elems(hq')) : scr'[s] = NoScreen,
         IF cur' = NoScreen THEN dq' = <<>>
         ELSE cur' \in Elems(dq') /\ (vi' \/ dq' = <<cur'>>),
         vi' => Tiled(dq', scr') /\ \A s \in Elems(dq') : scr'[s].map = TRUE,
         RegularOnly => /\ \A s \in Elems(dq') \cup Elems(hq') : scr'[s].window >= 1
                        /\ vi' => \A s \in Elems(dq') : Fits(scr'[s])
  PROVE  IInv'
<1>1. NoScreen \notin Geometry
  BY ScreensAssumption
<1>2. Types'
  BY Members DEF Types
<1>3. \A s \in Screen : scr'[s] \in Geometry <=> s \in Elems(dq') \cup Elems(hq')
  BY <1>1
<1>4. Queues'
  BY <1>3 DEF Queues
<1>5. Tiling'
  BY DEF Tiling
<1>6. RegularOnly => TextFits'
  BY DEF TextFits
<1> QED BY <1>2, <1>4, <1>5, <1>6 DEF IInv, QueuesSound

LEMMA RegularText ==
  ASSUME IInv, RegularOnly
  PROVE  /\ \A s \in Elems(dq) \cup Elems(hq) : scr[s].window >= 1
         /\ vi => \A s \in Elems(dq) : Fits(scr[s])
BY DEF IInv, TextFits

LEMMA SplitStep ==
  ASSUME IInv, NEW n \in Screen, NEW ccl \in BOOLEAN, Split(n, ccl)
  PROVE  IInv'
<1>1. CanSplit /\ ~Exists(n) /\ hq' = hq /\ vi' = vi /\ vi = TRUE /\ cur # NoScreen
  BY DEF Split, CanSplit, InVi
<1>2. PICK smp \in Cursors(ccl), opens \in BOOLEAN :
        LET g == SplitGeometry(n, ccl, smp, scr[cur].window)
            q == SplitOrder(n, ccl, smp)
        IN  IF opens \/ ccl
            THEN /\ scr' = g /\ dq' = q /\ cur' = n
            ELSE /\ scr' = [Folded(q, g, n) EXCEPT ![n] = NoScreen]
                 /\ UNCHANGED <<dq, cur>>
  BY DEF Split
<1> DEFINE g == SplitGeometry(n, ccl, smp, scr[cur].window)
           q == SplitOrder(n, ccl, smp)
<1>3. /\ scr \in Geometries /\ Queue(dq) /\ Queue(hq) /\ Elems(dq) \cap Elems(hq) = {}
      /\ Elems(dq) \subseteq Screen /\ Elems(hq) \subseteq Screen
      /\ \A s \in Elems(dq) \cup Elems(hq) : scr[s] \in Geometry
      /\ \A s \in Screen : scr[s] = NoScreen <=> s \notin Elems(dq) \cup Elems(hq)
      /\ n \notin Elems(dq) /\ n \notin Elems(hq)
      /\ cur \in Elems(dq) /\ cur \in Screen /\ scr[cur].window \in Int
      /\ Tiled(dq, scr) /\ \A s \in Elems(dq) : scr[s].map = TRUE
  BY <1>1, Known
<1>4. /\ g \in Geometries /\ \A x \in Screen \ {n, cur} : g[x] = scr[x]
      /\ g[n] \in Geometry /\ g[n].map = TRUE /\ g[n].window = scr[cur].window
      /\ g[cur] \in Geometry /\ g[cur].map = TRUE /\ g[cur].window = scr[cur].window
      /\ Queue(q) /\ Elems(q) = Elems(dq) \cup {n} /\ Between(dq, At(q, n), n, q)
      /\ Tiled(q, g)
      /\ RegularOnly /\ scr[cur].window >= 1 => Fits(g[n]) /\ Fits(g[cur])
  <2>1. SplitFor(n, scr[cur].window, g, q)
    BY <1>1, <1>3, SplitIs
  <2> HIDE DEF g, q
  <2> QED BY <2>1 DEF SplitFor
<1>5. RegularOnly => /\ \A s \in Elems(dq) \cup Elems(hq) : scr[s].window >= 1
                     /\ \A s \in Elems(dq) : Fits(scr[s])
  BY <1>1, RegularText
<1> HIDE DEF g, q
<1>6. n # NoScreen /\ cur # n
  BY <1>3, ScreensAssumption
<1>7. /\ \A s \in Elems(q) : g[s] \in Geometry /\ g[s].map = TRUE
      /\ RegularOnly => \A s \in Elems(q) : g[s].window >= 1 /\ Fits(g[s])
  <2>1. ASSUME NEW s \in Elems(q)
        PROVE  g[s] \in Geometry /\ g[s].map = TRUE
    BY <1>3, <1>4
  <2>2. ASSUME NEW s \in Elems(q), RegularOnly
        PROVE  g[s].window >= 1 /\ Fits(g[s])
    BY <1>3, <1>4, <1>5, <2>2
  <2> QED BY <2>1, <2>2
<1>8. CASE opens \/ ccl
  <2>1. scr' = g /\ dq' = q /\ cur' = n
    BY <1>2, <1>8 DEF g, q
  <2>2. Elems(dq') \cap Elems(hq') = {}
    BY <1>1, <1>3, <1>4, <2>1
  <2>3. \A s \in Elems(dq') \cup Elems(hq') : scr'[s] \in Geometry
    BY <1>1, <1>3, <1>4, <1>7, <2>1
  <2>4. \A s \in Screen \ (Elems(dq') \cup Elems(hq')) : scr'[s] = NoScreen
    BY <1>1, <1>3, <1>4, <2>1
  <2>5. RegularOnly => /\ \A s \in Elems(dq') \cup Elems(hq') : scr'[s].window >= 1
                       /\ \A s \in Elems(dq') : Fits(scr'[s])
    BY <1>1, <1>3, <1>4, <1>5, <1>7, <2>1
  <2>6. n \in Elems(q)
    BY <1>4
  <2> QED BY <1>1, <1>3, <1>4, <1>6, <1>7, <2>1, <2>2, <2>3, <2>4, <2>5, <2>6, Rebuilt
<1>9. CASE ~(opens \/ ccl)
  <2> DEFINE h == Heir(q, n)
             f == Folded(q, g, n)
  <2>1. scr' = [f EXCEPT ![n] = NoScreen] /\ dq' = dq /\ cur' = cur
    BY <1>2, <1>9 DEF g, q
  <2>2. h # NoScreen /\ h \in Elems(dq) /\ h \in Screen
    <3>1. cur \in Elems(q) /\ cur # n /\ n \in Elems(q)
      BY <1>3, <1>4
    <3>2. h = NoScreen => Elems(q) = {n}
      BY <1>4, <3>1, HeirIs
    <3>3. h # NoScreen => h \in Elems(q) \ {n}
      BY <1>4, <3>1, HeirIs
    <3> QED BY <1>3, <1>4, <3>1, <3>2, <3>3
  <2>3. /\ f \in Geometries /\ \A x \in Screen \ {h} : f[x] = g[x]
        /\ f[h] \in Geometry /\ f[h].map = g[h].map /\ f[h].window = g[h].window
    BY <1>4, <1>7, <2>2, FoldedIs
  <2> HIDE DEF f, h
  <2>4. /\ scr' \in Geometries /\ scr'[n] = NoScreen /\ scr'[h] = f[h]
        /\ \A x \in Screen \ {n, h} : scr'[x] = g[x]
    BY <1>3, <2>1, <2>2, <2>3 DEF Geometries
  <2>5. \A s \in Elems(dq') : scr'[s] \in Geometry /\ scr'[s].map = TRUE
    BY <1>3, <1>4, <1>7, <2>1, <2>2, <2>3, <2>4
  <2>6. \A s \in Elems(hq') : scr'[s] = scr[s]
    BY <1>1, <1>3, <2>2, <2>4, <1>4
  <2>7. \A s \in Screen \ (Elems(dq') \cup Elems(hq')) : scr'[s] = NoScreen
    BY <1>1, <1>3, <1>4, <2>1, <2>2, <2>4
  <2>8. Tiled(dq', scr')
    <3>1. \A x \in Elems(dq) : scr'[x] = f[x]
      BY <1>3, <2>2, <2>3, <2>4
    <3>2. Tiled(dq, scr')
      BY <1>3, <1>4, <1>7, <2>2, <3>1, FoldedTiles DEF f, h, Queue
    <3> QED BY <3>2, <2>1
  <2>9. RegularOnly => \A s \in Elems(dq') : scr'[s].window >= 1 /\ Fits(scr'[s])
    <3> SUFFICES ASSUME RegularOnly, NEW s \in Elems(dq)
                 PROVE  scr'[s].window >= 1 /\ Fits(scr'[s])
      BY <2>1
    <3>1. s \in Elems(q) /\ s # n /\ s \in Screen /\ h \in Elems(q)
      BY <1>3, <1>4, <2>2
    <3>2. CASE s # h
      BY <3>1, <3>2, <1>7, <2>4
    <3>3. CASE s = h
      <4>1. Fits(g[h]) /\ Fits(g[n]) /\ g[h].window >= 1
        BY <1>4, <1>7, <3>1
      <4>2. Fits(f[h])
        BY <1>4, <1>7, <2>2, <4>1, FoldedFits DEF f, h
      <4> QED BY <3>3, <4>1, <4>2, <2>3, <2>4
    <3> QED BY <3>2, <3>3
  <2>10. RegularOnly => \A s \in Elems(hq') : scr'[s].window >= 1
    BY <1>1, <1>5, <2>6
  <2>11. \A s \in Elems(dq') \cup Elems(hq') : scr'[s] \in Geometry
    BY <1>1, <1>3, <2>5, <2>6
  <2> QED BY <1>1, <1>3, <1>6, <2>1, <2>4, <2>5, <2>7, <2>8, <2>9, <2>10, <2>11, Rebuilt
<1> QED BY <1>8, <1>9

(* Taking a screen out of the queue it is in.                              *)
LEMMA Taken ==
  ASSUME NEW q, Queue(q), NEW n \in Elems(q)
  PROVE  LET p == RemoveAt(q, At(q, n))
         IN  /\ p \in Seq(Screen) /\ Queue(p) /\ n \notin Elems(p)
             /\ Elems(q) = Elems(p) \cup {n} /\ Between(p, At(q, n), n, q)
<1> DEFINE i == At(q, n)
           p == RemoveAt(q, i)
<1>1. i \in 1..Len(q) /\ q[i] = n /\ q \in Seq(Screen)
  BY AtIs DEF Queue
<1> HIDE DEF i
<1>2. p \in Seq(Screen) /\ Between(p, i, q[i], q)
  BY <1>1, RemoveIs
<1> HIDE DEF p
<1>3. Queue(p) /\ Elems(q) = Elems(p) \cup {q[i]} /\ q[i] \notin Elems(p)
  BY <1>2, RemovedQueue
<1> QED BY <1>1, <1>2, <1>3 DEF i, p

LEMMA FgNewStep ==
  ASSUME IInv, NEW n \in Screen, FgNew(n)
  PROVE  IInv'
<1>1. n \in Elems(hq) /\ vi' = vi /\ vi = TRUE /\ cur # NoScreen
  BY HeldIn DEF FgNew, InVi
<1>2. /\ scr \in Geometries /\ Queue(dq) /\ Queue(hq) /\ Elems(dq) \cap Elems(hq) = {}
      /\ Elems(dq) \subseteq Screen /\ Elems(hq) \subseteq Screen
      /\ \A s \in Elems(dq) \cup Elems(hq) : scr[s] \in Geometry
      /\ \A s \in Screen : scr[s] = NoScreen <=> s \notin Elems(dq) \cup Elems(hq)
      /\ n \notin Elems(dq)
      /\ cur \in Elems(dq) /\ cur \in Screen /\ scr[n].window \in Int
      /\ Tiled(dq, scr) /\ \A s \in Elems(dq) : scr[s].map = TRUE
  BY <1>1, Known
<1>3. RegularOnly => /\ \A s \in Elems(dq) \cup Elems(hq) : scr[s].window >= 1
                     /\ \A s \in Elems(dq) : Fits(scr[s])
  BY <1>1, RegularText
<1> DEFINE p == RemoveAt(hq, At(hq, n))
<1>4. Queue(p) /\ Elems(hq) = Elems(p) \cup {n} /\ n \notin Elems(p)
  BY <1>1, <1>2, Taken
<1>5. CASE scr[cur].rows < 4
  <2>1. hq' = Append(p, n) /\ scr' = scr /\ dq' = dq /\ cur' = cur
    BY <1>5 DEF FgNew
  <2> HIDE DEF p
  <2>2. Queue(hq') /\ Elems(hq') = Elems(hq)
    BY <1>4, <2>1, AppendedQueue
  <2> QED BY <1>1, <1>2, <1>3, <2>1, <2>2, Rebuilt
<1>6. CASE ~(scr[cur].rows < 4)
  <2>1. PICK smp \in Cursors(FALSE) :
          /\ scr' = [SplitGeometry(n, FALSE, smp, scr[n].window) EXCEPT ![n].ccl = scr[n].ccl]
          /\ dq' = SplitOrder(n, FALSE, smp)
          /\ hq' = p
          /\ cur' = n
    BY <1>6 DEF FgNew
  <2> DEFINE g == SplitGeometry(n, FALSE, smp, scr[n].window)
             q == SplitOrder(n, FALSE, smp)
             y == Colon(g[n], scr[n].ccl)
  <2>2. CanSplit
    <3>1. scr[cur].rows \in Int
      BY <1>2 DEF Geometry
    <3> QED BY <1>1, <1>6, <3>1 DEF CanSplit, InVi
  <2>3. SplitFor(n, scr[n].window, g, q)
    BY <1>1, <1>2, <2>2, SplitIs
  <2>4. scr' = [g EXCEPT ![n] = y] /\ dq' = q
    BY <2>1 DEF Colon
  <2> HIDE DEF g, q, p
  <2>5. /\ g \in Geometries /\ \A x \in Screen \ {n, cur} : g[x] = scr[x]
        /\ g[n] \in Geometry /\ g[n].map = TRUE /\ g[n].window = scr[n].window
        /\ g[cur] \in Geometry /\ g[cur].map = TRUE /\ g[cur].window = scr[cur].window
        /\ Queue(q) /\ Elems(q) = Elems(dq) \cup {n}
        /\ Tiled(q, g)
        /\ RegularOnly /\ scr[n].window >= 1 => Fits(g[n]) /\ Fits(g[cur])
    BY <2>3 DEF SplitFor
  <2>6. scr[n].ccl \in BOOLEAN
    BY <1>1, <1>2 DEF Geometry
  <2>7. y \in Geometry /\ SameShape(y, g[n])
    BY <2>5, <2>6, ColonIs
  <2>8. y.map = TRUE
    BY <2>5, <2>6, ColonIs
  <2> HIDE DEF y
  <2>9. /\ scr' \in Geometries /\ scr'[n] = y
        /\ \A x \in Screen \ {n} : scr'[x] = g[x]
    BY <2>4, <2>5, <2>7 DEF Geometries
  <2>10. y.window = scr[n].window /\ SameRows(y, g[n]) /\ (Fits(g[n]) => Fits(y))
    <3>1. y.window = g[n].window
      BY <2>7 DEF SameShape
    <3> QED BY <3>1, <2>5, <2>7, SameFits
  <2>11. Tiled(dq', scr')
    <3>1. \A j \in 1..Len(q) : q[j] \in Elems(q) /\ q[j] \in Screen
      BY <1>2, <2>5, Members
    <3>2. \A j \in 1..Len(q) : SameRows(scr'[q[j]], g[q[j]])
      BY <2>9, <2>10, <3>1 DEF SameRows
    <3> QED BY <2>4, <2>5, <3>2, SameTiles
  <2>12. n # cur /\ n # NoScreen /\ n \in Elems(q)
    BY <1>2, <2>5, ScreensAssumption
  <2>13. \A s \in Elems(dq') : scr'[s] \in Geometry /\ scr'[s].map = TRUE
    BY <1>2, <2>4, <2>5, <2>7, <2>8, <2>9, <2>12
  <2>14. \A s \in Elems(hq') : scr'[s] = scr[s] /\ s \in Elems(hq)
    BY <1>2, <1>4, <2>1, <2>5, <2>9
  <2>15. \A s \in Screen \ (Elems(dq') \cup Elems(hq')) : scr'[s] = NoScreen
    BY <1>2, <1>4, <2>1, <2>4, <2>5, <2>9
  <2>16. RegularOnly => \A s \in Elems(dq') : scr'[s].window >= 1 /\ Fits(scr'[s])
    <3> SUFFICES ASSUME RegularOnly, NEW s \in Elems(q)
                 PROVE  scr'[s].window >= 1 /\ Fits(scr'[s])
      BY <2>4
    <3>1. scr[n].window >= 1
      BY <1>1, <1>3
    <3> QED BY <1>2, <1>3, <2>5, <2>9, <2>10, <2>12, <3>1
  <2>17. Elems(dq') \cap Elems(hq') = {}
    BY <1>2, <1>4, <2>1, <2>4, <2>5
  <2>18. RegularOnly => \A s \in Elems(hq') : scr'[s].window >= 1
    BY <1>3, <2>14
  <2>19. \A s \in Elems(dq') \cup Elems(hq') : scr'[s] \in Geometry
    BY <1>2, <2>13, <2>14
  <2> QED BY <1>1, <1>4, <2>1, <2>4, <2>5, <2>9, <2>11, <2>12, <2>13, <2>15, <2>16, <2>17,
             <2>18, <2>19, Rebuilt
<1> QED BY <1>5, <1>6

LEMMA FgStep ==
  ASSUME IInv, NEW n \in Screen, Fg(n)
  PROVE  IInv'
<1> DEFINE p == RemoveAt(hq, At(hq, n))
           k == At(dq, cur)
           y == Replacing(n, cur)
<1>1. /\ n \in Elems(hq) /\ vi' = vi /\ vi = TRUE /\ cur # NoScreen
      /\ scr' = [scr EXCEPT ![n] = y]
      /\ dq' = ReplaceAt(dq, k, n) /\ hq' = Append(p, cur) /\ cur' = n
      /\ RegularOnly => (IsSmall(n) => scr[n].tmax = scr[cur].rows - 1)
  BY HeldIn DEF Fg, InVi, Regular
<1>2. /\ scr \in Geometries /\ Queue(dq) /\ Queue(hq) /\ Elems(dq) \cap Elems(hq) = {}
      /\ Elems(dq) \subseteq Screen /\ Elems(hq) \subseteq Screen
      /\ \A s \in Elems(dq) \cup Elems(hq) : scr[s] \in Geometry
      /\ \A s \in Screen : scr[s] = NoScreen <=> s \notin Elems(dq) \cup Elems(hq)
      /\ n \notin Elems(dq)
      /\ cur \in Elems(dq) /\ cur \in Screen /\ cur \notin Elems(hq)
      /\ Tiled(dq, scr) /\ \A s \in Elems(dq) : scr[s].map = TRUE
  BY <1>1, Known
<1>3. RegularOnly => /\ \A s \in Elems(dq) \cup Elems(hq) : scr[s].window >= 1
                     /\ \A s \in Elems(dq) : Fits(scr[s])
  BY <1>1, RegularText
<1>4. Queue(p) /\ Elems(hq) = Elems(p) \cup {n} /\ n \notin Elems(p)
  BY <1>1, <1>2, Taken
<1>5. k \in 1..Len(dq) /\ dq[k] = cur
  BY <1>2, AtIs
<1>6. y \in Geometry /\ y.window = scr[n].window /\ SameRows(y, scr[cur])
  BY <1>1, <1>2, ReplacingIs
<1>7. y.map = TRUE
  BY <1>1, <1>2, ReplacingIs
<1>8. (Fits(scr[cur]) /\ scr[n].window >= 1
        /\ (IsSmall(n) => scr[n].tmax = scr[cur].rows - 1)) => Fits(y)
  BY <1>1, <1>2, ReplacingIs
<1> HIDE DEF p, k, y
<1>9. /\ Queue(dq') /\ Elems(dq') = (Elems(dq) \ {cur}) \cup {n} /\ Len(dq') = Len(dq)
      /\ \A j \in 1..Len(dq) : dq'[j] = IF j = k THEN n ELSE dq[j]
  BY <1>1, <1>2, <1>5, ReplacedQueue
<1>10. Queue(hq') /\ Elems(hq') = Elems(p) \cup {cur}
  BY <1>1, <1>2, <1>4, AppendedQueue
<1>11. scr' \in Geometries /\ scr'[n] = y /\ \A x \in Screen \ {n} : scr'[x] = scr[x]
  BY <1>1, <1>2, <1>6 DEF Geometries
<1>12. Tiled(dq', scr')
  <2>1. ASSUME NEW j \in 1..Len(dq)
        PROVE  SameRows(scr'[dq'[j]], scr[dq[j]])
    <3>1. CASE j = k
      BY <3>1, <1>5, <1>6, <1>9, <1>11
    <3>2. CASE j # k
      <4>1. dq[j] \in Screen /\ dq[j] # n
        BY <1>2, Members
      <4> QED BY <3>2, <4>1, <1>9, <1>11 DEF SameRows
    <3> QED BY <3>1, <3>2
  <2> QED BY <2>1, <1>2, <1>9, SameTiles
<1>13. n # NoScreen /\ n # cur
  BY <1>2, ScreensAssumption
<1>14. \A s \in Elems(dq') : scr'[s] \in Geometry /\ scr'[s].map = TRUE
  BY <1>2, <1>6, <1>7, <1>9, <1>11
<1>15. \A s \in Elems(hq') : scr'[s] = scr[s] /\ s \in Elems(dq) \cup Elems(hq)
  BY <1>2, <1>4, <1>10, <1>11
<1>16. Elems(dq') \cap Elems(hq') = {}
  BY <1>2, <1>4, <1>9, <1>10
<1>17. \A s \in Screen \ (Elems(dq') \cup Elems(hq')) : scr'[s] = NoScreen
  BY <1>2, <1>4, <1>9, <1>10, <1>11
<1>18. RegularOnly => /\ \A s \in Elems(dq') \cup Elems(hq') : scr'[s].window >= 1
                      /\ \A s \in Elems(dq') : Fits(scr'[s])
  <2> SUFFICES ASSUME RegularOnly
               PROVE  /\ \A s \in Elems(dq') \cup Elems(hq') : scr'[s].window >= 1
                      /\ \A s \in Elems(dq') : Fits(scr'[s])
    OBVIOUS
  <2>1. Fits(y) /\ y.window >= 1
    BY <1>1, <1>2, <1>3, <1>6, <1>8
  <2>2. \A s \in Elems(dq') : scr'[s].window >= 1 /\ Fits(scr'[s])
    BY <2>1, <1>2, <1>3, <1>9, <1>11
  <2>3. \A s \in Elems(hq') : scr'[s].window >= 1
    BY <1>3, <1>15
  <2> QED BY <2>2, <2>3
<1>19. \A s \in Elems(dq') \cup Elems(hq') : scr'[s] \in Geometry
  BY <1>2, <1>14, <1>15
<1>20. n \in Elems(dq')
  BY <1>9
<1> QED BY <1>1, <1>9, <1>10, <1>11, <1>12, <1>13, <1>14, <1>16, <1>17, <1>18, <1>19, <1>20, Rebuilt

(* The current screen leaves dq, which becomes p; its rows go to its heir, *)
(* and f is the geometry of the other screens.                             *)
LeftTo(p, f) ==
  /\ Queue(p) /\ Elems(dq) = Elems(p) \cup {cur} /\ cur \notin Elems(p)
  /\ Heir(dq, cur) \in Elems(p)
  /\ \A s \in Elems(p) : f[s] \in Geometry /\ f[s].map = TRUE
  /\ \A s \in Screen \ Elems(dq) : f[s] = scr[s]
  /\ Tiled(p, f)
  /\ RegularOnly => \A s \in Elems(p) : f[s].window >= 1 /\ Fits(f[s])

LEMMA Leaving ==
  ASSUME IInv, InVi, Heir(dq, cur) # NoScreen, NEW f,
         \A x \in Screen \ {cur} : f[x] = Folded(dq, scr, cur)[x]
  PROVE  LeftTo(RemoveAt(dq, At(dq, cur)), f)
<1> DEFINE p == RemoveAt(dq, At(dq, cur))
           h == Heir(dq, cur)
           e == Folded(dq, scr, cur)
<1>1. /\ scr \in Geometries /\ Queue(dq)
      /\ Elems(dq) \subseteq Screen
      /\ \A s \in Elems(dq) : scr[s] \in Geometry
      /\ cur \in Elems(dq) /\ cur \in Screen
      /\ Tiled(dq, scr) /\ \A s \in Elems(dq) : scr[s].map = TRUE
  BY Known DEF InVi
<1>2. RegularOnly => \A s \in Elems(dq) : scr[s].window >= 1 /\ Fits(scr[s])
  BY RegularText DEF InVi
<1>3. /\ p \in Seq(Screen) /\ Queue(p) /\ cur \notin Elems(p)
      /\ Elems(dq) = Elems(p) \cup {cur} /\ Between(p, At(dq, cur), cur, dq)
  BY <1>1, Taken
<1>4. h \in Elems(dq) \ {cur}
  BY <1>1, HeirIs
<1>5. /\ e \in Geometries /\ \A x \in Screen \ {h} : e[x] = scr[x]
      /\ e[h] \in Geometry /\ e[h].map = scr[h].map /\ e[h].window = scr[h].window
  BY <1>1, FoldedIs
<1>6. \A s \in Elems(p) : f[s] = e[s]
  BY <1>1, <1>3
<1>7. Tiled(p, f)
  <2> HIDE DEF p
  <2> QED BY <1>1, <1>3, <1>6, FoldedTiles DEF e
<1>8. RegularOnly => Fits(e[h])
  BY <1>1, <1>2, <1>4, FoldedFits
<1> HIDE DEF p, h, e
<1>9. \A s \in Elems(p) : f[s] \in Geometry /\ f[s].map = TRUE
  BY <1>1, <1>3, <1>4, <1>5, <1>6
<1>10. \A s \in Screen \ Elems(dq) : f[s] = scr[s]
  BY <1>1, <1>4, <1>5 DEF e
<1>11. RegularOnly => \A s \in Elems(p) : f[s].window >= 1 /\ Fits(f[s])
  BY <1>1, <1>2, <1>3, <1>4, <1>5, <1>6, <1>8
<1>12. LeftTo(p, f)
  BY <1>3, <1>4, <1>7, <1>9, <1>10, <1>11 DEF LeftTo, h
<1> QED BY <1>12 DEF p

LEMMA BgStep ==
  ASSUME IInv, Bg
  PROVE  IInv'
<1> DEFINE p == RemoveAt(dq, At(dq, cur))
           h == Heir(dq, cur)
           e == Folded(dq, scr, cur)
           y == Mapped(e[cur], FALSE)
<1>1. /\ InVi /\ vi' = vi /\ vi = TRUE /\ cur # NoScreen /\ h # NoScreen
      /\ scr' = [e EXCEPT ![cur] = y]
      /\ dq' = p /\ hq' = Append(hq, cur) /\ cur' = h
  BY DEF Bg, InVi, Mapped
<1>2. /\ scr \in Geometries /\ Queue(dq) /\ Queue(hq) /\ Elems(dq) \cap Elems(hq) = {}
      /\ Elems(dq) \subseteq Screen /\ Elems(hq) \subseteq Screen
      /\ \A s \in Elems(dq) \cup Elems(hq) : scr[s] \in Geometry
      /\ \A s \in Screen : scr[s] = NoScreen <=> s \notin Elems(dq) \cup Elems(hq)
      /\ cur \in Elems(dq) /\ cur \in Screen /\ cur \notin Elems(hq)
  BY <1>1, Known
<1>3. RegularOnly => \A s \in Elems(dq) \cup Elems(hq) : scr[s].window >= 1
  BY <1>1, RegularText
<1>4. /\ e \in Geometries /\ e[cur] = scr[cur]
  <2>1. h \in Elems(dq) \ {cur}
    BY <1>1, <1>2, HeirIs
  <2>2. e \in Geometries /\ \A x \in Screen \ {h} : e[x] = scr[x]
    BY <1>1, <1>2, FoldedIs
  <2> QED BY <1>2, <2>1, <2>2
<1>5. y \in Geometry /\ SameShape(y, scr[cur])
  BY <1>2, <1>4, MappedIs
<1> HIDE DEF y
<1>6. /\ scr' \in Geometries /\ scr'[cur] = y
      /\ \A x \in Screen \ {cur} : scr'[x] = e[x]
  BY <1>1, <1>2, <1>4, <1>5 DEF Geometries
<1>7. LeftTo(p, scr')
  BY <1>1, <1>6, Leaving
<1> HIDE DEF p, h, e
<1>8. /\ Queue(p) /\ Elems(dq) = Elems(p) \cup {cur} /\ cur \notin Elems(p) /\ h \in Elems(p)
      /\ \A s \in Elems(p) : scr'[s] \in Geometry /\ scr'[s].map = TRUE
      /\ \A s \in Screen \ Elems(dq) : scr'[s] = scr[s]
      /\ Tiled(p, scr')
      /\ RegularOnly => \A s \in Elems(p) : scr'[s].window >= 1 /\ Fits(scr'[s])
  BY <1>7 DEF LeftTo, h
<1>9. Queue(hq') /\ Elems(hq') = Elems(hq) \cup {cur}
  BY <1>1, <1>2, AppendedQueue
<1>10. \A s \in Elems(hq) : scr'[s] = scr[s]
  BY <1>2, <1>8
<1>11. \A s \in Elems(dq') \cup Elems(hq') : scr'[s] \in Geometry
  BY <1>1, <1>2, <1>5, <1>6, <1>8, <1>9, <1>10
<1>12. \A s \in Screen \ (Elems(dq') \cup Elems(hq')) : scr'[s] = NoScreen
  BY <1>1, <1>2, <1>8, <1>9
<1>13. Elems(dq') \cap Elems(hq') = {}
  BY <1>1, <1>2, <1>8, <1>9
<1>14. RegularOnly => /\ \A s \in Elems(dq') \cup Elems(hq') : scr'[s].window >= 1
                      /\ \A s \in Elems(dq') : Fits(scr'[s])
  <2>1. y.window = scr[cur].window
    BY <1>5 DEF SameShape
  <2> QED BY <1>1, <1>2, <1>3, <1>6, <1>8, <1>9, <1>10, <2>1
<1> QED BY <1>1, <1>6, <1>8, <1>9, <1>11, <1>12, <1>13, <1>14, Rebuilt

LEMMA NextScreenStep ==
  ASSUME IInv, NextScreen
  PROVE  IInv'
<1>1. /\ vi = TRUE /\ cur # NoScreen /\ Len(dq) > 1
      /\ cur' = dq[(At(dq, cur) % Len(dq)) + 1] /\ UNCHANGED <<scr, dq, hq, vi>>
  BY DEF NextScreen, InVi
<1>2. /\ scr \in Geometries /\ Queue(dq) /\ Queue(hq) /\ Elems(dq) \cap Elems(hq) = {}
      /\ Elems(dq) \subseteq Screen
      /\ \A s \in Elems(dq) \cup Elems(hq) : scr[s] \in Geometry
      /\ \A s \in Screen : scr[s] = NoScreen <=> s \notin Elems(dq) \cup Elems(hq)
      /\ cur \in Elems(dq)
      /\ Tiled(dq, scr) /\ \A s \in Elems(dq) : scr[s].map = TRUE
  BY <1>1, Known
<1>3. RegularOnly => /\ \A s \in Elems(dq) \cup Elems(hq) : scr[s].window >= 1
                     /\ \A s \in Elems(dq) : Fits(scr[s])
  BY <1>1, RegularText
<1>4. cur' \in Elems(dq)
  <2>1. At(dq, cur) \in 1..Len(dq) /\ Len(dq) \in Nat
    BY <1>2, AtIs
  <2>2. (At(dq, cur) % Len(dq)) + 1 \in 1..Len(dq)
    BY <1>1, <2>1
  <2> QED BY <1>1, <1>2, <2>2, Members
<1>5. cur' # NoScreen
  BY <1>2, <1>4, ScreensAssumption
<1> QED BY <1>1, <1>2, <1>3, <1>4, <1>5, Rebuilt

LEMMA QuitStep ==
  ASSUME IInv, Quit
  PROVE  IInv'
<1>1. InVi /\ vi' = vi /\ vi = TRUE /\ cur # NoScreen
  BY DEF Quit, InVi
<1>2. /\ scr \in Geometries /\ Queue(dq) /\ Queue(hq) /\ Elems(dq) \cap Elems(hq) = {}
      /\ Elems(dq) \subseteq Screen /\ Elems(hq) \subseteq Screen
      /\ \A s \in Elems(dq) \cup Elems(hq) : scr[s] \in Geometry
      /\ \A s \in Screen : scr[s] = NoScreen <=> s \notin Elems(dq) \cup Elems(hq)
      /\ cur \in Elems(dq) /\ cur \in Screen /\ cur \notin Elems(hq)
      /\ Tiled(dq, scr)
  BY <1>1, Known
<1>3. RegularOnly => /\ \A s \in Elems(dq) \cup Elems(hq) : scr[s].window >= 1
                     /\ \A s \in Elems(dq) : Fits(scr[s])
  BY <1>1, RegularText
<1>4. CASE Heir(dq, cur) # NoScreen
  <2> DEFINE p == RemoveAt(dq, At(dq, cur))
             h == Heir(dq, cur)
             e == Folded(dq, scr, cur)
  <2>1. scr' = [e EXCEPT ![cur] = NoScreen] /\ dq' = p /\ hq' = hq /\ cur' = h
    BY <1>4 DEF Quit
  <2>2. e \in Geometries
    BY <1>2, <1>4, FoldedIs
  <2> HIDE DEF e
  <2>3. /\ scr' \in Geometries /\ scr'[cur] = NoScreen
        /\ \A x \in Screen \ {cur} : scr'[x] = e[x]
    BY <1>2, <2>1, <2>2 DEF Geometries
  <2>4. LeftTo(p, scr')
    BY <1>1, <1>4, <2>3, Leaving DEF e
  <2> HIDE DEF p, h
  <2>5. /\ Queue(p) /\ Elems(dq) = Elems(p) \cup {cur} /\ cur \notin Elems(p) /\ h \in Elems(p)
        /\ \A s \in Elems(p) : scr'[s] \in Geometry /\ scr'[s].map = TRUE
        /\ \A s \in Screen \ Elems(dq) : scr'[s] = scr[s]
        /\ Tiled(p, scr')
        /\ RegularOnly => \A s \in Elems(p) : scr'[s].window >= 1 /\ Fits(scr'[s])
    BY <2>4 DEF LeftTo, h
  <2>6. \A s \in Elems(hq) : scr'[s] = scr[s]
    BY <1>2, <2>5
  <2>7. \A s \in Elems(dq') \cup Elems(hq') : scr'[s] \in Geometry
    BY <1>2, <2>1, <2>5, <2>6
  <2>8. \A s \in Screen \ (Elems(dq') \cup Elems(hq')) : scr'[s] = NoScreen
    BY <1>2, <2>1, <2>3, <2>5
  <2>9. Elems(dq') \cap Elems(hq') = {}
    BY <1>2, <2>1, <2>5
  <2>10. RegularOnly => /\ \A s \in Elems(dq') \cup Elems(hq') : scr'[s].window >= 1
                        /\ \A s \in Elems(dq') : Fits(scr'[s])
    BY <1>3, <2>1, <2>5, <2>6
  <2>11. h # NoScreen
    BY <1>4 DEF h
  <2> QED BY <1>1, <1>2, <2>1, <2>3, <2>5, <2>7, <2>8, <2>9, <2>10, <2>11, Rebuilt
<1>5. CASE Heir(dq, cur) = NoScreen /\ hq # <<>>
  <2> DEFINE n == hq[1]
             y == Replacing(n, cur)
  <2>1. /\ scr' = [scr EXCEPT ![n] = y, ![cur] = NoScreen]
        /\ dq' = <<n>> /\ hq' = Tail(hq) /\ cur' = n
        /\ RegularOnly => (IsSmall(n) => scr[n].tmax = scr[cur].rows - 1)
    BY <1>5 DEF Quit, Regular
  <2>2. dq = <<cur>> /\ Elems(dq) = {cur}
    BY <1>2, <1>5, HeirIs
  <2>3. /\ Queue(Tail(hq)) /\ n \in Screen /\ n \notin Elems(Tail(hq))
        /\ Elems(hq) = Elems(Tail(hq)) \cup {n}
    BY <1>2, <1>5, TailQueue
  <2>4. y \in Geometry /\ y.window = scr[n].window /\ SameRows(y, scr[cur])
    BY <1>2, <2>3, ReplacingIs
  <2>5. y.map = TRUE
    BY <1>2, <2>3, ReplacingIs
  <2>6. (Fits(scr[cur]) /\ scr[n].window >= 1
          /\ (IsSmall(n) => scr[n].tmax = scr[cur].rows - 1)) => Fits(y)
    BY <1>2, <2>3, ReplacingIs
  <2> HIDE DEF n, y
  <2>7. /\ scr' \in Geometries /\ scr'[n] = y /\ scr'[cur] = NoScreen
        /\ \A x \in Screen \ {n, cur} : scr'[x] = scr[x]
    BY <1>2, <2>1, <2>3, <2>4 DEF Geometries
  <2>8. Queue(dq') /\ Elems(dq') = {n} /\ Len(dq') = 1 /\ dq'[1] = n
    BY <2>1, <2>3, OneQueue
  <2>9. Tiled(dq', scr')
    <3>1. Len(dq) = 1 /\ dq[1] = cur
      BY <1>2, <2>2, OneQueue
    <3>2. \A j \in 1..Len(dq) : SameRows(scr'[dq'[j]], scr[dq[j]])
      BY <2>4, <2>7, <2>8, <3>1
    <3> QED BY <1>2, <2>8, <3>1, <3>2, SameTiles
  <2>10. \A s \in Elems(hq') : scr'[s] = scr[s] /\ s \in Elems(hq)
    BY <1>2, <2>1, <2>3, <2>7
  <2>11. \A s \in Elems(dq') \cup Elems(hq') : scr'[s] \in Geometry
    BY <1>2, <2>4, <2>7, <2>8, <2>10
  <2>12. \A s \in Screen \ (Elems(dq') \cup Elems(hq')) : scr'[s] = NoScreen
    BY <1>2, <2>1, <2>2, <2>3, <2>7, <2>8
  <2>13. Elems(dq') \cap Elems(hq') = {}
    BY <2>1, <2>3, <2>8
  <2>14. RegularOnly => /\ \A s \in Elems(dq') \cup Elems(hq') : scr'[s].window >= 1
                        /\ \A s \in Elems(dq') : Fits(scr'[s])
    <3> SUFFICES ASSUME RegularOnly
                 PROVE  /\ \A s \in Elems(dq') \cup Elems(hq') : scr'[s].window >= 1
                        /\ \A s \in Elems(dq') : Fits(scr'[s])
      OBVIOUS
    <3>1. Fits(y) /\ y.window >= 1
      BY <1>2, <1>3, <2>1, <2>3, <2>4, <2>6
    <3> QED BY <1>3, <2>7, <2>8, <2>10, <3>1
  <2>15. n # NoScreen
    BY <2>3, ScreensAssumption
  <2>16. \A s \in Elems(dq') : scr'[s].map = TRUE
    BY <2>5, <2>7, <2>8
  <2>17. Queue(hq')
    BY <2>1, <2>3
  <2> QED BY <1>1, <2>1, <2>7, <2>8, <2>9, <2>11, <2>12, <2>13, <2>14, <2>15, <2>16, <2>17, Rebuilt
<1>6. CASE Heir(dq, cur) = NoScreen /\ hq = <<>>
  <2>1. scr' = [scr EXCEPT ![cur] = NoScreen] /\ dq' = <<>> /\ hq' = <<>> /\ cur' = NoScreen
    BY <1>6 DEF Quit, Free
  <2>2. Elems(dq) = {cur} /\ Elems(hq) = {}
    BY <1>2, <1>6, HeirIs, NoQueue
  <2>3. scr' \in Geometries /\ \A s \in Screen : scr'[s] = NoScreen
    BY <1>2, <2>1, <2>2 DEF Geometries
  <2>4. Queue(dq') /\ Queue(hq') /\ Elems(dq') = {} /\ Elems(hq') = {}
    BY <2>1, NoQueue
  <2>5. Tiled(dq', scr')
    <3>1. Len(<<>>) = 0 /\ 1..(0 - 1) = {}
      OBVIOUS
    <3> QED BY <2>1, <3>1 DEF Tiled
  <2> QED BY <1>1, <2>1, <2>3, <2>4, <2>5, Rebuilt
<1> QED BY <1>4, <1>5, <1>6

(* count rows move between the neighbours dq[k] and dq[k + 1], from s to g.*)
LEMMA MovedStep ==
  ASSUME IInv, InVi, NEW k \in 1..(Len(dq) - 1), NEW g, NEW s,
         NEW count \in Int, NEW goff \in Int, NEW soff \in Int,
         \/ g = dq[k] /\ s = dq[k + 1] /\ goff = 0 /\ soff = count
         \/ s = dq[k] /\ g = dq[k + 1] /\ goff = -count /\ soff = 0,
         count >= 1, scr[s].tmax >= 1 + count, RegularOnly => KeepsText(s, count),
         scr' = Moved(g, s, count, goff, soff), UNCHANGED <<dq, hq, cur, vi>>
  PROVE  IInv'
<1>1. vi = TRUE /\ cur # NoScreen
  BY DEF InVi
<1>2. /\ scr \in Geometries /\ Queue(dq) /\ Queue(hq) /\ Elems(dq) \cap Elems(hq) = {}
      /\ Elems(dq) \subseteq Screen /\ Elems(hq) \subseteq Screen
      /\ \A x \in Elems(dq) \cup Elems(hq) : scr[x] \in Geometry
      /\ \A x \in Screen : scr[x] = NoScreen <=> x \notin Elems(dq) \cup Elems(hq)
      /\ cur \in Elems(dq)
      /\ Tiled(dq, scr) /\ \A x \in Elems(dq) : scr[x].map = TRUE
  BY <1>1, Known
<1>3. RegularOnly => /\ \A x \in Elems(dq) \cup Elems(hq) : scr[x].window >= 1
                     /\ \A x \in Elems(dq) : Fits(scr[x])
  BY <1>1, RegularText
<1>4. /\ g \in Elems(dq) /\ s \in Elems(dq) /\ g # s /\ {g, s} = {dq[k], dq[k + 1]}
  <2>1. k \in 1..Len(dq) /\ k + 1 \in 1..Len(dq) /\ k # k + 1
    BY <1>2, Members
  <2>2. dq[k] \in Elems(dq) /\ dq[k + 1] \in Elems(dq) /\ dq[k] # dq[k + 1]
    BY <1>2, <2>1, Members DEF Queue
  <2> QED BY <2>2
<1>5. g \in Screen /\ s \in Screen /\ scr[g] \in Geometry /\ scr[s] \in Geometry
  BY <1>2, <1>4
<1> DEFINE f == Moved(g, s, count, goff, soff)
<1>6. /\ f \in Geometries /\ \A x \in Screen \ {g, s} : f[x] = scr[x]
      /\ f[g] \in Geometry /\ f[g].window = scr[g].window
      /\ f[s] \in Geometry /\ f[s].window = scr[s].window
  BY <1>2, <1>4, <1>5, MovedIs
<1>7. f[g].map = scr[g].map /\ f[s].map = scr[s].map
  BY <1>2, <1>4, <1>5, MovedIs
<1>8. /\ f[g].rows = scr[g].rows + count /\ f[g].woff = scr[g].woff + goff
      /\ f[s].rows = scr[s].rows - count /\ f[s].woff = scr[s].woff + soff
  BY <1>2, <1>4, <1>5, MovedIs
<1>9. (/\ Fits(scr[g]) /\ Fits(scr[s]) /\ count >= 1 /\ scr[s].tmax >= 1 + count
       /\ KeepsText(s, count)
       /\ f[g].woff >= 0 /\ f[g].woff + f[g].rows <= Lines
       /\ f[s].woff >= 0 /\ f[s].woff + f[s].rows <= Lines)
      => Fits(f[g]) /\ Fits(f[s])
  BY <1>2, <1>4, <1>5, MovedIs
<1> HIDE DEF f
<1>10. /\ scr[g].rows \in Int /\ scr[g].woff \in Int /\ scr[s].rows \in Int /\ scr[s].woff \in Int
       /\ f[g].rows \in Int /\ f[g].woff \in Int /\ f[s].rows \in Int /\ f[s].woff \in Int
       /\ scr[s].tmax \in Int
  BY <1>5, <1>6 DEF Geometry
<1>11. scr[dq[k]].woff + scr[dq[k]].rows = scr[dq[k + 1]].woff
  BY <1>2 DEF Tiled
<1> DEFINE a == scr[g].woff
           b == scr[g].rows
           c == scr[s].woff
           d == scr[s].rows
           a1 == f[g].woff
           b1 == f[g].rows
           c1 == f[s].woff
           d1 == f[s].rows
<1>20. ASSUME g = dq[k] /\ s = dq[k + 1] /\ goff = 0 /\ soff = count
       PROVE  /\ f[dq[k]].woff = scr[dq[k]].woff
              /\ f[dq[k]].woff + f[dq[k]].rows = f[dq[k + 1]].woff
              /\ f[dq[k + 1]].woff + f[dq[k + 1]].rows = scr[dq[k + 1]].woff + scr[dq[k + 1]].rows
              /\ (Fits(scr[g]) /\ Fits(scr[s])) =>
                    a1 >= 0 /\ a1 + b1 <= Lines /\ c1 >= 0 /\ c1 + d1 <= Lines
  <2>0. a + b = c
    BY <1>11, <1>20
  <2>1. a \in Int /\ b \in Int /\ c \in Int /\ d \in Int
    BY <1>10
  <2>2. b1 = b + count /\ d1 = d - count
    BY <1>8
  <2>3. a1 = a + 0 /\ c1 = c + count
    BY <1>8, <1>20
  <2> HIDE DEF a, b, c, d, a1, b1, c1, d1
  <2>4. a1 = a /\ a1 + b1 = c1 /\ c1 + d1 = c + d
    BY <2>0, <2>1, <2>2, <2>3
  <2>5. /\ f[dq[k]].woff = scr[dq[k]].woff
        /\ f[dq[k]].woff + f[dq[k]].rows = f[dq[k + 1]].woff
        /\ f[dq[k + 1]].woff + f[dq[k + 1]].rows = scr[dq[k + 1]].woff + scr[dq[k + 1]].rows
    BY <2>4, <1>20 DEF a, c, d, a1, b1, c1, d1
  <2>6. ASSUME Fits(scr[g]), Fits(scr[s])
        PROVE  a1 >= 0 /\ a1 + b1 <= Lines /\ c1 >= 0 /\ c1 + d1 <= Lines
    <3>1. /\ a >= 0 /\ c >= 0 /\ c + d <= Lines /\ d - 1 >= 1 + count
      BY <2>6, <2>1 DEF Fits, a, b, c, d
    <3>3. count \in Int /\ count >= 1 /\ Lines \in Int
      BY ScreensAssumption
    <3>4. a1 \in Int /\ b1 \in Int /\ c1 \in Int /\ d1 \in Int
      BY ONLY <2>1, <2>2, <2>3, <3>3
    <3>5. a1 >= 0
      BY ONLY <3>1, <2>0, <2>1, <2>3, <3>3, <3>4
    <3>6. c1 >= 0
      BY ONLY <3>1, <2>1, <2>3, <3>3, <3>4
    <3>7. a1 + b1 <= Lines
      BY ONLY <3>1, <2>0, <2>1, <2>3, <2>4, <3>3, <3>4
    <3>8. c1 + d1 <= Lines
      BY ONLY <3>1, <2>0, <2>1, <2>3, <2>4, <3>3, <3>4
    <3> QED BY <3>5, <3>6, <3>7, <3>8
  <2> QED BY <2>5, <2>6
<1>21. ASSUME s = dq[k] /\ g = dq[k + 1] /\ goff = -count /\ soff = 0
       PROVE  /\ f[dq[k]].woff = scr[dq[k]].woff
              /\ f[dq[k]].woff + f[dq[k]].rows = f[dq[k + 1]].woff
              /\ f[dq[k + 1]].woff + f[dq[k + 1]].rows = scr[dq[k + 1]].woff + scr[dq[k + 1]].rows
              /\ (Fits(scr[g]) /\ Fits(scr[s])) =>
                    a1 >= 0 /\ a1 + b1 <= Lines /\ c1 >= 0 /\ c1 + d1 <= Lines
  <2>0. c + d = a
    BY <1>11, <1>21
  <2>1. a \in Int /\ b \in Int /\ c \in Int /\ d \in Int
    BY <1>10
  <2>2. b1 = b + count /\ d1 = d - count
    BY <1>8
  <2>3. c1 = c + 0 /\ a1 = a + (-count)
    BY <1>8, <1>21
  <2> HIDE DEF a, b, c, d, a1, b1, c1, d1
  <2>4. c1 = c /\ c1 + d1 = a1 /\ a1 + b1 = a + b
    BY <2>0, <2>1, <2>2, <2>3
  <2>5. /\ f[dq[k]].woff = scr[dq[k]].woff
        /\ f[dq[k]].woff + f[dq[k]].rows = f[dq[k + 1]].woff
        /\ f[dq[k + 1]].woff + f[dq[k + 1]].rows = scr[dq[k + 1]].woff + scr[dq[k + 1]].rows
    BY <2>4, <1>21 DEF a, b, c, a1, b1, c1, d1
  <2>6. ASSUME Fits(scr[g]), Fits(scr[s])
        PROVE  a1 >= 0 /\ a1 + b1 <= Lines /\ c1 >= 0 /\ c1 + d1 <= Lines
    <3>1. /\ a >= 0 /\ c >= 0 /\ a + b <= Lines /\ d - 1 >= 1 + count
      BY <2>6, <2>1 DEF Fits, a, b, c, d
    <3>2. b >= 2
      BY <2>6 DEF Fits, b
    <3>3. count \in Int /\ count >= 1 /\ Lines \in Int
      BY ScreensAssumption
    <3>4. a1 \in Int /\ b1 \in Int /\ c1 \in Int /\ d1 \in Int
      BY ONLY <2>1, <2>2, <2>3, <3>3
    <3>5. a1 >= 0
      BY ONLY <3>1, <3>2, <2>0, <2>1, <2>3, <3>3, <3>4
    <3>6. c1 >= 0
      BY ONLY <3>1, <2>1, <2>3, <3>3, <3>4
    <3>7. a1 + b1 <= Lines
      BY ONLY <3>1, <3>2, <2>0, <2>1, <2>3, <2>4, <3>3, <3>4
    <3>8. c1 + d1 <= Lines
      BY ONLY <3>1, <3>2, <2>0, <2>1, <2>3, <2>4, <3>3, <3>4
    <3> QED BY <3>5, <3>6, <3>7, <3>8
  <2> QED BY <2>5, <2>6
<1> HIDE DEF a1, b1, c1, d1
<1>12. /\ f[dq[k]].woff = scr[dq[k]].woff
       /\ f[dq[k]].woff + f[dq[k]].rows = f[dq[k + 1]].woff
       /\ f[dq[k + 1]].woff + f[dq[k + 1]].rows = scr[dq[k + 1]].woff + scr[dq[k + 1]].rows
       /\ (Fits(scr[g]) /\ Fits(scr[s])) => a1 >= 0 /\ a1 + b1 <= Lines /\ c1 >= 0 /\ c1 + d1 <= Lines
  BY <1>20, <1>21
<1>13. Tiled(dq, f)
  <2>1. \A x \in Elems(dq) \ {dq[k], dq[k + 1]} : SameRows(f[x], scr[x])
    BY <1>2, <1>4, <1>6 DEF SameRows
  <2> QED BY <1>2, <1>12, <2>1, MoveTiles
<1>14. RegularOnly => Fits(f[g]) /\ Fits(f[s])
  <2> SUFFICES ASSUME RegularOnly
               PROVE  Fits(f[g]) /\ Fits(f[s])
    OBVIOUS
  <2>1. Fits(scr[g]) /\ Fits(scr[s])
    BY <1>3, <1>4
  <2>2. /\ f[g].woff >= 0 /\ f[g].woff + f[g].rows <= Lines
        /\ f[s].woff >= 0 /\ f[s].woff + f[s].rows <= Lines
    BY <1>12, <2>1 DEF a1, b1, c1, d1
  <2> QED BY <1>9, <2>1, <2>2
<1>15. \A x \in Elems(dq) : f[x] \in Geometry /\ f[x].map = TRUE
  BY <1>2, <1>4, <1>6, <1>7
<1>16. \A x \in Elems(hq) : f[x] = scr[x]
  BY <1>2, <1>4, <1>6
<1>17. RegularOnly => /\ \A x \in Elems(dq) \cup Elems(hq) : f[x].window >= 1
                      /\ \A x \in Elems(dq) : Fits(f[x])
  BY <1>2, <1>3, <1>4, <1>6, <1>14, <1>16
<1>18. \A x \in Screen \ (Elems(dq) \cup Elems(hq)) : f[x] = NoScreen
  BY <1>2, <1>4, <1>6
<1>19. scr' = f
  BY DEF f
<1> QED BY <1>1, <1>2, <1>6, <1>13, <1>15, <1>16, <1>17, <1>18, <1>19, Rebuilt

(* The neighbours of the current screen.                                   *)
LEMMA Neighbours ==
  ASSUME IInv, InVi
  PROVE  /\ Above(cur) # NoScreen =>
              \E k \in 1..(Len(dq) - 1) : Above(cur) = dq[k] /\ cur = dq[k + 1]
         /\ Below(cur) # NoScreen =>
              \E k \in 1..(Len(dq) - 1) : cur = dq[k] /\ Below(cur) = dq[k + 1]
<1> DEFINE i == At(dq, cur)
<1>1. i \in 1..Len(dq) /\ dq[i] = cur /\ Len(dq) \in Nat
  BY Known, AtIs DEF InVi
<1>2. Above(cur) = (IF i > 1 THEN dq[i - 1] ELSE NoScreen)
  BY DEF Above
<1>3. Below(cur) = (IF i < Len(dq) THEN dq[i + 1] ELSE NoScreen)
  BY DEF Below
<1> HIDE DEF i
<1>4. ASSUME Above(cur) # NoScreen
      PROVE  \E k \in 1..(Len(dq) - 1) : Above(cur) = dq[k] /\ cur = dq[k + 1]
  <2>1. i > 1
    BY <1>2, <1>4
  <2>2. i - 1 \in 1..(Len(dq) - 1) /\ (i - 1) + 1 = i
    BY <2>1, <1>1
  <2>3. Above(cur) = dq[i - 1] /\ cur = dq[(i - 1) + 1]
    BY <1>1, <1>2, <2>1, <2>2
  <2> QED BY <2>2, <2>3
<1>5. ASSUME Below(cur) # NoScreen
      PROVE  \E k \in 1..(Len(dq) - 1) : cur = dq[k] /\ Below(cur) = dq[k + 1]
  <2>1. i < Len(dq)
    BY <1>3, <1>5
  <2>2. i \in 1..(Len(dq) - 1)
    BY <2>1, <1>1
  <2> QED BY <1>1, <1>3, <2>1, <2>2
<1> QED BY <1>4, <1>5

LEMMA GrowStep ==
  ASSUME IInv, InVi, NEW count \in Int, count >= 1, Grow(count), UNCHANGED <<dq, hq, cur, vi>>
  PROVE  IInv'
<1>0. -count \in Int /\ 0 \in Int
  OBVIOUS
<1>1. CASE /\ Spares(Below(cur), count) /\ Regular(KeepsText(Below(cur), count))
           /\ scr' = Moved(cur, Below(cur), count, 0, count)
  <2>1. /\ Below(cur) # NoScreen /\ scr[Below(cur)].tmax >= 1 + count
        /\ RegularOnly => KeepsText(Below(cur), count)
    BY <1>1 DEF Spares, Regular
  <2>2. PICK k \in 1..(Len(dq) - 1) : cur = dq[k] /\ Below(cur) = dq[k + 1]
    BY <2>1, Neighbours
  <2> HIDE DEF Below
  <2> QED BY <1>0, <1>1, <2>1, <2>2, MovedStep
<1>2. CASE /\ Spares(Above(cur), count) /\ Regular(KeepsText(Above(cur), count))
           /\ scr' = Moved(cur, Above(cur), count, -count, 0)
  <2>1. /\ Above(cur) # NoScreen /\ scr[Above(cur)].tmax >= 1 + count
        /\ RegularOnly => KeepsText(Above(cur), count)
    BY <1>2 DEF Spares, Regular
  <2>2. PICK k \in 1..(Len(dq) - 1) : Above(cur) = dq[k] /\ cur = dq[k + 1]
    BY <2>1, Neighbours
  <2> QED BY <1>0, <1>2, <2>1, <2>2, MovedStep
<1> QED BY <1>1, <1>2 DEF Grow

LEMMA ShrinkStep ==
  ASSUME IInv, InVi, NEW count \in Int, count >= 1, Shrink(count), UNCHANGED <<dq, hq, cur, vi>>
  PROVE  IInv'
<1>0. -count \in Int /\ 0 \in Int
  OBVIOUS
<1>1. scr[cur].tmax >= 1 + count /\ (RegularOnly => KeepsText(cur, count))
  BY DEF Shrink, Spares, Regular
<1>2. CASE Above(cur) # NoScreen /\ scr' = Moved(Above(cur), cur, count, 0, count)
  <2>1. PICK k \in 1..(Len(dq) - 1) : Above(cur) = dq[k] /\ cur = dq[k + 1]
    BY <1>2, Neighbours
  <2> QED BY <1>0, <1>1, <1>2, <2>1, MovedStep
<1>3. CASE Below(cur) # NoScreen /\ scr' = Moved(Below(cur), cur, count, -count, 0)
  <2>1. PICK k \in 1..(Len(dq) - 1) : cur = dq[k] /\ Below(cur) = dq[k + 1]
    BY <1>3, Neighbours
  <2> QED BY <1>0, <1>1, <1>3, <2>1, MovedStep
<1> QED BY <1>2, <1>3 DEF Shrink

LEMMA ResizeStep ==
  ASSUME IInv, NEW c \in Counts, Resize(c)
  PROVE  IInv'
<1>1. InVi /\ UNCHANGED <<dq, hq, cur, vi>>
  BY DEF Resize
<1>2. c \in Int /\ scr[cur].tmax \in Int
  <2>1. scr[cur] \in Geometry
    BY <1>1, Known DEF InVi
  <2> QED BY <2>1, ScreensAssumption DEF Geometry
<1>3. CASE c > 0 /\ (Grow(c) \/ Shrink(c))
  <2>1. c >= 1
    BY <1>2, <1>3
  <2> QED BY <1>1, <1>2, <1>3, <2>1, GrowStep, ShrinkStep
<1>4. CASE c > scr[cur].tmax /\ Grow(c - scr[cur].tmax)
  <2> DEFINE d == c - scr[cur].tmax
  <2>1. d \in Int /\ d >= 1
    BY <1>2, <1>4
  <2>2. Grow(d)
    BY <1>4
  <2> HIDE DEF d
  <2> QED BY <1>1, <2>1, <2>2, GrowStep
<1>5. CASE c < scr[cur].tmax /\ Shrink(scr[cur].tmax - c)
  <2> DEFINE d == scr[cur].tmax - c
  <2>1. d \in Int /\ d >= 1
    BY <1>2, <1>5
  <2>2. Shrink(d)
    BY <1>5
  <2> HIDE DEF d
  <2> QED BY <1>1, <2>1, <2>2, ShrinkStep
<1> QED BY <1>3, <1>4, <1>5 DEF Resize

(* The current screen shows its text otherwise, in the same rows.          *)
LEMMA Redrawn ==
  ASSUME IInv, InVi, NEW y \in Geometry, y.map = TRUE, SameRows(y, scr[cur]),
         RegularOnly => y.window >= 1 /\ Fits(y),
         scr' = [scr EXCEPT ![cur] = y], UNCHANGED <<dq, hq, cur, vi>>
  PROVE  IInv'
<1>1. vi = TRUE /\ cur # NoScreen
  BY DEF InVi
<1>2. /\ scr \in Geometries /\ Queue(dq) /\ Queue(hq) /\ Elems(dq) \cap Elems(hq) = {}
      /\ Elems(dq) \subseteq Screen /\ Elems(hq) \subseteq Screen
      /\ \A x \in Elems(dq) \cup Elems(hq) : scr[x] \in Geometry
      /\ \A x \in Screen : scr[x] = NoScreen <=> x \notin Elems(dq) \cup Elems(hq)
      /\ cur \in Elems(dq) /\ cur \in Screen
      /\ Tiled(dq, scr) /\ \A x \in Elems(dq) : scr[x].map = TRUE
  BY <1>1, Known
<1>3. RegularOnly => /\ \A x \in Elems(dq) \cup Elems(hq) : scr[x].window >= 1
                     /\ \A x \in Elems(dq) : Fits(scr[x])
  BY <1>1, RegularText
<1>4. scr' \in Geometries /\ scr'[cur] = y /\ \A x \in Screen \ {cur} : scr'[x] = scr[x]
  BY <1>2 DEF Geometries
<1>5. Tiled(dq', scr')
  <2>1. ASSUME NEW j \in 1..Len(dq)
        PROVE  SameRows(scr'[dq[j]], scr[dq[j]])
    <3>1. dq[j] \in Screen
      BY <1>2, Members
    <3>2. CASE dq[j] = cur
      BY <3>2, <1>4
    <3>3. CASE dq[j] # cur
      BY <3>1, <3>3, <1>4 DEF SameRows
    <3> QED BY <3>2, <3>3
  <2> QED BY <2>1, <1>2, SameTiles
<1>6. \A x \in Elems(dq) : scr'[x] \in Geometry /\ scr'[x].map = TRUE
  BY <1>2, <1>4
<1>7. \A x \in Elems(hq) : scr'[x] = scr[x]
  BY <1>2, <1>4
<1>8. RegularOnly => /\ \A x \in Elems(dq) \cup Elems(hq) : scr'[x].window >= 1
                     /\ \A x \in Elems(dq) : Fits(scr'[x])
  BY <1>2, <1>3, <1>4, <1>7
<1>9. \A x \in Screen \ (Elems(dq) \cup Elems(hq)) : scr'[x] = NoScreen
  BY <1>2, <1>4
<1> QED BY <1>1, <1>2, <1>4, <1>5, <1>6, <1>7, <1>8, <1>9, Rebuilt

Showing(x, t, w) == [x EXCEPT !.trows = t, !.tmin = t, !.window = w]
Scrolled(x, t) == [x EXCEPT !.trows = t]

LEMMA ShowingIs ==
  ASSUME NEW x \in Geometry, NEW t \in Int, NEW w \in Int
  PROVE  /\ Showing(x, t, w) \in Geometry /\ SameRows(Showing(x, t, w), x)
         /\ Showing(x, t, w).map = x.map /\ Showing(x, t, w).window = w
         /\ (Fits(x) /\ t >= 1 /\ t <= x.rows - 1) => Fits(Showing(x, t, w))
<1> DEFINE y == Showing(x, t, w)
<1>1. /\ y.trows = t /\ y.tmin = t /\ y.window = w
      /\ y.rows = x.rows /\ y.woff = x.woff /\ y.tmax = x.tmax
  BY DEF Geometry, Showing
<1>2. y.map = x.map
  BY DEF Geometry, Showing
<1>3. y \in Geometry
  BY DEF Geometry, Showing
<1>4. x.rows \in Int /\ x.woff \in Int /\ x.tmax \in Int
  BY DEF Geometry
<1> HIDE DEF y
<1>5. (Fits(x) /\ t >= 1 /\ t <= x.rows - 1) => Fits(y)
  BY <1>1, <1>4 DEF Fits
<1> QED BY <1>1, <1>2, <1>3, <1>5 DEF y, SameRows

LEMMA ScrolledIs ==
  ASSUME NEW x \in Geometry, NEW t \in Int
  PROVE  /\ Scrolled(x, t) \in Geometry /\ SameRows(Scrolled(x, t), x)
         /\ Scrolled(x, t).map = x.map /\ Scrolled(x, t).window = x.window
         /\ (Fits(x) /\ x.tmin <= t /\ t <= x.tmax) => Fits(Scrolled(x, t))
<1> DEFINE y == Scrolled(x, t)
<1>1. /\ y.trows = t /\ y.tmin = x.tmin /\ y.window = x.window
      /\ y.rows = x.rows /\ y.woff = x.woff /\ y.tmax = x.tmax
  BY DEF Geometry, Scrolled
<1>2. y.map = x.map
  BY DEF Geometry, Scrolled
<1>3. y \in Geometry
  BY DEF Geometry, Scrolled
<1> HIDE DEF y
<1>5. (Fits(x) /\ x.tmin <= t /\ t <= x.tmax) => Fits(y)
  BY <1>1 DEF Fits
<1> QED BY <1>1, <1>2, <1>3, <1>5 DEF y, SameRows

LEMMA WindowStep ==
  ASSUME IInv, NEW n \in Windows, NEW byz \in BOOLEAN, Window(n, byz)
  PROVE  IInv'
<1> DEFINE x == scr[cur]
           m == IF byz THEN Lesser(n, x.window) ELSE n
           t == Lesser(m, x.rows - 1)
           w == IF byz THEN x.window ELSE n
           y == Showing(x, t, w)
<1>1. /\ InVi /\ vi = TRUE /\ UNCHANGED <<dq, hq, cur, vi>>
      /\ scr' = [scr EXCEPT ![cur].trows = t, ![cur].tmin = t,
                            ![cur].window = IF byz THEN @ ELSE n]
  BY DEF Window, InVi
<1>2. x \in Geometry /\ cur \in Elems(dq) /\ cur \in Screen /\ scr \in Geometries /\ x.map = TRUE
  BY <1>1, Known DEF InVi
<1>3. x.window \in Int /\ x.rows \in Int /\ n \in Int /\ n >= 1
  BY <1>2, ScreensAssumption DEF Geometry
<1>4. scr' = [scr EXCEPT ![cur] = y]
  <2>1. DOMAIN scr = Screen
    BY <1>2 DEF Geometries
  <2> QED BY <1>1, <1>2, <2>1 DEF Showing, Geometry
<1> HIDE DEF x
<1>5. m \in Int /\ w \in Int /\ t \in Int
  <2>1. m \in Int /\ w \in Int
    BY <1>3 DEF Lesser
  <2> HIDE DEF m
  <2> QED BY <1>3, <2>1 DEF Lesser
<1> HIDE DEF y, t, w
<1>6. y \in Geometry /\ SameRows(y, x) /\ y.window = w
  BY <1>2, <1>5, ShowingIs DEF y
<1>7. y.map = TRUE
  BY <1>2, <1>5, ShowingIs DEF y
<1>8. RegularOnly => y.window >= 1 /\ Fits(y)
  <2> SUFFICES ASSUME RegularOnly
               PROVE  y.window >= 1 /\ Fits(y)
    OBVIOUS
  <2>1. x.window >= 1 /\ Fits(x)
    BY <1>1, <1>2, RegularText DEF x
  <2>2. m >= 1 /\ w >= 1
    BY <1>3, <2>1 DEF Lesser, w
  <2>3. t >= 1 /\ t <= x.rows - 1
    <3>1. x.rows >= 2
      BY <2>1 DEF Fits
    <3> HIDE DEF m
    <3> QED BY <1>3, <1>5, <2>2, <3>1 DEF Lesser, t
  <2>4. Fits(y)
    BY <1>2, <1>5, <2>1, <2>3, ShowingIs DEF y
  <2> QED BY <1>6, <2>2, <2>4
<1> QED BY <1>1, <1>4, <1>6, <1>7, <1>8, Redrawn DEF x

LEMMA ShowRowsStep ==
  ASSUME IInv, ShowRows
  PROVE  IInv'
<1> DEFINE x == scr[cur]
<1>1. InVi /\ vi = TRUE /\ UNCHANGED <<dq, hq, cur, vi>> /\ x.trows \in x.tmin..x.tmax
  BY DEF ShowRows, InVi
<1>2. PICK n \in {x.trows + 1, x.tmin} : n <= x.tmax /\ scr' = [scr EXCEPT ![cur].trows = n]
  BY DEF ShowRows
<1>3. x \in Geometry /\ cur \in Elems(dq) /\ cur \in Screen /\ scr \in Geometries /\ x.map = TRUE
  BY <1>1, Known DEF InVi
<1>4. x.trows \in Int /\ x.tmin \in Int /\ x.tmax \in Int
  BY <1>3 DEF Geometry
<1>5. n \in Int /\ x.tmin <= n /\ n <= x.tmax
  BY <1>1, <1>2, <1>4
<1> DEFINE y == Scrolled(x, n)
<1>6. scr' = [scr EXCEPT ![cur] = y]
  BY <1>2 DEF Scrolled
<1> HIDE DEF x, y
<1>7. y \in Geometry /\ SameRows(y, x) /\ y.window = x.window
  BY <1>3, <1>5, ScrolledIs DEF y
<1>8. y.map = TRUE
  BY <1>3, <1>5, ScrolledIs DEF y
<1>9. RegularOnly => y.window >= 1 /\ Fits(y)
  <2>1. RegularOnly => x.window >= 1 /\ Fits(x)
    BY <1>1, <1>3, RegularText DEF x
  <2>2. Fits(x) => Fits(y)
    BY <1>3, <1>5, ScrolledIs DEF y
  <2> QED BY <1>7, <2>1, <2>2
<1> QED BY <1>1, <1>6, <1>7, <1>8, <1>9, Redrawn DEF x

LEMMA ToExStep ==
  ASSUME IInv, ToEx
  PROVE  IInv'
<1> DEFINE p == RemoveAt(dq, At(dq, cur))
<1>1. /\ vi = TRUE /\ cur # NoScreen /\ cur' = cur /\ vi' = FALSE
      /\ scr' = [s \in Screen |-> IF Contains(dq, s) THEN Mapped(scr[s], FALSE) ELSE scr[s]]
      /\ hq' = hq \o p /\ dq' = <<cur>>
  BY DEF ToEx, InVi, Mapped
<1>2. /\ scr \in Geometries /\ Queue(dq) /\ Queue(hq) /\ Elems(dq) \cap Elems(hq) = {}
      /\ Elems(dq) \subseteq Screen /\ Elems(hq) \subseteq Screen
      /\ \A x \in Elems(dq) \cup Elems(hq) : scr[x] \in Geometry
      /\ \A x \in Screen : scr[x] = NoScreen <=> x \notin Elems(dq) \cup Elems(hq)
      /\ cur \in Elems(dq) /\ cur \in Screen
  BY <1>1, Known
<1>3. RegularOnly => \A x \in Elems(dq) \cup Elems(hq) : scr[x].window >= 1
  BY <1>1, RegularText
<1>4. Queue(p) /\ Elems(dq) = Elems(p) \cup {cur} /\ cur \notin Elems(p)
  BY <1>2, Taken
<1> HIDE DEF p
<1>5. Queue(hq') /\ Elems(hq') = Elems(hq) \cup Elems(p)
  BY <1>1, <1>2, <1>4, JoinedQueue
<1>6. Queue(dq') /\ Elems(dq') = {cur}
  BY <1>1, <1>2, OneQueue
<1>7. \A s \in Screen : scr'[s] = IF s \in Elems(dq) THEN Mapped(scr[s], FALSE) ELSE scr[s]
  BY <1>1, HeldIn
<1>8. \A s \in Elems(dq) \cup Elems(hq) :
        scr'[s] \in Geometry /\ scr'[s].window = scr[s].window
  <2> SUFFICES ASSUME NEW s \in Elems(dq) \cup Elems(hq)
               PROVE  scr'[s] \in Geometry /\ scr'[s].window = scr[s].window
    OBVIOUS
  <2>1. Mapped(scr[s], FALSE) \in Geometry /\ Mapped(scr[s], FALSE).window = scr[s].window
    BY <1>2, MappedIs DEF SameShape
  <2> QED BY <1>2, <1>7, <2>1
<1>9. Elems(dq') \cup Elems(hq') = Elems(dq) \cup Elems(hq)
  BY <1>4, <1>5, <1>6
<1>10. \A s \in Screen \ (Elems(dq') \cup Elems(hq')) : scr'[s] = NoScreen
  BY <1>2, <1>7, <1>9
<1>11. scr' \in Geometries
  <2>1. \A s \in Screen : scr'[s] \in Geometry \cup {NoScreen}
    BY <1>8, <1>9, <1>10
  <2> QED BY <1>1, <2>1 DEF Geometries
<1>12. Elems(dq') \cap Elems(hq') = {}
  BY <1>2, <1>4, <1>5, <1>6
<1>13. RegularOnly => \A s \in Elems(dq') \cup Elems(hq') : scr'[s].window >= 1
  BY <1>3, <1>8, <1>9
<1>14. cur' \in Elems(dq') /\ dq' = <<cur'>>
  BY <1>1, <1>6
<1> QED BY <1>1, <1>5, <1>6, <1>8, <1>9, <1>10, <1>11, <1>12, <1>13, <1>14, Rebuilt

(* One screen s has the whole terminal, and the screens of q are hidden.   *)
LEMMA WholeStep ==
  ASSUME IInv, NEW s \in Elems(dq) \cup Elems(hq), NEW q, Queue(q), s \notin Elems(q),
         Elems(q) \subseteq Elems(dq) \cup Elems(hq),
         dq' = <<s>>, hq' = q, cur' = s, vi' = TRUE, NEW g \in Geometries,
         scr' = [g EXCEPT ![s] = Colon(WholeTerminal(scr[s].window), scr[s].ccl)],
         \A x \in Elems(q) : g[x] = scr[x],
         \A x \in Screen \ (Elems(q) \cup {s}) : g[x] = NoScreen
  PROVE  IInv'
<1> DEFINE y == WholeTerminal(scr[s].window)
           z == Colon(y, scr[s].ccl)
<1>1. /\ s \in Screen /\ scr[s] \in Geometry /\ scr[s].window \in Int
      /\ \A x \in Elems(dq) \cup Elems(hq) : scr[x] \in Geometry
      /\ Elems(q) \subseteq Screen
  BY Known
<1>2. RegularOnly => \A x \in Elems(dq) \cup Elems(hq) : scr[x].window >= 1
  BY RegularText
<1>3. scr[s].ccl \in BOOLEAN
  BY <1>1 DEF Geometry
<1>4. /\ y \in Geometry /\ y.woff = 0 /\ y.rows = Lines /\ y.window = scr[s].window
      /\ scr[s].window >= 1 => Fits(y)
  BY <1>1, WholeIs
<1>5. y.map = TRUE
  BY <1>1, WholeIs
<1> HIDE DEF y
<1>6. z \in Geometry /\ SameShape(z, y)
  BY <1>3, <1>4, ColonIs
<1>7. z.map = TRUE
  BY <1>3, <1>4, <1>5, ColonIs
<1> HIDE DEF z
<1>8. z.woff = 0 /\ z.rows = Lines /\ z.window = scr[s].window
  BY <1>4, <1>6 DEF SameShape
<1>9. scr[s].window >= 1 => Fits(z)
  BY <1>4, <1>6, SameFits
<1>10. scr' \in Geometries /\ scr'[s] = z /\ \A x \in Screen \ {s} : scr'[x] = g[x]
  <2>1. scr' = [g EXCEPT ![s] = z]
    BY DEF z, y
  <2> QED BY <2>1, <1>1, <1>6 DEF Geometries
<1>11. Queue(dq') /\ Elems(dq') = {s}
  BY <1>1, OneQueue
<1>12. Tiled(dq', scr')
  BY <1>1, <1>8, <1>10, OneTile
<1>13. \A x \in Elems(q) : scr'[x] = scr[x]
  BY <1>1, <1>10
<1>14. s # NoScreen
  BY <1>1, ScreensAssumption
<1>15. \A x \in Elems(dq') \cup Elems(hq') : scr'[x] \in Geometry
  BY <1>1, <1>6, <1>10, <1>11, <1>13
<1>16. \A x \in Screen \ (Elems(dq') \cup Elems(hq')) : scr'[x] = NoScreen
  BY <1>1, <1>10, <1>11
<1>17. RegularOnly => /\ \A x \in Elems(dq') \cup Elems(hq') : scr'[x].window >= 1
                      /\ \A x \in Elems(dq') : Fits(scr'[x])
  BY <1>2, <1>8, <1>9, <1>10, <1>11, <1>13
<1>18. \A x \in Elems(dq') : scr'[x].map = TRUE
  BY <1>7, <1>10, <1>11
<1> QED BY <1>10, <1>11, <1>12, <1>14, <1>15, <1>16, <1>17, <1>18, Rebuilt

LEMMA ToViStep ==
  ASSUME IInv, ToVi
  PROVE  IInv'
<1>1. /\ ~vi /\ cur # NoScreen /\ vi' = TRUE /\ dq' = dq /\ hq' = hq /\ cur' = cur
      /\ scr' = [scr EXCEPT ![cur] = Colon(WholeTerminal(scr[cur].window), scr[cur].ccl)]
  BY DEF ToVi, Colon
<1>2. dq = <<cur>> /\ cur \in Screen
  BY <1>1 DEF IInv, QueuesSound, Queues, Types
<1>3. /\ Elems(dq) = {cur} /\ cur \notin Elems(hq) /\ Queue(hq) /\ scr \in Geometries
      /\ \A x \in Screen : scr[x] = NoScreen <=> x \notin Elems(dq) \cup Elems(hq)
  BY <1>2, Known, OneQueue
<1> QED BY <1>1, <1>2, <1>3, WholeStep

LEMMA QuitExStep ==
  ASSUME IInv, QuitEx
  PROVE  IInv'
<1>1. ~vi /\ cur # NoScreen
  BY DEF QuitEx
<1>2. dq = <<cur>> /\ cur \in Screen
  BY <1>1 DEF IInv, QueuesSound, Queues, Types
<1>3. /\ Elems(dq) = {cur} /\ cur \notin Elems(hq) /\ Queue(hq) /\ scr \in Geometries
      /\ \A x \in Screen : scr[x] = NoScreen <=> x \notin Elems(dq) \cup Elems(hq)
      /\ vi \in BOOLEAN /\ Elems(hq) \subseteq Screen
  BY <1>2, Known, OneQueue
<1>4. CASE hq = <<>>
  <2>1. scr' = [scr EXCEPT ![cur] = NoScreen] /\ dq' = <<>> /\ hq' = <<>> /\ cur' = NoScreen
        /\ vi' = vi
    BY <1>4 DEF QuitEx, Free
  <2>2. Elems(hq) = {}
    BY <1>4, NoQueue
  <2>3. scr' \in Geometries /\ \A s \in Screen : scr'[s] = NoScreen
    BY <1>2, <1>3, <2>1, <2>2 DEF Geometries
  <2>4. Queue(dq') /\ Queue(hq') /\ Elems(dq') = {} /\ Elems(hq') = {}
    BY <2>1, NoQueue
  <2> QED BY <1>1, <1>3, <2>1, <2>3, <2>4, Rebuilt
<1>5. CASE hq # <<>>
  <2> DEFINE n == hq[1]
             g == Free(cur)
  <2>1. /\ scr' = [g EXCEPT ![n] = [WholeTerminal(g[n].window) EXCEPT !.ccl = scr[n].ccl]]
        /\ dq' = <<n>> /\ hq' = Tail(hq) /\ cur' = n /\ vi' = TRUE
    BY <1>5 DEF QuitEx
  <2>2. /\ Queue(Tail(hq)) /\ n \in Screen /\ n \notin Elems(Tail(hq))
        /\ Elems(hq) = Elems(Tail(hq)) \cup {n}
    BY <1>3, <1>5, TailQueue
  <2>3. g \in Geometries /\ g[cur] = NoScreen /\ \A x \in Screen \ {cur} : g[x] = scr[x]
    BY <1>2, <1>3 DEF Geometries, Free
  <2> HIDE DEF n, g
  <2>4. g[n] = scr[n]
    BY <1>3, <2>2, <2>3
  <2>5. scr' = [g EXCEPT ![n] = Colon(WholeTerminal(scr[n].window), scr[n].ccl)]
    BY <2>1, <2>4 DEF Colon
  <2>6. \A x \in Elems(Tail(hq)) : g[x] = scr[x]
    BY <1>3, <2>2, <2>3
  <2>7. \A x \in Screen \ (Elems(Tail(hq)) \cup {n}) : g[x] = NoScreen
    BY <1>3, <2>2, <2>3
  <2>8. n \in Elems(dq) \cup Elems(hq) /\ Elems(Tail(hq)) \subseteq Elems(dq) \cup Elems(hq)
    BY <2>2
  <2> QED BY <2>1, <2>2, <2>3, <2>5, <2>6, <2>7, <2>8, WholeStep
<1> QED BY <1>4, <1>5

-----------------------------------------------------------------------------
(* The theorems.                                                           *)

(* The editor starts with one screen, which has the whole terminal.        *)
LEMMA InitHolds == Init => IInv
<1> SUFFICES ASSUME Init
             PROVE  IInv
  OBVIOUS
<1>1. PICK s \in Screen :
        /\ scr = [x \in Screen |-> IF x = s THEN WholeTerminal(Lines - 1) ELSE NoScreen]
        /\ dq = <<s>> /\ hq = <<>> /\ cur = s /\ vi = TRUE
  BY DEF Init
<1> DEFINE y == WholeTerminal(Lines - 1)
<1>2. /\ Lines - 1 \in Int /\ Lines - 1 >= 1 /\ NoScreen \notin Screen
      /\ NoScreen \notin Geometry
  BY ScreensAssumption
<1>3. y \in Geometry /\ y.woff = 0 /\ y.rows = Lines /\ y.window = Lines - 1 /\ Fits(y)
  BY <1>2, WholeIs
<1>4. y.map = TRUE
  BY <1>2, WholeIs
<1>5. scr = [x \in Screen |-> IF x = s THEN y ELSE NoScreen]
  BY <1>1
<1> HIDE DEF y
<1>6. scr \in Geometries /\ scr[s] = y /\ \A x \in Screen \ {s} : scr[x] = NoScreen
  BY <1>3, <1>5 DEF Geometries
<1>7. /\ Queue(dq) /\ Elems(dq) = {s} /\ Queue(hq) /\ Elems(hq) = {}
  BY <1>1, OneQueue, NoQueue
<1>8. Types
  BY <1>1, <1>6 DEF Types
<1>9. Queues
  <2>1. \A x \in Screen : scr[x] \in Geometry <=> x \in Elems(dq) \cup Elems(hq)
    BY <1>2, <1>3, <1>6, <1>7
  <2>2. \A x \in Elems(dq) : scr[x].map = TRUE
    BY <1>4, <1>6, <1>7
  <2> QED BY <1>1, <1>2, <1>7, <2>1, <2>2 DEF Queues
<1>10. Tiling
  BY <1>1, <1>3, <1>6, OneTile DEF Tiling
<1>11. TextFits
  BY <1>2, <1>3, <1>6, <1>7 DEF TextFits
<1> QED BY <1>8, <1>9, <1>10, <1>11 DEF IInv, QueuesSound

(* No step of the editor breaks the invariant.                             *)
LEMMA StepHolds == IInv /\ [Next]_scrvars => IInv'
<1> SUFFICES ASSUME IInv, [Next]_scrvars
             PROVE  IInv'
  OBVIOUS
<1>1. CASE UNCHANGED scrvars
  BY <1>1 DEF scrvars, IInv, QueuesSound, Types, Queues, Tiling, TextFits, Tiled
<1>2. ASSUME NEW n \in Screen, Split(n, TRUE) \/ Split(n, FALSE)
      PROVE  IInv'
  BY <1>2, SplitStep
<1>3. ASSUME NEW n \in Screen, Fg(n)
      PROVE  IInv'
  BY <1>3, FgStep
<1>4. ASSUME NEW n \in Screen, FgNew(n)
      PROVE  IInv'
  BY <1>4, FgNewStep
<1>5. CASE Bg
  BY <1>5, BgStep
<1>6. CASE NextScreen
  BY <1>6, NextScreenStep
<1>7. CASE Quit
  BY <1>7, QuitStep
<1>8. ASSUME NEW c \in Counts, Resize(c)
      PROVE  IInv'
  BY <1>8, ResizeStep
<1>9. ASSUME NEW n \in Windows, Window(n, TRUE) \/ Window(n, FALSE)
      PROVE  IInv'
  BY <1>9, WindowStep
<1>10. CASE ShowRows
  BY <1>10, ShowRowsStep
<1>11. CASE ToEx
  BY <1>11, ToExStep
<1>12. CASE ToVi
  BY <1>12, ToViStep
<1>13. CASE QuitEx
  BY <1>13, QuitExStep
<1> QED BY <1>1, <1>2, <1>3, <1>4, <1>5, <1>6, <1>7, <1>8, <1>9, <1>10, <1>11, <1>12, <1>13
        DEF Next

(* The inductive invariant: no command, in any order, leaves a screen in   *)
(* two queues or in none (vi/vs_split.c); without the commands that lose   *)
(* track of the rows of text of a small screen, the displayed screens      *)
(* cover the terminal, and each shows between t_minrows and t_maxrows of   *)
(* the rows of text.                                                       *)
THEOREM InvariantHolds == Spec => []IInv
<1> QED BY InitHolds, StepHolds, PTL DEF Spec

(* What the queues say of a state.                                         *)
LEMMA QueuesRight == IInv => EachInOneQueue
<1> SUFFICES ASSUME IInv
             PROVE  EachInOneQueue
  OBVIOUS
<1> DEFINE r == dq \o hq
<1>1. /\ Queue(dq) /\ Queue(hq) /\ Elems(dq) \cap Elems(hq) = {}
      /\ Elems(dq) \subseteq Screen /\ Elems(hq) \subseteq Screen
      /\ \A s \in Screen : Exists(s) <=> s \in Elems(dq) \cup Elems(hq)
      /\ cur # NoScreen => cur \in Elems(dq)
      /\ vi => \A s \in Elems(dq) : scr[s].map = TRUE
  BY Known
<1>2. Queue(r) /\ Elems(r) = Elems(dq) \cup Elems(hq)
  BY <1>1, JoinedQueue
<1> HIDE DEF r
<1>3. DOMAIN r = 1..Len(r) /\ DOMAIN dq = 1..Len(dq)
  BY <1>1, <1>2, Members
<1>4. IsInjective(r)
  BY <1>2, <1>3 DEF IsInjective, Queue
<1>5. {s \in Screen : Exists(s)} = {r[i] : i \in DOMAIN r}
  <2>1. {r[i] : i \in DOMAIN r} = Elems(r)
    BY <1>3 DEF Elems
  <2> QED BY <1>1, <1>2, <2>1
<1>6. cur # NoScreen => Contains(dq, cur)
  BY <1>1, HeldIn
<1>7. \A s \in Shown : scr[s].map
  BY <1>1, <1>3 DEF Shown, Elems
<1> QED BY <1>4, <1>5, <1>6, <1>7 DEF EachInOneQueue, r

(* Each screen is in exactly one of gp->dq and gp->hq, once, the current   *)
(* one is displayed, and each displayed screen has its map: splitting,     *)
(* :fg, :bg, Q, :visual and leaving a screen each unlink and link screens  *)
(* in steps of their own (vi/vs_split.c, vi/vi.c, common/screen.c).        *)
THEOREM EachInItsQueue == Spec => []EachInOneQueue
<1> QED BY InvariantHolds, QueuesRight, PTL

(* What the tiling says of a state.                                        *)
LEMMA TilingRight == RegularOnly /\ IInv => RowsTile
<1> SUFFICES ASSUME RegularOnly, IInv, Shown # {}
             PROVE  /\ scr[dq[1]].woff = 0
                    /\ \A i \in DOMAIN dq :
                         /\ scr[dq[i]].rows >= 1
                         /\ scr[dq[i]].woff + scr[dq[i]].rows =
                              IF i = Len(dq) THEN Lines ELSE scr[dq[i + 1]].woff
  BY DEF RowsTile
<1>1. vi /\ cur # NoScreen
  BY DEF Shown
<1>2. Queue(dq) /\ cur \in Elems(dq) /\ Tiled(dq, scr)
  BY <1>1, Known
<1>3. /\ DOMAIN dq = 1..Len(dq) /\ Len(dq) \in Nat /\ dq # <<>>
      /\ \A i \in 1..Len(dq) : dq[i] \in Elems(dq)
  BY <1>2, Members
<1>4. \A i \in 1..Len(dq) : scr[dq[i]].rows \in Int
  BY <1>3, Known DEF Geometry
<1>5. \A i \in 1..Len(dq) : scr[dq[i]].rows >= 2
  BY <1>1, <1>3, RegularText DEF Fits
<1>6. \A i \in 1..Len(dq) : scr[dq[i]].rows >= 1
  BY <1>4, <1>5
<1>7. ASSUME NEW n \in Nat
      PROVE  \A i \in 1..n : i = n \/ i \in 1..(n - 1)
  OBVIOUS
<1> QED BY <1>2, <1>3, <1>6, <1>7 DEF Tiled

(* What the rows of text say of a state.                                   *)
LEMMA LayoutRight == RegularOnly /\ IInv => Layout
<1> SUFFICES ASSUME RegularOnly, IInv
             PROVE  Layout
  OBVIOUS
<1>1. ASSUME NEW s \in Shown
      PROVE  scr[s].tmin <= scr[s].trows /\ scr[s].trows <= scr[s].tmax
             /\ scr[s].tmax = scr[s].rows - 1
  <2>1. vi /\ s \in {dq[i] : i \in DOMAIN dq}
    BY DEF Shown
  <2>2. Queue(dq)
    BY Known
  <2>3. s \in Elems(dq)
    BY <2>1, <2>2, Members
  <2>4. Fits(scr[s])
    BY <2>1, <2>3, RegularText
  <2> QED BY <2>4 DEF Fits
<1> QED BY <1>1, TilingRight DEF Layout, TextRowsInScreen

(* As long as no command is given that loses track of the rows of text of  *)
(* a small screen, the displayed screens cover the terminal and each shows *)
(* between t_minrows and t_maxrows = rows - 1 rows of text ("t_minrows is  *)
(* the minimum rows to display, t_maxrows is the maximum rows", vi/vi.c).  *)
THEOREM LayoutHolds == RegularOnly => (Spec => []Layout)
<1> SUFFICES ASSUME RegularOnly
             PROVE  Spec => []Layout
  OBVIOUS
<1>1. IInv => Layout
  BY LayoutRight
<1> QED BY InvariantHolds, <1>1, PTL
=============================================================================
