--------------------------- MODULE KeyQueueProofs ---------------------------
(***************************************************************************)
(* The theorems about the queue of events of KeyQueue: its buffer never    *)
(* overruns, the search of the maps misses none, and the queue is the      *)
(* stream of KeyStream, for all keys, maps, buffer sizes and @ buffers.    *)
(*                                                                         *)
(* First come facts about sequences and the order of the inputs, then the  *)
(* search, the buffer, and one lemma for each kind of step.                *)
(***************************************************************************)
EXTENDS KeyQueue, SequenceTheorems, WellFoundedInduction, TLAPS

(* a is the beginning of b, and a comes before b in the list.              *)
Begins(a, b) == Len(a) <= Len(b) /\ \A i \in 1..Len(a) : a[i] = b[i]
Less(a, b) == Before(a, b) \/ (Begins(a, b) /\ Len(a) < Len(b))

(* What the early ends of seq_find() rely on: the first keys go up through *)
(* the whole list, and the inputs go up within each type.                  *)
Sorted(L) ==
  \A i, j \in 1..Len(L) :
    i < j => /\ L[i].input[1] <= L[j].input[1]
             /\ (L[i].stype = L[j].stype => Less(L[i].input, L[j].input))

(* The entries that apply to the keys of a queue, as KeyStream has them.   *)
SpelledBy(m, q, mode) ==
  /\ m.stype = mode /\ Len(m.input) <= Len(q)
  /\ \A i \in 1..Len(m.input) : q[i].c = m.input[i]
Entered(L) == {L[i] : i \in DOMAIN L}
AppliesTo(q, M, mode) ==
  IF q = <<>> \/ q[1].type # "key" \/ "nomap" \in q[1].flags THEN {}
  ELSE {m \in M : SpelledBy(m, q, mode)
                  /\ \A n \in M : SpelledBy(n, q, mode) => Len(m.input) <= Len(n.input)}
Quiet == AppliesTo(buf.q, Entered(seqq), MapOf(ctx, quote)) = {}

Buffer == [q : Seq(Event), next : Nat, nelem : Nat]
BufOK(b) == b \in Buffer /\ b.next + Len(b.q) <= b.nelem /\ (b.q = <<>> => b.next = 0)

TypeOK ==
  /\ tty \in Seq(Keys) /\ sigint \in BOOLEAN /\ interrupted \in BOOLEAN
  /\ seqq \in Seq(SEQ) /\ remap \in BOOLEAN
  /\ buf \in Buffer
  /\ pc \in {"read", "map", "nomap", "ready", "ended"}
  /\ get \in [timed : BOOLEAN, istimeout : BOOLEAN, remap_cnt : Nat, evp : Event \cup {NotDigit}]
  /\ got \in Event \cup {NotDigit}
  /\ ctx \in Reading /\ quote \in BOOLEAN
  /\ word \in [text : Seq(Keys), inword : BOOLEAN] /\ abcnt \in Nat /\ used \in Nat

(* What v_event_get() has found out and relies on after it waited: a read  *)
(* with a timeout has keys that no map applies to yet, and they are still  *)
(* there unmapped after it; the event to be delivered is the next one and  *)
(* no map applies to it, or it was put there by a map with noremap.        *)
Waited ==
  /\ (pc = "read" /\ get.timed /\ ctx # "match") => (buf.q # <<>> /\ Quiet)
  /\ (pc = "map" /\ get.istimeout) => Quiet
  /\ pc = "nomap" => ((get.evp = buf.q[1] /\ Quiet) \/ (~remap /\ "nomap" \in buf.q[1].flags))

IInv == TypeOK /\ BufferHolds /\ Sorted(seqq) /\ Waited

-----------------------------------------------------------------------------
(* Numbers and sequences                                                   *)

LEMMA Least ==
  ASSUME NEW T, T \subseteq Nat, T # {}
  PROVE  \E i \in T : \A j \in T : i <= j
<1> DEFINE R == OpToRel(<, Nat)
<1>1. \E x \in T : \A y \in T : ~(<<y, x>> \in R)
  BY NatLessThanWellFounded, WFMin
<1>2. \A x, y \in Nat : y < x => <<y, x>> \in R
  BY DEF OpToRel
<1> HIDE DEF R
<1>3. PICK x \in T : \A y \in T : ~(<<y, x>> \in R)
  BY <1>1
<1>4. ASSUME NEW y \in T PROVE x <= y
  <2>1. x \in Nat /\ y \in Nat /\ ~(y < x)
    BY <1>2, <1>3, Zenon
  <2> QED BY <2>1
<1> QED BY <1>4

LEMMA MinIs ==
  ASSUME NEW T, T \subseteq Nat, T # {}
  PROVE  Min(T) \in T /\ \A j \in T : Min(T) <= j
<1>1. \E i \in T : \A j \in T : i <= j
  BY Least
<1> QED BY <1>1 DEF Min

LEMMA SeqIs ==
  ASSUME NEW X, NEW s \in Seq(X)
  PROVE  /\ Len(s) \in Nat /\ DOMAIN s = 1..Len(s)
         /\ \A i \in 1..Len(s) : s[i] \in X
         /\ s # <<>> => Len(s) > 0
  BY LenProperties, ElementOfSeq, EmptySeq

LEMMA RestIs ==
  ASSUME NEW X, NEW s \in Seq(X), NEW n \in 0..Len(s)
  PROVE  /\ Rest(s, n) \in Seq(X) /\ Len(Rest(s, n)) = Len(s) - n
         /\ \A i \in 1..(Len(s) - n) : Rest(s, n)[i] = s[n + i]
         /\ n = 0 => Rest(s, n) = s
         /\ n = Len(s) => Rest(s, n) = <<>>
         /\ n = 1 => Rest(s, n) = Tail(s)
         /\ SubSeq(s, 1, n) \o Rest(s, n) = s
<1>1. Len(s) \in Nat /\ \A i \in (n + 1)..Len(s) : s[i] \in X
  BY SeqIs
<1>2. /\ Rest(s, n) \in Seq(X)
      /\ Len(Rest(s, n)) = IF n + 1 <= Len(s) THEN Len(s) - (n + 1) + 1 ELSE 0
      /\ \A i \in 1..(Len(s) - (n + 1) + 1) : Rest(s, n)[i] = s[n + 1 + i - 1]
  BY <1>1, SubSeqProperties DEF Rest
<1>3. Len(Rest(s, n)) = Len(s) - n /\ \A i \in 1..(Len(s) - n) : Rest(s, n)[i] = s[n + i]
  BY <1>1, <1>2
<1>4. n = 0 => Rest(s, n) = s
  BY SubSeqFull DEF Rest
<1>5. n = Len(s) => Rest(s, n) = <<>>
  BY <1>1, SubSeqEmpty DEF Rest
<1>6. n = 1 => Rest(s, n) = Tail(s)
  <2> SUFFICES ASSUME n = 1 PROVE Rest(s, n) = Tail(s)
    OBVIOUS
  <2>1. s # <<>> /\ Rest(s, n) = SubSeq(s, 2, Len(s))
    BY <1>1, EmptySeq DEF Rest
  <2> QED BY <2>1, TailIsSubSeq
<1>7. SubSeq(s, 1, n) \o Rest(s, n) = s
  <2>1. CASE n = 0
    <3>1. SubSeq(s, 1, n) = <<>>
      BY <2>1, SubSeqEmpty
    <3> QED BY <1>4, <2>1, <3>1, ConcatEmptySeq
  <2>2. CASE n > 0
    <3>1. SubSeq(s, 1, n) \o SubSeq(s, n + 1, Len(s)) = SubSeq(s, 1, Len(s))
      <4>1. 1 \in 1..(Len(s) + 1) /\ n \in (1 - 1)..Len(s) /\ Len(s) \in n..Len(s)
        BY <1>1
      <4> QED BY <4>1, ConcatAdjacentSubSeq
    <3> QED BY <3>1, SubSeqFull DEF Rest
  <2> QED BY <2>1, <2>2
<1> QED BY <1>2, <1>3, <1>4, <1>5, <1>6, <1>7

LEMMA BeginsIs ==
  ASSUME NEW X, NEW a \in Seq(X), NEW b \in Seq(X)
  PROVE  IsPrefix(a, b) <=> Begins(a, b)
<1>1. Len(a) \in Nat /\ Len(b) \in Nat /\ SubSeq(a, 1, Len(a)) = a
      /\ (\A i \in 1..Len(a) : a[i] \in X) /\ (\A i \in 1..Len(b) : b[i] \in X)
  BY SeqIs, SubSeqFull
<1>2. ASSUME Len(a) <= Len(b)
      PROVE  SubSeq(b, 1, Len(a)) = a <=> \A i \in 1..Len(a) : a[i] = b[i]
  <2> DEFINE c == SubSeq(b, 1, Len(a))
  <2>1. /\ c \in Seq(X) /\ Len(c) = IF 1 <= Len(a) THEN Len(a) - 1 + 1 ELSE 0
        /\ \A i \in 1..(Len(a) - 1 + 1) : c[i] = b[1 + i - 1]
    <3>1. \A i \in 1..Len(a) : b[i] \in X
      BY <1>1, <1>2
    <3> QED BY <1>1, <3>1, SubSeqProperties
  <2>2. Len(c) = Len(a) /\ \A i \in 1..Len(a) : c[i] = b[i]
    BY <1>1, <2>1
  <2>3. (\A i \in 1..Len(a) : c[i] = a[i]) => c = a
    BY <2>1, <2>2, SeqEqual
  <2> HIDE DEF c
  <2> QED BY <2>2, <2>3 DEF c
<1> QED BY <1>1, <1>2 DEF IsPrefix, Begins

LEMMA ConcatIs ==
  ASSUME NEW X, NEW a \in Seq(X), NEW b \in Seq(X)
  PROVE  /\ a \o b \in Seq(X) /\ Len(a \o b) = Len(a) + Len(b)
         /\ \A i \in 1..Len(a) : (a \o b)[i] = a[i]
         /\ \A i \in 1..Len(b) : (a \o b)[Len(a) + i] = b[i]
         /\ IsPrefix(a, a \o b) /\ IsSuffix(b, a \o b)
         /\ a # <<>> => a \o b # <<>> /\ (a \o b)[1] = a[1]
         /\ a = <<>> => a \o b = b
<1> DEFINE c == a \o b
<1>1. /\ Len(a) \in Nat /\ Len(b) \in Nat /\ c \in Seq(X) /\ Len(c) = Len(a) + Len(b)
      /\ \A i \in 1..(Len(a) + Len(b)) : c[i] = IF i <= Len(a) THEN a[i] ELSE b[i - Len(a)]
  BY SeqIs, ConcatProperties
<1>2. a # <<>> => Len(a) > 0
  BY SeqIs
<1>3. a = <<>> => c = b
  BY ConcatEmptySeq
<1> HIDE DEF c
<1>4. \A i \in 1..Len(a) : c[i] = a[i]
  BY <1>1
<1>8. ASSUME NEW i \in 1..Len(b)
      PROVE  c[Len(a) + i] = b[i]
  <2>1. /\ Len(a) + i \in 1..(Len(a) + Len(b)) /\ ~(Len(a) + i <= Len(a))
        /\ Len(a) + i - Len(a) = i
    BY <1>1
  <2> QED BY <1>1, <2>1
<1>5. IsPrefix(a, c)
  <2>1. Begins(a, c)
    BY <1>1, <1>4 DEF Begins
  <2> QED BY <1>1, <2>1, BeginsIs
<1>6. IsSuffix(b, c)
  <2>1. /\ Reverse(b) \in Seq(X) /\ Len(Reverse(b)) = Len(b)
        /\ \A i \in 1..Len(b) : Reverse(b)[i] = b[Len(b) - i + 1]
    <3>1. \A i \in 1..Len(b) : Len(b) - i + 1 \in 1..Len(b) /\ b[Len(b) - i + 1] \in X
      BY <1>1, SeqIs
    <3> QED BY <1>1, <3>1 DEF Reverse
  <2>2. /\ Reverse(c) \in Seq(X) /\ Len(Reverse(c)) = Len(c)
        /\ \A i \in 1..Len(c) : Reverse(c)[i] = c[Len(c) - i + 1]
    <3>1. \A i \in 1..Len(c) : Len(c) - i + 1 \in 1..Len(c) /\ c[Len(c) - i + 1] \in X
      BY <1>1, SeqIs
    <3> QED BY <1>1, <3>1 DEF Reverse
  <2>3. Begins(Reverse(b), Reverse(c))
    <3>1. ASSUME NEW i \in 1..Len(b)
          PROVE  b[Len(b) - i + 1] = c[Len(c) - i + 1]
      <4>1. /\ Len(c) - i + 1 \in 1..(Len(a) + Len(b)) /\ ~(Len(c) - i + 1 <= Len(a))
            /\ Len(c) - i + 1 - Len(a) = Len(b) - i + 1
        BY <1>1
      <4> QED BY <1>1, <4>1
    <3>2. ASSUME NEW i \in 1..Len(b)
          PROVE  Reverse(b)[i] = Reverse(c)[i]
      <4>1. i \in 1..Len(c)
        BY <1>1
      <4> QED BY <2>1, <2>2, <3>1, <4>1
    <3>3. Len(Reverse(b)) = Len(b) /\ Len(Reverse(b)) <= Len(Reverse(c))
      BY <1>1, <2>1, <2>2
    <3> QED BY <3>2, <3>3 DEF Begins
  <2> QED BY <2>1, <2>2, <2>3, BeginsIs DEF IsSuffix
<1>7. a # <<>> => c # <<>> /\ c[1] = a[1]
  BY <1>1, <1>2, <1>4, EmptySeq
<1> QED BY <1>1, <1>3, <1>4, <1>5, <1>6, <1>7, <1>8 DEF c

LEMMA FrontIs ==
  ASSUME NEW X, NEW s \in Seq(X), NEW n \in 0..Len(s)
  PROVE  /\ SubSeq(s, 1, n) \in Seq(X) /\ Len(SubSeq(s, 1, n)) = n
         /\ \A i \in 1..n : SubSeq(s, 1, n)[i] = s[i]
<1>1. Len(s) \in Nat /\ \A i \in 1..n : s[i] \in X
  BY SeqIs
<1>2. /\ SubSeq(s, 1, n) \in Seq(X)
      /\ Len(SubSeq(s, 1, n)) = IF 1 <= n THEN n - 1 + 1 ELSE 0
      /\ \A i \in 1..(n - 1 + 1) : SubSeq(s, 1, n)[i] = s[1 + i - 1]
  BY <1>1, SubSeqProperties
<1> QED BY <1>1, <1>2

LEMMA InsertIs ==
  ASSUME NEW X, NEW s \in Seq(X), NEW e \in X, NEW n \in 1..(Len(s) + 1)
  PROVE  /\ InsertAt(s, n, e) \in Seq(X) /\ Len(InsertAt(s, n, e)) = Len(s) + 1
         /\ \A i \in 1..(Len(s) + 1) :
              InsertAt(s, n, e)[i] = IF i < n THEN s[i] ELSE IF i = n THEN e ELSE s[i - 1]
<1> DEFINE a == SubSeq(s, 1, n - 1)
           b == Rest(s, n - 1)
           c == a \o <<e>>
           d == c \o b
<1>1. Len(s) \in Nat /\ n - 1 \in 0..Len(s)
  BY SeqIs
<1>2. a \in Seq(X) /\ Len(a) = n - 1 /\ \A i \in 1..(n - 1) : a[i] = s[i]
  BY <1>1, FrontIs
<1>3. b \in Seq(X) /\ Len(b) = Len(s) - (n - 1) /\ \A i \in 1..(Len(s) - (n - 1)) : b[i] = s[n - 1 + i]
  BY <1>1, RestIs
<1>4. <<e>> \in Seq(X) /\ Len(<<e>>) = 1 /\ <<e>>[1] = e
  OBVIOUS
<1>5. d = InsertAt(s, n, e)
  <2>1. n - 1 + 1 = n
    BY <1>1
  <2> QED BY <2>1 DEF InsertAt, Rest
<1> HIDE DEF a, b, d
<1>6. /\ c \in Seq(X) /\ Len(c) = n /\ c[n] = e /\ \A i \in 1..(n - 1) : c[i] = s[i]
  <2> HIDE DEF c
  <2>1. /\ c \in Seq(X) /\ Len(c) = Len(a) + 1 /\ (\A i \in 1..Len(a) : c[i] = a[i])
        /\ \A i \in 1..1 : c[Len(a) + i] = <<e>>[i]
    BY <1>2, <1>4, ConcatIs DEF c
  <2>2. c[Len(a) + 1] = <<e>>[1] /\ Len(a) + 1 = n
    BY <1>1, <1>2, <2>1
  <2> QED BY <1>2, <1>4, <2>1, <2>2
<1> HIDE DEF c
<1>7. /\ d \in Seq(X) /\ Len(d) = Len(c) + Len(b) /\ (\A i \in 1..Len(c) : d[i] = c[i])
      /\ \A i \in 1..Len(b) : d[Len(c) + i] = b[i]
  BY <1>3, <1>6, ConcatIs DEF d
<1>8. ASSUME NEW i \in 1..(Len(s) + 1)
      PROVE  d[i] = IF i < n THEN s[i] ELSE IF i = n THEN e ELSE s[i - 1]
  <2>1. CASE i < n
    <3>1. i \in 1..(n - 1) /\ i \in 1..Len(c)
      BY <1>1, <1>6, <2>1
    <3> QED BY <1>6, <1>7, <2>1, <3>1
  <2>2. CASE i = n
    <3>1. n \in 1..Len(c) /\ ~(n < n)
      BY <1>1, <1>6
    <3> QED BY <1>6, <1>7, <2>2, <3>1
  <2>3. CASE n < i
    <3>1. i - n \in 1..Len(b) /\ i - n \in 1..(Len(s) - (n - 1)) /\ n + (i - n) = i
          /\ n - 1 + (i - n) = i - 1
      BY <1>1, <1>3, <2>3
    <3>2. d[Len(c) + (i - n)] = b[i - n] /\ b[i - n] = s[n - 1 + (i - n)]
      BY <1>3, <1>7, <3>1
    <3>3. ~(i < n) /\ i # n
      BY <1>1, <2>3
    <3> QED BY <1>6, <3>1, <3>2, <3>3
  <2> QED BY <1>1, <2>1, <2>2, <2>3
<1>9. Len(d) = Len(s) + 1
  BY <1>1, <1>3, <1>6, <1>7
<1> QED BY <1>5, <1>7, <1>8, <1>9

LEMMA RemoveIs ==
  ASSUME NEW X, NEW s \in Seq(X), NEW n \in 1..Len(s)
  PROVE  /\ RemoveAt(s, n) \in Seq(X) /\ Len(RemoveAt(s, n)) = Len(s) - 1
         /\ \A i \in 1..(Len(s) - 1) : RemoveAt(s, n)[i] = IF i < n THEN s[i] ELSE s[i + 1]
<1> DEFINE a == SubSeq(s, 1, n - 1)
           b == Rest(s, n)
           d == a \o b
<1>1. Len(s) \in Nat /\ n - 1 \in 0..Len(s) /\ n \in 0..Len(s)
  BY SeqIs
<1>2. a \in Seq(X) /\ Len(a) = n - 1 /\ \A i \in 1..(n - 1) : a[i] = s[i]
  BY <1>1, FrontIs
<1>3. b \in Seq(X) /\ Len(b) = Len(s) - n /\ \A i \in 1..(Len(s) - n) : b[i] = s[n + i]
  BY <1>1, RestIs
<1>4. d = RemoveAt(s, n)
  BY DEF RemoveAt, Rest
<1> HIDE DEF a, b, d
<1>5. /\ d \in Seq(X) /\ Len(d) = Len(a) + Len(b) /\ (\A i \in 1..Len(a) : d[i] = a[i])
      /\ \A i \in 1..Len(b) : d[Len(a) + i] = b[i]
  <2>1. a \in Seq(X) /\ b \in Seq(X)
    BY <1>2, <1>3
  <2> QED BY <2>1, ConcatIs DEF d
<1>6. ASSUME NEW i \in 1..(Len(s) - 1)
      PROVE  d[i] = IF i < n THEN s[i] ELSE s[i + 1]
  <2>1. CASE i < n
    <3>1. i \in 1..(n - 1) /\ i \in 1..Len(a)
      BY <1>1, <1>2, <2>1
    <3> QED BY <1>2, <1>5, <2>1, <3>1
  <2>2. CASE ~(i < n)
    <3> DEFINE j == i - n + 1
    <3>1. j \in 1..Len(b) /\ j \in 1..(Len(s) - n) /\ Len(a) + j = i /\ n + j = i + 1
      BY <1>1, <1>2, <1>3, <2>2
    <3> HIDE DEF j
    <3>2. d[Len(a) + j] = b[j] /\ b[j] = s[n + j]
      BY <1>3, <1>5, <3>1
    <3> QED BY <2>2, <3>1, <3>2
  <2> QED BY <2>1, <2>2
<1>7. Len(d) = Len(s) - 1
  BY <1>1, <1>2, <1>3, <1>5
<1> QED BY <1>4, <1>5, <1>6, <1>7

LEMMA EventsAre ==
  ASSUME NEW s \in Seq(Keys), NEW flags \in SUBSET Flags
  PROVE  /\ AsEvents(s, flags) \in Seq(Event) /\ Len(AsEvents(s, flags)) = Len(s)
         /\ \A i \in 1..Len(s) : /\ AsEvents(s, flags)[i].type = "key"
                               /\ AsEvents(s, flags)[i].flags = flags
         /\ s # <<>> => AsEvents(s, flags) # <<>> /\ AsEvents(s, flags)[1].flags = flags
<1>1. Len(s) \in Nat /\ (s # <<>> => Len(s) > 0) /\ \A i \in 1..Len(s) : s[i] \in Keys
  BY SeqIs
<1>2. \A i \in 1..Len(s) : [type |-> "key", c |-> s[i], flags |-> flags] \in Event
  BY <1>1 DEF Event
<1>3. /\ AsEvents(s, flags) \in Seq(Event) /\ Len(AsEvents(s, flags)) = Len(s)
      /\ \A i \in 1..Len(s) : AsEvents(s, flags)[i] = [type |-> "key", c |-> s[i], flags |-> flags]
  BY <1>1, <1>2 DEF AsEvents
<1>4. s # <<>> => 1 \in 1..Len(s) /\ AsEvents(s, flags) # <<>>
  BY <1>1, <1>3, EmptySeq
<1>5. ASSUME NEW i \in 1..Len(s)
      PROVE  AsEvents(s, flags)[i].type = "key" /\ AsEvents(s, flags)[i].flags = flags
  <2> DEFINE x == AsEvents(s, flags)[i]
  <2>1. x = [type |-> "key", c |-> s[i], flags |-> flags]
    BY <1>3
  <2> HIDE DEF x
  <2> QED BY <2>1 DEF x
<1> QED BY <1>3, <1>4, <1>5

-----------------------------------------------------------------------------
(* The order of the inputs                                                 *)

Input == Seq(Keys) \ {<<>>}

LEMMA InputIs ==
  ASSUME NEW a \in Input
  PROVE  /\ a \in Seq(Keys) /\ Len(a) \in Nat /\ Len(a) >= 1 /\ DOMAIN a = 1..Len(a)
         /\ 1 \in 1..Len(a) /\ \A i \in 1..Len(a) : a[i] \in Nat
<1>1. a \in Seq(Keys) /\ a # <<>> /\ Keys \subseteq Nat
  BY KeyAssumption DEF Input
<1>2. /\ Len(a) \in Nat /\ DOMAIN a = 1..Len(a) /\ Len(a) > 0
      /\ \A i \in 1..Len(a) : a[i] \in Keys
  BY <1>1, SeqIs
<1>3. Len(a) >= 1 /\ 1 \in 1..Len(a)
  BY <1>2
<1>4. \A i \in 1..Len(a) : a[i] \in Nat
  BY <1>1, <1>2
<1> QED BY <1>1, <1>2, <1>3, <1>4

LEMMA BeforeIs ==
  ASSUME NEW a \in Input, NEW b \in Input
  PROVE  Before(a, b) <=> \E i \in 1..Len(a) : /\ i \in 1..Len(b) /\ a[i] < b[i]
                                               /\ \A j \in 1..i - 1 : a[j] = b[j]
BY InputIs DEF Before

\* One begins the other, or they differ somewhere first.
LEMMA FirstDifference ==
  ASSUME NEW a \in Input, NEW b \in Input
  PROVE  Begins(a, b) \/ Begins(b, a) \/ Before(a, b) \/ Before(b, a)
<1> DEFINE D == {i \in 1..Len(a) : i \in 1..Len(b) /\ a[i] # b[i]}
<1>1. /\ Len(a) \in Nat /\ Len(b) \in Nat
      /\ (\A i \in 1..Len(a) : a[i] \in Nat) /\ (\A i \in 1..Len(b) : b[i] \in Nat)
  BY InputIs
<1>2. CASE D = {}
  <2>1. \A i \in 1..Len(a) : i \in 1..Len(b) => a[i] = b[i]
    BY <1>2
  <2>2. CASE Len(a) <= Len(b)
    BY <1>1, <2>1, <2>2 DEF Begins
  <2>3. CASE Len(b) <= Len(a)
    <3>1. \A i \in 1..Len(b) : i \in 1..Len(a)
      BY <1>1, <2>3
    <3> QED BY <2>1, <2>3, <3>1 DEF Begins
  <2> QED BY <1>1, <2>2, <2>3
<1>3. CASE D # {}
  <2>1. PICK i \in D : \A j \in D : i <= j
    <3>1. D \subseteq Nat
      BY <1>1
    <3> QED BY <1>3, <3>1, Least
  <2>2. i \in 1..Len(a) /\ i \in 1..Len(b) /\ a[i] # b[i]
    OBVIOUS
  <2>3. ASSUME NEW j \in 1..i - 1
        PROVE  a[j] = b[j]
    <3>1. j \in 1..Len(a) /\ j \in 1..Len(b) /\ ~(i <= j)
      BY <1>1, <2>2
    <3> QED BY <2>1, <3>1
  <2>4. a[i] < b[i] \/ b[i] < a[i]
    BY <1>1, <2>2
  <2>5. Before(a, b) \/ Before(b, a)
    BY <2>2, <2>3, <2>4, BeforeIs
  <2> QED BY <2>5
<1> QED BY <1>2, <1>3

\* What comes before at a difference does not follow, or begin, or end there.
LEMMA BeforeExcludes ==
  ASSUME NEW a \in Input, NEW b \in Input, Before(a, b)
  PROVE  ~Before(b, a) /\ ~Begins(a, b) /\ ~Begins(b, a) /\ a # b
<1>1. PICK i \in 1..Len(a) : /\ i \in 1..Len(b) /\ a[i] < b[i]
                             /\ \A j \in 1..i - 1 : a[j] = b[j]
  BY BeforeIs
<1>2. a[i] \in Nat /\ b[i] \in Nat /\ i \in Nat
  BY <1>1, InputIs
<1>3. ~Before(b, a)
  <2> SUFFICES ASSUME NEW k \in 1..Len(b), k \in 1..Len(a), b[k] < a[k],
                      \A j \in 1..k - 1 : b[j] = a[j]
               PROVE  FALSE
    BY BeforeIs
  <2>1. a[k] \in Nat /\ b[k] \in Nat /\ k \in Nat
    BY InputIs
  <2>2. CASE k < i
    <3>1. k \in 1..i - 1
      BY <1>2, <2>1, <2>2
    <3> QED BY <1>1, <2>1, <3>1
  <2>3. CASE i < k
    <3>1. i \in 1..k - 1
      BY <1>2, <2>1, <2>3
    <3> QED BY <1>1, <1>2, <3>1
  <2>4. CASE i = k
    BY <1>1, <1>2, <2>4
  <2> QED BY <1>2, <2>1, <2>2, <2>3, <2>4
<1>4. ~Begins(a, b) /\ ~Begins(b, a) /\ a # b
  BY <1>1, <1>2 DEF Begins
<1> QED BY <1>3, <1>4

LEMMA BeforeOnward ==
  ASSUME NEW a \in Input, NEW b \in Input, NEW c \in Input, Before(a, b),
         Before(b, c) \/ Begins(b, c)
  PROVE  Before(a, c)
<1>1. PICK i \in 1..Len(a) : /\ i \in 1..Len(b) /\ a[i] < b[i]
                             /\ \A j \in 1..i - 1 : a[j] = b[j]
  BY BeforeIs
<1>2. i \in Nat /\ Len(b) \in Nat /\ Len(c) \in Nat /\ Len(a) \in Nat
  BY InputIs
<1>3. CASE Begins(b, c)
  <2>1. i \in 1..Len(c) /\ a[i] < c[i] /\ \A j \in 1..i - 1 : a[j] = c[j]
    <3>1. \A j \in 1..i : j \in 1..Len(b)
      BY <1>1, <1>2
    <3>2. \A j \in 1..i : b[j] = c[j] /\ j \in 1..Len(c)
      BY <1>2, <1>3, <3>1 DEF Begins
    <3>3. i \in 1..i /\ \A j \in 1..i - 1 : j \in 1..i
      BY <1>2
    <3> QED BY <1>1, <3>2, <3>3
  <2> QED BY <2>1, BeforeIs
<1>4. CASE Before(b, c)
  <2>1. PICK k \in 1..Len(b) : /\ k \in 1..Len(c) /\ b[k] < c[k]
                               /\ \A j \in 1..k - 1 : b[j] = c[j]
    BY <1>4, BeforeIs
  <2>2. k \in Nat
    BY <1>2
  <2> DEFINE m == IF i <= k THEN i ELSE k
  <2>3. m \in 1..Len(a) /\ m \in 1..Len(c) /\ m \in 1..Len(b) /\ m \in Nat
    BY <1>1, <1>2, <2>1, <2>2
  <2>4. a[m] \in Nat /\ b[m] \in Nat /\ c[m] \in Nat
    BY <2>3, InputIs
  <2>5. \A j \in 1..m - 1 : j \in 1..i - 1 /\ j \in 1..k - 1
    BY <1>2, <2>2
  <2>6. a[m] < c[m]
    <3>1. CASE i = k
      BY <1>1, <2>1, <2>4, <3>1
    <3>2. CASE i < k
      <4>1. m = i /\ i \in 1..k - 1
        BY <1>2, <2>2, <3>2
      <4> QED BY <1>1, <2>1, <2>4, <4>1
    <3>3. CASE k < i
      <4>1. m = k /\ k \in 1..i - 1
        BY <1>2, <2>2, <3>3
      <4> QED BY <1>1, <2>1, <2>4, <4>1
    <3> QED BY <1>2, <2>2, <3>1, <3>2, <3>3
  <2>7. \A j \in 1..m - 1 : a[j] = c[j]
    BY <1>1, <2>1, <2>5
  <2> HIDE DEF m
  <2> QED BY <2>3, <2>6, <2>7, BeforeIs
<1> QED BY <1>3, <1>4

LEMMA BeginsOnward ==
  ASSUME NEW a \in Input, NEW b \in Input, NEW c \in Input, Begins(a, b)
  PROVE  /\ Begins(b, c) => Begins(a, c)
         /\ Before(b, c) => Before(a, c) \/ Begins(a, c)
<1>1. Len(a) \in Nat /\ Len(b) \in Nat /\ Len(c) \in Nat
  BY InputIs
<1>2. ASSUME Begins(b, c) PROVE Begins(a, c)
  BY <1>1, <1>2 DEF Begins
<1>3. ASSUME Before(b, c) PROVE Before(a, c) \/ Begins(a, c)
  <2>1. PICK k \in 1..Len(b) : /\ k \in 1..Len(c) /\ b[k] < c[k]
                               /\ \A j \in 1..k - 1 : b[j] = c[j]
    BY <1>3, BeforeIs
  <2>2. CASE k <= Len(a)
    <3>1. k \in 1..Len(a) /\ a[k] < c[k] /\ \A j \in 1..k - 1 : a[j] = c[j]
      <4>1. k \in 1..Len(a) /\ \A j \in 1..k - 1 : j \in 1..Len(a)
        BY <1>1, <2>1, <2>2
      <4> QED BY <2>1, <4>1 DEF Begins
    <3> QED BY <2>1, <3>1, BeforeIs
  <2>3. CASE ~(k <= Len(a))
    <3>1. Len(a) <= Len(c) /\ \A j \in 1..Len(a) : j \in 1..k - 1
      BY <1>1, <2>1, <2>3
    <3> QED BY <2>1, <3>1 DEF Begins
  <2> QED BY <2>2, <2>3
<1> QED BY <1>2, <1>3

LEMMA Alike ==
  ASSUME NEW a \in Input, NEW b \in Input, Begins(a, b), Len(a) = Len(b)
  PROVE  a = b
BY InputIs, SeqEqual DEF Begins

\* Less is a total order.
LEMMA LessOnward ==
  ASSUME NEW a \in Input, NEW b \in Input, NEW c \in Input, Less(a, b), Less(b, c)
  PROVE  Less(a, c)
<1>1. Len(a) \in Nat /\ Len(b) \in Nat /\ Len(c) \in Nat
  BY InputIs
<1>2. CASE Before(a, b)
  BY <1>2, BeforeOnward DEF Less
<1>3. CASE Begins(a, b) /\ Len(a) < Len(b)
  <2>1. CASE Begins(b, c) /\ Len(b) < Len(c)
    BY <1>1, <1>3, <2>1, BeginsOnward DEF Less
  <2>2. CASE Before(b, c)
    <3>1. CASE Before(a, c)
      BY <3>1 DEF Less
    <3>2. CASE Begins(a, c)
      <4>1. Len(a) # Len(c)
        <5>1. SUFFICES ASSUME Len(a) = Len(c)
                       PROVE  FALSE
          OBVIOUS
        <5>2. a = c
          BY <3>2, <5>1, Alike
        <5> QED BY <1>3, <2>2, <5>2, BeforeExcludes
      <4> QED BY <1>1, <3>2, <4>1 DEF Less, Begins
    <3> QED BY <1>3, <2>2, <3>1, <3>2, BeginsOnward
  <2> QED BY <2>1, <2>2 DEF Less
<1> QED BY <1>2, <1>3 DEF Less

LEMMA LessExcludes ==
  ASSUME NEW a \in Input, NEW b \in Input, Less(a, b)
  PROVE  ~Less(b, a) /\ a # b /\ ~Before(b, a) /\ ~Begins(b, a)
<1>1. Len(a) \in Nat /\ Len(b) \in Nat
  BY InputIs
<1>2. CASE Before(a, b)
  BY <1>2, BeforeExcludes DEF Less
<1>3. CASE Begins(a, b) /\ Len(a) < Len(b)
  <2>1. ~Before(b, a)
    BY <1>3, BeforeExcludes
  <2>2. ~Begins(b, a) /\ a # b
    BY <1>1, <1>3 DEF Begins
  <2> QED BY <2>1, <2>2 DEF Less
<1> QED BY <1>2, <1>3 DEF Less

LEMMA LessTotal ==
  ASSUME NEW a \in Input, NEW b \in Input
  PROVE  Less(a, b) \/ Less(b, a) \/ a = b
<1>1. Len(a) \in Nat /\ Len(b) \in Nat
  BY InputIs
<1>2. CASE Begins(a, b)
  BY <1>1, <1>2, Alike DEF Less, Begins
<1>3. CASE Begins(b, a)
  BY <1>1, <1>3, Alike DEF Less, Begins
<1>4. CASE Before(a, b) \/ Before(b, a)
  BY <1>4 DEF Less
<1> QED BY <1>2, <1>3, <1>4, FirstDifference

\* A smaller first key comes before; the same beginning has the same first key.
LEMMA FirstKeys ==
  ASSUME NEW a \in Input, NEW b \in Input
  PROVE  /\ a[1] \in Nat /\ b[1] \in Nat
         /\ a[1] < b[1] => Before(a, b)
         /\ Less(a, b) => a[1] <= b[1]
         /\ Begins(a, b) => a[1] = b[1]
<1>1. 1 \in 1..Len(a) /\ 1 \in 1..Len(b) /\ a[1] \in Nat /\ b[1] \in Nat
  BY InputIs
<1>2. a[1] < b[1] => Before(a, b)
  BY <1>1, BeforeIs
<1>3. Begins(a, b) => a[1] = b[1]
  BY <1>1 DEF Begins
<1>4. Before(a, b) => a[1] <= b[1]
  <2> SUFFICES ASSUME NEW i \in 1..Len(a), a[i] < b[i], \A j \in 1..i - 1 : a[j] = b[j]
               PROVE  a[1] <= b[1]
    BY BeforeIs
  <2>1. CASE i = 1
    BY <1>1, <2>1
  <2>2. CASE i # 1
    <3>1. 1 \in 1..i - 1
      BY <2>2
    <3> QED BY <1>1, <3>1
  <2> QED BY <2>1, <2>2
<1>5. Less(a, b) => a[1] <= b[1]
  BY <1>1, <1>3, <1>4 DEF Less
<1> QED BY <1>1, <1>2, <1>3, <1>5

-----------------------------------------------------------------------------
(* The search                                                              *)

LEMMA EntryIs ==
  ASSUME NEW e \in SEQ
  PROVE  e.input \in Input /\ e.output \in Input /\ e.stype \in {"command", "input", "abbrev"}
BY DEF SEQ, Input

LEMMA VerdictIs ==
  ASSUME NEW e \in SEQ, NEW s \in Input, NEW stype, NEW terminal \in BOOLEAN
  PROVE  LET v == Verdict(e, s, stype, terminal)
         IN  /\ v \in {"next", "stop", "match", "partial"}
             /\ v = "next" => \/ e.input[1] < s[1]
                              \/ e.input[1] = s[1] /\ e.stype # stype
                              \/ Before(e.input, s)
                              \/ ~terminal /\ Less(e.input, s)
             /\ v = "stop" => \/ s[1] < e.input[1]
                              \/ e.stype = stype /\ Before(s, e.input)
                              \/ ~terminal /\ e.stype = stype /\ Less(s, e.input)
             /\ v = "match" => /\ e.stype = stype /\ Begins(e.input, s)
                               /\ ~terminal => e.input = s
             /\ v = "partial" => /\ e.stype = stype /\ Begins(s, e.input)
                                 /\ Len(s) < Len(e.input) /\ terminal
<1> DEFINE a == e.input
           v == Verdict(e, s, stype, terminal)
<1>1. a \in Input
  BY EntryIs
<1>2. Len(a) \in Nat /\ Len(s) \in Nat /\ a[1] \in Nat /\ s[1] \in Nat
  BY <1>1, InputIs
<1>3. v = IF a[1] > s[1] THEN "stop"
          ELSE IF a[1] < s[1] \/ e.stype # stype \/ Before(a, s) THEN "next"
          ELSE IF Before(s, a) THEN "stop"
          ELSE IF Len(a) = Len(s) \/ (terminal /\ Len(a) < Len(s)) THEN "match"
          ELSE IF terminal THEN "partial"
          ELSE IF Len(a) < Len(s) THEN "next" ELSE "stop"
  BY DEF Verdict
<1> HIDE DEF v, a
<1>4. \/ a[1] > s[1] /\ v = "stop"
      \/ ~(a[1] > s[1]) /\ (a[1] < s[1] \/ e.stype # stype) /\ v = "next"
      \/ /\ a[1] = s[1] /\ e.stype = stype
         /\ \/ Before(s, a) /\ v = "stop"
            \/ Before(a, s) /\ v = "next"
            \/ /\ ~Before(s, a) /\ ~Before(a, s)
               /\ \/ (Len(a) = Len(s) \/ (terminal /\ Len(a) < Len(s))) /\ v = "match"
                  \/ ~terminal /\ Len(a) < Len(s) /\ v = "next"
                  \/ Len(a) > Len(s) /\ terminal /\ v = "partial"
                  \/ Len(a) > Len(s) /\ ~terminal /\ v = "stop"
  <2>1. ~(Before(s, a) /\ Before(a, s))
    BY <1>1, BeforeExcludes
  <2> QED BY <1>2, <1>3, <2>1, SMT
<1>5. /\ a[1] = s[1] /\ ~Before(s, a) /\ ~Before(a, s) => Begins(s, a) \/ Begins(a, s)
      /\ Begins(s, a) => Len(s) <= Len(a)
      /\ Begins(a, s) => Len(a) <= Len(s)
      /\ Begins(a, s) /\ Len(a) = Len(s) => a = s /\ Begins(s, a)
      /\ Begins(s, a) /\ Len(a) = Len(s) => a = s /\ Begins(a, s)
  BY <1>1, FirstDifference, Alike DEF Begins
<1>6. v = "next" => \/ a[1] < s[1]
                    \/ a[1] = s[1] /\ e.stype # stype
                    \/ Before(a, s)
                    \/ ~terminal /\ Less(a, s)
  <2>1. Len(a) < Len(s) /\ (Begins(s, a) \/ Begins(a, s)) => Less(a, s)
    BY <1>2, <1>5 DEF Less
  <2> QED BY <1>2, <1>4, <1>5, <2>1
<1>7. v = "stop" => \/ s[1] < a[1]
                    \/ e.stype = stype /\ Before(s, a)
                    \/ ~terminal /\ e.stype = stype /\ Less(s, a)
  <2>1. Len(s) < Len(a) /\ (Begins(s, a) \/ Begins(a, s)) => Less(s, a)
    BY <1>2, <1>5 DEF Less
  <2> QED BY <1>2, <1>4, <1>5, <2>1
<1>8. (v = "match" => e.stype = stype /\ Begins(a, s) /\ (~terminal => a = s))
  BY <1>2, <1>4, <1>5
<1>9. v = "partial" => e.stype = stype /\ Begins(s, a) /\ Len(s) < Len(a) /\ terminal
  BY <1>2, <1>4, <1>5
<1>10. v \in {"next", "stop", "match", "partial"}
  BY <1>4
<1> QED BY <1>6, <1>7, <1>8, <1>9, <1>10 DEF v, a

LEMMA FindIs ==
  ASSUME NEW L \in Seq(SEQ), NEW s, NEW stype, NEW terminal
  PROVE  LET f == seq_find(L, s, stype, terminal)
             V(i) == Verdict(L[i], s, stype, terminal)
         IN  \/ /\ f = Result("stop", Len(L) + 1)
                /\ \A i \in 1..Len(L) : V(i) = "next"
             \/ /\ f.at \in 1..Len(L) /\ f = Result(V(f.at), f.at) /\ V(f.at) # "next"
                /\ \A i \in 1..f.at - 1 : V(i) = "next"
<1> DEFINE V(i) == Verdict(L[i], s, stype, terminal)
           I == {i \in 1..Len(L) : V(i) # "next"}
           k == IF I # {} THEN Min(I) ELSE 0
<1>1. Len(L) \in Nat
  BY SeqIs
<1>2. k = SelectInSeq(L, LAMBDA e : Verdict(e, s, stype, terminal) # "next")
  BY DEF SelectInSeq
<1>3. seq_find(L, s, stype, terminal) = IF k = 0 THEN Result("stop", Len(L) + 1) ELSE Result(V(k), k)
  BY <1>2 DEF seq_find
<1>4. CASE I = {}
  <2>1. k = 0 /\ \A i \in 1..Len(L) : V(i) = "next"
    BY <1>4
  <2> QED BY <1>3, <2>1
<1>5. CASE I # {}
  <2>1. I \subseteq Nat
    BY <1>1
  <2>2. k \in I /\ \A j \in I : k <= j
    BY <1>5, <2>1, MinIs
  <2>3. k \in 1..Len(L) /\ V(k) # "next" /\ k # 0
    BY <1>1, <2>2
  <2>4. \A i \in 1..k - 1 : V(i) = "next"
    <3>1. \A i \in 1..k - 1 : i \in 1..Len(L) /\ ~(k <= i)
      BY <1>1, <2>3
    <3> QED BY <2>2, <3>1
  <2>5. Result(V(k), k).at = k
    BY DEF Result
  <2> HIDE DEF k
  <2> QED BY <1>3, <2>3, <2>4, <2>5
<1> QED BY <1>4, <1>5

\* Every entry is found again by its input.
LEMMA FindsItself ==
  ASSUME NEW L \in Seq(SEQ), Sorted(L), NEW n \in 1..Len(L)
  PROVE  seq_find(L, L[n].input, L[n].stype, FALSE) = Result("match", n)
<1> DEFINE s == L[n].input
           stype == L[n].stype
           f == seq_find(L, s, stype, FALSE)
           V(i) == Verdict(L[i], s, stype, FALSE)
<1>1. Len(L) \in Nat /\ \A i \in 1..Len(L) : L[i] \in SEQ /\ L[i].input \in Input
  BY SeqIs, EntryIs
<1>2. s \in Input
  BY <1>1
<1>21. ASSUME NEW i \in 1..Len(L)
       PROVE  /\ V(i) \in {"next", "stop", "match", "partial"}
              /\ V(i) = "next" => \/ L[i].input[1] < s[1]
                                  \/ L[i].input[1] = s[1] /\ L[i].stype # stype
                                  \/ Before(L[i].input, s)
                                  \/ Less(L[i].input, s)
              /\ V(i) = "stop" => \/ s[1] < L[i].input[1]
                                  \/ L[i].stype = stype /\ Less(s, L[i].input)
              /\ V(i) = "match" => L[i].stype = stype /\ L[i].input = s
              /\ V(i) = "partial" => L[i].stype = stype /\ Less(s, L[i].input)
  <2> DEFINE e == L[i]
  <2>1. e \in SEQ /\ V(i) = Verdict(e, s, stype, FALSE)
    BY <1>1
  <2> HIDE DEF e, V, s, stype
  <2>2. LET v == Verdict(e, s, stype, FALSE)
        IN  /\ v \in {"next", "stop", "match", "partial"}
            /\ v = "next" => \/ e.input[1] < s[1]
                             \/ e.input[1] = s[1] /\ e.stype # stype
                             \/ Before(e.input, s)
                             \/ Less(e.input, s)
            /\ v = "stop" => \/ s[1] < e.input[1]
                             \/ e.stype = stype /\ Before(s, e.input)
                             \/ e.stype = stype /\ Less(s, e.input)
            /\ v = "match" => e.stype = stype /\ e.input = s
            /\ v = "partial" => /\ e.stype = stype /\ Begins(s, e.input)
                                /\ Len(s) < Len(e.input)
    BY <1>2, <2>1, VerdictIs
  <2>3. (Before(s, e.input) => Less(s, e.input))
        /\ (Begins(s, e.input) /\ Len(s) < Len(e.input) => Less(s, e.input))
    BY DEF Less
  <2> QED BY <2>1, <2>2, <2>3 DEF e
<1>3. V(n) = "match"
  <2>1. s[1] \in Nat /\ ~Before(s, s) /\ ~Less(s, s)
    BY <1>2, LessExcludes, BeforeExcludes, FirstKeys
  <2>2. ~(s[1] < s[1])
    BY <2>1
  <2> QED BY <1>21, <2>1, <2>2
<1>4. ASSUME NEW i \in 1..Len(L), i < n
      PROVE  V(i) = "next"
  <2>1. L[i].input[1] <= s[1] /\ (L[i].stype = stype => Less(L[i].input, s))
    BY <1>4 DEF Sorted
  <2>2. L[i].input[1] \in Nat /\ s[1] \in Nat
    BY <1>1, FirstKeys
  <2>3. V(i) # "stop" /\ V(i) # "match" /\ V(i) # "partial"
    <3>1. L[i].input \in Input /\ ~(s[1] < L[i].input[1])
      BY <1>1, <2>1, <2>2
    <3>2. Less(L[i].input, s) => ~Less(s, L[i].input) /\ L[i].input # s
      BY <1>2, <3>1, LessExcludes
    <3> QED BY <1>21, <2>1, <3>1, <3>2
  <2> QED BY <1>21, <2>3
<1>5. \/ f = Result("stop", Len(L) + 1) /\ \A i \in 1..Len(L) : V(i) = "next"
      \/ /\ f.at \in 1..Len(L) /\ f = Result(V(f.at), f.at) /\ V(f.at) # "next"
         /\ \A i \in 1..f.at - 1 : V(i) = "next"
  BY FindIs
<1> HIDE DEF f, V
<1>6. /\ f.at \in 1..Len(L) /\ f = Result(V(f.at), f.at) /\ V(f.at) # "next"
      /\ \A i \in 1..f.at - 1 : V(i) = "next"
  BY <1>3, <1>5
<1>7. f.at = n
  <2>1. ~(f.at < n)
    BY <1>4, <1>6
  <2>2. ~(n < f.at)
    <3>1. n < f.at => n \in 1..f.at - 1
      BY <1>1, <1>6
    <3> QED BY <1>3, <1>6, <3>1
  <2> QED BY <1>1, <1>6, <2>1, <2>2
<1> QED BY <1>3, <1>6, <1>7 DEF f, s, stype

\* What a search without a terminal finds, in the order of the list.
LEMMA FindsPlace ==
  ASSUME NEW L \in Seq(SEQ), Sorted(L), NEW s \in Input, NEW stype
  PROVE  LET f == seq_find(L, s, stype, FALSE)
         IN  \/ /\ f.what = "match" /\ f.at \in 1..Len(L)
                /\ L[f.at].stype = stype /\ L[f.at].input = s
             \/ /\ f.what = "stop" /\ f.at \in 1..(Len(L) + 1)
                /\ \A i \in 1..Len(L) :
                     /\ i < f.at => /\ L[i].input[1] <= s[1]
                                    /\ L[i].stype = stype => Less(L[i].input, s)
                     /\ i >= f.at => /\ s[1] <= L[i].input[1]
                                     /\ L[i].stype = stype => Less(s, L[i].input)
<1> DEFINE f == seq_find(L, s, stype, FALSE)
           V(i) == Verdict(L[i], s, stype, FALSE)
<1>1. /\ Len(L) \in Nat /\ s[1] \in Nat
      /\ \A i \in 1..Len(L) : /\ L[i] \in SEQ /\ L[i].input \in Input /\ L[i].input[1] \in Nat
  BY SeqIs, EntryIs, FirstKeys
<1>2. ASSUME NEW i \in 1..Len(L)
      PROVE  /\ V(i) \in {"next", "stop", "match"}
             /\ V(i) = "next" => /\ L[i].input[1] <= s[1]
                                 /\ L[i].stype = stype => Less(L[i].input, s)
             /\ V(i) = "stop" => /\ s[1] <= L[i].input[1]
                                 /\ \/ s[1] < L[i].input[1]
                                    \/ L[i].stype = stype /\ Less(s, L[i].input)
             /\ V(i) = "match" => L[i].stype = stype /\ L[i].input = s
  <2> DEFINE e == L[i]
  <2>1. e \in SEQ /\ e.input \in Input /\ e.input[1] \in Nat /\ V(i) = Verdict(e, s, stype, FALSE)
    BY <1>1
  <2> HIDE DEF e, V
  <2>2. LET v == Verdict(e, s, stype, FALSE)
        IN  /\ v \in {"next", "stop", "match", "partial"}
            /\ v = "next" => \/ e.input[1] < s[1]
                             \/ e.input[1] = s[1] /\ e.stype # stype
                             \/ Before(e.input, s)
                             \/ Less(e.input, s)
            /\ v = "stop" => \/ s[1] < e.input[1]
                             \/ e.stype = stype /\ Before(s, e.input)
                             \/ e.stype = stype /\ Less(s, e.input)
            /\ v = "match" => e.stype = stype /\ e.input = s
            /\ v # "partial"
    BY <2>1, VerdictIs
  <2>3. /\ Before(e.input, s) => Less(e.input, s)
        /\ Before(s, e.input) => Less(s, e.input)
    BY DEF Less
  <2>4. /\ Less(e.input, s) => e.input[1] <= s[1]
        /\ Less(s, e.input) => s[1] <= e.input[1]
        /\ e.input[1] < s[1] => Less(e.input, s)
    BY <2>1, <2>3, FirstKeys
  <2>5. LET v == Verdict(e, s, stype, FALSE)
        IN  /\ v \in {"next", "stop", "match"}
            /\ v = "next" => e.input[1] <= s[1] /\ (e.stype = stype => Less(e.input, s))
            /\ v = "stop" => /\ s[1] <= e.input[1]
                             /\ s[1] < e.input[1] \/ (e.stype = stype /\ Less(s, e.input))
            /\ v = "match" => e.stype = stype /\ e.input = s
    <3>1. /\ e.input[1] < s[1] => e.input[1] <= s[1]
          /\ e.input[1] = s[1] => e.input[1] <= s[1]
          /\ s[1] < e.input[1] => s[1] <= e.input[1]
      BY <1>1, <2>1
    <3> DEFINE v == Verdict(e, s, stype, FALSE)
    <3>2. v = "next" => e.input[1] <= s[1] /\ (e.stype = stype => Less(e.input, s))
      BY <2>2, <2>3, <2>4, <3>1, Zenon
    <3>3. v = "stop" => /\ s[1] <= e.input[1]
                        /\ s[1] < e.input[1] \/ (e.stype = stype /\ Less(s, e.input))
      BY <2>2, <2>3, <2>4, <3>1, Zenon
    <3> QED BY <2>2, <3>2, <3>3
  <2>6. L[i] = e
    BY DEF e
  <2> QED BY <2>1, <2>5, <2>6
<1>3. \/ f = Result("stop", Len(L) + 1) /\ \A i \in 1..Len(L) : V(i) = "next"
      \/ /\ f.at \in 1..Len(L) /\ f = Result(V(f.at), f.at) /\ V(f.at) # "next"
         /\ \A i \in 1..f.at - 1 : V(i) = "next"
  BY FindIs
<1> SUFFICES \/ /\ f.what = "match" /\ f.at \in 1..Len(L)
                /\ L[f.at].stype = stype /\ L[f.at].input = s
             \/ /\ f.what = "stop" /\ f.at \in 1..(Len(L) + 1)
                /\ \A i \in 1..Len(L) :
                     /\ i < f.at => /\ L[i].input[1] <= s[1]
                                    /\ L[i].stype = stype => Less(L[i].input, s)
                     /\ i >= f.at => /\ s[1] <= L[i].input[1]
                                     /\ L[i].stype = stype => Less(s, L[i].input)
  BY Zenon
<1> HIDE DEF f, V
<1>4. CASE f = Result("stop", Len(L) + 1) /\ \A i \in 1..Len(L) : V(i) = "next"
  <2>1. f.what = "stop" /\ f.at = Len(L) + 1
    BY <1>4 DEF Result
  <2>2. f.at \in 1..(Len(L) + 1) /\ \A i \in 1..Len(L) : ~(i >= f.at)
    BY <1>1, <2>1
  <2> QED BY <1>2, <1>4, <2>1, <2>2
<1>5. CASE /\ f.at \in 1..Len(L) /\ f = Result(V(f.at), f.at) /\ V(f.at) # "next"
           /\ \A i \in 1..f.at - 1 : V(i) = "next"
  <2>1. f.what = V(f.at)
    BY <1>5 DEF Result
  <2>2. CASE V(f.at) = "match"
    BY <1>2, <1>5, <2>1, <2>2
  <2>3. CASE V(f.at) = "stop"
    <3>1. ASSUME NEW i \in 1..Len(L), i < f.at
          PROVE  L[i].input[1] <= s[1] /\ (L[i].stype = stype => Less(L[i].input, s))
      <4>1. i \in 1..f.at - 1
        BY <1>1, <1>5, <3>1
      <4> QED BY <1>2, <1>5, <4>1
    <3>2. ASSUME NEW i \in 1..Len(L), i >= f.at
          PROVE  s[1] <= L[i].input[1] /\ (L[i].stype = stype => Less(s, L[i].input))
      <4> DEFINE e == L[f.at]
      <4>1. /\ s[1] <= e.input[1] /\ e.input \in Input /\ e.input[1] \in Nat
            /\ (s[1] < e.input[1] \/ (e.stype = stype /\ Less(s, e.input)))
        BY <1>1, <1>2, <1>5, <2>3
      <4>2. i = f.at \/ /\ e.input[1] <= L[i].input[1]
                        /\ e.stype = L[i].stype => Less(e.input, L[i].input)
        <5>1. i = f.at \/ f.at < i
          BY <1>1, <1>5, <3>2
        <5>2. f.at < i => /\ e.input[1] <= L[i].input[1]
                          /\ e.stype = L[i].stype => Less(e.input, L[i].input)
          BY <1>5 DEF Sorted
        <5> QED BY <5>1, <5>2
      <4> HIDE DEF e
      <4>3. L[i].input \in Input /\ L[i].input[1] \in Nat
        BY <1>1
      <4>4. s[1] < L[i].input[1] => Less(s, L[i].input)
        BY <4>3, FirstKeys DEF Less
      <4>5. CASE i = f.at
        BY <1>1, <4>1, <4>4, <4>5 DEF e
      <4>6. CASE /\ e.input[1] <= L[i].input[1]
                 /\ e.stype = L[i].stype => Less(e.input, L[i].input)
        <5>1. s[1] <= L[i].input[1]
          BY <1>1, <4>1, <4>3, <4>6
        <5>2. CASE s[1] < e.input[1]
          BY <1>1, <4>1, <4>3, <4>4, <4>6, <5>1, <5>2
        <5>3. CASE e.stype = stype /\ Less(s, e.input)
          BY <4>1, <4>3, <4>6, <5>1, <5>3, LessOnward
        <5> QED BY <4>1, <5>2, <5>3
      <4> QED BY <4>2, <4>5, <4>6
    <3>3. f.at \in 1..(Len(L) + 1)
      BY <1>1, <1>5
    <3> QED BY <2>1, <2>3, <3>1, <3>2, <3>3
  <2> QED BY <1>2, <1>5, <2>2, <2>3
<1> QED BY <1>3, <1>4, <1>5

\* The list stays in order, whatever is mapped and unmapped.
LEMMA SetKeeps ==
  ASSUME NEW L \in Seq(SEQ), Sorted(L), NEW e \in SEQ
  PROVE  seq_set(L, e) \in Seq(SEQ) /\ Sorted(seq_set(L, e))
<1> DEFINE f == seq_find(L, e.input, e.stype, FALSE)
           n == f.at
           s == e.input
<1>1. e.input \in Input /\ e.output \in Input
  BY EntryIs
<1>2. Len(L) \in Nat /\ DOMAIN L = 1..Len(L) /\ \A i \in 1..Len(L) : L[i] \in SEQ
  BY SeqIs
<1>3. \/ /\ f.what = "match" /\ n \in 1..Len(L) /\ L[n].stype = e.stype /\ L[n].input = s
      \/ /\ f.what = "stop" /\ n \in 1..(Len(L) + 1)
         /\ \A i \in 1..Len(L) :
              /\ i < n => L[i].input[1] <= s[1] /\ (L[i].stype = e.stype => Less(L[i].input, s))
              /\ i >= n => s[1] <= L[i].input[1] /\ (L[i].stype = e.stype => Less(s, L[i].input))
  BY <1>1, FindsPlace
<1>4. seq_set(L, e) = IF f.what = "match" THEN [L EXCEPT ![n].output = e.output] ELSE InsertAt(L, n, e)
  BY DEF seq_set
<1> HIDE DEF f, n, s
<1>5. CASE /\ f.what = "match" /\ n \in 1..Len(L) /\ L[n].stype = e.stype /\ L[n].input = s
  <2> DEFINE M == [L EXCEPT ![n] = [@ EXCEPT !.output = e.output]]
  <2>1. seq_set(L, e) = M
    BY <1>4, <1>5
  <2>2. [L[n] EXCEPT !.output = e.output] \in SEQ
    BY <1>1, <1>2, <1>5 DEF SEQ, Input
  <2>3. M \in Seq(SEQ) /\ Len(M) = Len(L)
    BY <1>2, <1>5, <2>2, ExceptSeq
  <2>4. \A i \in 1..Len(L) : M[i].input = L[i].input /\ M[i].stype = L[i].stype
    BY <1>2, <1>5 DEF SEQ
  <2> HIDE DEF M
  <2>5. Sorted(M)
    BY <2>3, <2>4 DEF Sorted
  <2> QED BY <2>1, <2>3, <2>5
<1>6. CASE /\ f.what = "stop" /\ n \in 1..(Len(L) + 1)
           /\ \A i \in 1..Len(L) :
                /\ i < n => L[i].input[1] <= s[1] /\ (L[i].stype = e.stype => Less(L[i].input, s))
                /\ i >= n => s[1] <= L[i].input[1] /\ (L[i].stype = e.stype => Less(s, L[i].input))
  <2> DEFINE M == InsertAt(L, n, e)
  <2>1. seq_set(L, e) = M
    BY <1>4, <1>6
  <2>2. /\ M \in Seq(SEQ) /\ Len(M) = Len(L) + 1
        /\ \A i \in 1..(Len(L) + 1) : M[i] = IF i < n THEN L[i] ELSE IF i = n THEN e ELSE L[i - 1]
    BY <1>6, InsertIs
  <2> HIDE DEF M
  <2>3. ASSUME NEW i \in 1..Len(M), NEW j \in 1..Len(M), i < j
        PROVE  /\ M[i].input[1] <= M[j].input[1]
               /\ M[i].stype = M[j].stype => Less(M[i].input, M[j].input)
    <3>0. i \in 1..(Len(L) + 1) /\ j \in 1..(Len(L) + 1)
      BY <2>2
    <3>1. CASE j < n
      <4>1. i \in 1..Len(L) /\ j \in 1..Len(L) /\ M[i] = L[i] /\ M[j] = L[j]
        BY <1>2, <1>6, <2>2, <2>3, <3>0, <3>1
      <4> QED BY <2>3, <4>1 DEF Sorted
    <3>2. CASE j = n
      <4>1. i \in 1..Len(L) /\ i < n /\ M[i] = L[i] /\ M[j] = e
        BY <1>2, <1>6, <2>2, <2>3, <3>0, <3>2
      <4> QED BY <1>6, <4>1 DEF s
    <3>3. CASE i = n
      <4>1. j - 1 \in 1..Len(L) /\ j - 1 >= n /\ M[i] = e /\ M[j] = L[j - 1]
        BY <1>2, <1>6, <2>2, <2>3, <3>0, <3>3
      <4> QED BY <1>6, <4>1 DEF s
    <3>4. CASE i < n /\ n < j
      <4>1. M[i] = L[i] /\ M[j] = L[j - 1]
        BY <1>2, <1>6, <2>2, <2>3, <3>0, <3>4
      <4>2. i < j - 1
        BY <1>6, <3>0, <3>4
      <4>3. i \in 1..Len(L) /\ j - 1 \in 1..Len(L)
        BY <1>2, <1>6, <3>0, <3>4
      <4> QED BY <4>1, <4>2, <4>3 DEF Sorted
    <3>5. CASE n < i
      <4>1. i - 1 \in 1..Len(L) /\ j - 1 \in 1..Len(L) /\ i - 1 < j - 1
        BY <1>2, <1>6, <2>3, <3>0, <3>5
      <4>2. M[i] = L[i - 1] /\ M[j] = L[j - 1]
        BY <1>6, <2>2, <2>3, <3>0, <3>5
      <4> QED BY <4>1, <4>2 DEF Sorted
    <3> QED BY <1>2, <1>6, <2>3, <3>0, <3>1, <3>2, <3>3, <3>4, <3>5
  <2>4. Sorted(M)
    BY <2>3 DEF Sorted
  <2> QED BY <2>1, <2>2, <2>4
<1> QED BY <1>3, <1>5, <1>6

LEMMA DeleteKeeps ==
  ASSUME NEW L \in Seq(SEQ), Sorted(L), NEW e \in SEQ
  PROVE  seq_delete(L, e) \in Seq(SEQ) /\ Sorted(seq_delete(L, e))
<1> DEFINE f == seq_find(L, e.input, e.stype, FALSE)
           n == f.at
           M == RemoveAt(L, n)
<1>1. e.input \in Input
  BY EntryIs
<1>2. Len(L) \in Nat
  BY SeqIs
<1>3. f.what = "match" => n \in 1..Len(L)
  <2>1. \/ f.what = "match" /\ n \in 1..Len(L)
        \/ f.what = "stop"
    BY <1>1, FindsPlace
  <2> QED BY <2>1
<1>4. seq_delete(L, e) = IF f.what = "match" THEN M ELSE L
  BY DEF seq_delete
<1> HIDE DEF f, n, M
<1>5. CASE f.what = "match"
  <2>1. /\ M \in Seq(SEQ) /\ Len(M) = Len(L) - 1
        /\ \A i \in 1..(Len(L) - 1) : M[i] = IF i < n THEN L[i] ELSE L[i + 1]
    BY <1>3, <1>5, RemoveIs DEF M
  <2>2. ASSUME NEW i \in 1..Len(M), NEW j \in 1..Len(M), i < j
        PROVE  /\ M[i].input[1] <= M[j].input[1]
               /\ M[i].stype = M[j].stype => Less(M[i].input, M[j].input)
    <3> DEFINE k == IF i < n THEN i ELSE i + 1
               l == IF j < n THEN j ELSE j + 1
    <3>1. k \in 1..Len(L) /\ l \in 1..Len(L) /\ k < l
      BY <1>2, <1>3, <1>5, <2>1, <2>2
    <3>2. M[i] = L[k] /\ M[j] = L[l]
      BY <2>1
    <3> HIDE DEF k, l
    <3> QED BY <3>1, <3>2 DEF Sorted
  <2> QED BY <1>4, <1>5, <2>1, <2>2 DEF Sorted
<1> QED BY <1>4, <1>5

-----------------------------------------------------------------------------
(* The search of the keys that wait                                        *)

LEMMA CharsAre ==
  ASSUME NEW q \in Seq(Event), q # <<>>
  PROVE  /\ Chars(q) \in Input /\ Len(Chars(q)) = Len(q)
         /\ \A i \in 1..Len(q) : Chars(q)[i] = q[i].c
<1>1. Len(q) \in Nat /\ Len(q) > 0 /\ \A i \in 1..Len(q) : q[i].c \in Keys
  <2>1. Len(q) \in Nat /\ Len(q) > 0 /\ \A i \in 1..Len(q) : q[i] \in Event
    BY SeqIs
  <2> QED BY <2>1 DEF Event
<1>2. /\ Chars(q) \in Seq(Keys) /\ Len(Chars(q)) = Len(q)
      /\ \A i \in 1..Len(q) : Chars(q)[i] = q[i].c
  BY <1>1 DEF Chars
<1> QED BY <1>1, <1>2, EmptySeq DEF Input

\* Of two inputs that keys begin with, the earlier in the list is the shorter.
LEMMA BothBegin ==
  ASSUME NEW a \in Input, NEW b \in Input, NEW s \in Input, Begins(a, s), Begins(b, s)
  PROVE  Len(a) <= Len(b) => Begins(a, b)
BY InputIs DEF Begins

LEMMA FindsKeys ==
  ASSUME NEW L \in Seq(SEQ), Sorted(L), NEW s \in Input, NEW mode
  PROVE  LET f == seq_find(L, s, mode, TRUE)
             full(i) == L[i].stype = mode /\ Begins(L[i].input, s)
             part(i) == L[i].stype = mode /\ Begins(s, L[i].input)
         IN  \/ /\ f.what = "match" /\ f.at \in 1..Len(L) /\ full(f.at)
                /\ \A i \in 1..Len(L) : full(i) => Len(L[f.at].input) <= Len(L[i].input)
             \/ /\ f.what = "partial" /\ f.at \in 1..Len(L) /\ part(f.at)
                /\ \A i \in 1..Len(L) : ~full(i)
             \/ /\ f.what = "stop"
                /\ \A i \in 1..Len(L) : ~full(i) /\ ~part(i)
<1> DEFINE f == seq_find(L, s, mode, TRUE)
           V(i) == Verdict(L[i], s, mode, TRUE)
           full(i) == L[i].stype = mode /\ Begins(L[i].input, s)
           part(i) == L[i].stype = mode /\ Begins(s, L[i].input)
<1>1. /\ Len(L) \in Nat /\ s[1] \in Nat /\ Len(s) \in Nat
      /\ \A i \in 1..Len(L) : /\ L[i] \in SEQ /\ L[i].input \in Input /\ L[i].input[1] \in Nat
                              /\ Len(L[i].input) \in Nat
  BY SeqIs, EntryIs, FirstKeys, InputIs
<1>2. ASSUME NEW i \in 1..Len(L)
      PROVE  /\ V(i) \in {"next", "stop", "match", "partial"}
             /\ V(i) = "next" => ~full(i) /\ ~part(i)
             /\ V(i) = "stop" => s[1] < L[i].input[1] \/ (L[i].stype = mode /\ Before(s, L[i].input))
             /\ V(i) = "match" => full(i)
             /\ V(i) = "partial" => part(i) /\ Len(s) < Len(L[i].input)
  <2> DEFINE e == L[i]
  <2>1. e \in SEQ /\ e.input \in Input /\ e.input[1] \in Nat
    BY <1>1
  <2>2. V(i) = Verdict(e, s, mode, TRUE) /\ L[i] = e
    OBVIOUS
  <2> HIDE DEF e, V
  <2>3. LET v == Verdict(e, s, mode, TRUE)
        IN  /\ v \in {"next", "stop", "match", "partial"}
            /\ v = "next" => \/ e.input[1] < s[1]
                             \/ e.input[1] = s[1] /\ e.stype # mode
                             \/ Before(e.input, s)
            /\ v = "stop" => s[1] < e.input[1] \/ (e.stype = mode /\ Before(s, e.input))
            /\ v = "match" => e.stype = mode /\ Begins(e.input, s)
            /\ v = "partial" => /\ e.stype = mode /\ Begins(s, e.input)
                                /\ Len(s) < Len(e.input)
    BY <2>1, VerdictIs
  <2>4. /\ e.input[1] < s[1] => Before(e.input, s)
        /\ Before(e.input, s) => ~Begins(e.input, s) /\ ~Begins(s, e.input)
    BY <2>1, FirstKeys, BeforeExcludes
  <2>5. LET v == Verdict(e, s, mode, TRUE)
        IN  /\ v \in {"next", "stop", "match", "partial"}
            /\ v = "next" => /\ ~(e.stype = mode /\ Begins(e.input, s))
                             /\ ~(e.stype = mode /\ Begins(s, e.input))
            /\ v = "stop" => s[1] < e.input[1] \/ (e.stype = mode /\ Before(s, e.input))
            /\ v = "match" => e.stype = mode /\ Begins(e.input, s)
            /\ v = "partial" => e.stype = mode /\ Begins(s, e.input) /\ Len(s) < Len(e.input)
    BY <2>3, <2>4
  <2> QED BY <2>2, <2>5
<1>3. \/ f = Result("stop", Len(L) + 1) /\ \A i \in 1..Len(L) : V(i) = "next"
      \/ /\ f.at \in 1..Len(L) /\ f = Result(V(f.at), f.at) /\ V(f.at) # "next"
         /\ \A i \in 1..f.at - 1 : V(i) = "next"
  BY FindIs
<1> SUFFICES \/ /\ f.what = "match" /\ f.at \in 1..Len(L) /\ full(f.at)
                /\ \A i \in 1..Len(L) : full(i) => Len(L[f.at].input) <= Len(L[i].input)
             \/ /\ f.what = "partial" /\ f.at \in 1..Len(L) /\ part(f.at)
                /\ \A i \in 1..Len(L) : ~full(i)
             \/ /\ f.what = "stop"
                /\ \A i \in 1..Len(L) : ~full(i) /\ ~part(i)
  BY Zenon
<1> HIDE DEF f, V
<1>4. CASE f = Result("stop", Len(L) + 1) /\ \A i \in 1..Len(L) : V(i) = "next"
  <2>1. f.what = "stop"
    BY <1>4 DEF Result
  <2> QED BY <1>2, <1>4, <2>1
<1>5. CASE /\ f.at \in 1..Len(L) /\ f = Result(V(f.at), f.at) /\ V(f.at) # "next"
           /\ \A i \in 1..f.at - 1 : V(i) = "next"
  <2> DEFINE e == L[f.at]
  <2>1. f.what = V(f.at)
    BY <1>5 DEF Result
  <2>2. ASSUME NEW i \in 1..Len(L), full(i) \/ part(i)
        PROVE  \/ i = f.at
               \/ /\ f.at < i /\ e.input[1] <= L[i].input[1]
                  /\ e.stype = L[i].stype => Less(e.input, L[i].input)
    <3>1. ~(i < f.at)
      <4>1. i < f.at => i \in 1..f.at - 1
        BY <1>1, <1>5
      <4> QED BY <1>2, <1>5, <2>2, <4>1
    <3>2. i = f.at \/ f.at < i
      BY <1>1, <1>5, <3>1
    <3>3. f.at < i => /\ e.input[1] <= L[i].input[1]
                      /\ e.stype = L[i].stype => Less(e.input, L[i].input)
      BY <1>5 DEF Sorted
    <3> QED BY <3>2, <3>3
  <2>3. /\ e.input \in Input /\ e.input[1] \in Nat /\ Len(e.input) \in Nat
        /\ full(f.at) <=> e.stype = mode /\ Begins(e.input, s)
        /\ part(f.at) <=> e.stype = mode /\ Begins(s, e.input)
    BY <1>1, <1>5
  <2>4. CASE V(f.at) = "match"
    <3>1. e.stype = mode /\ Begins(e.input, s)
      BY <1>2, <1>5, <2>3, <2>4
    <3>2. ASSUME NEW i \in 1..Len(L), full(i)
          PROVE  Len(e.input) <= Len(L[i].input)
      <4>1. L[i].input \in Input /\ Len(L[i].input) \in Nat /\ L[i].stype = mode /\ Begins(L[i].input, s)
        BY <1>1, <3>2
      <4>2. i = f.at \/ Less(e.input, L[i].input)
        BY <2>2, <3>1, <3>2, <4>1
      <4>3. Less(e.input, L[i].input) => ~Begins(L[i].input, e.input)
        BY <2>3, <4>1, LessExcludes
      <4>4. Len(L[i].input) <= Len(e.input) => Begins(L[i].input, e.input)
        BY <2>3, <3>1, <4>1, BothBegin
      <4>5. i = f.at => Len(e.input) <= Len(L[i].input)
        BY <2>3
      <4> HIDE DEF e
      <4> QED BY <2>3, <4>1, <4>2, <4>3, <4>4, <4>5
    <3> QED BY <1>2, <1>5, <2>1, <2>4, <3>2
  <2>5. CASE V(f.at) = "partial"
    <3>1. e.stype = mode /\ Begins(s, e.input) /\ Len(s) < Len(e.input)
      BY <1>2, <1>5, <2>3, <2>5
    <3>2. ASSUME NEW i \in 1..Len(L), full(i)
          PROVE  FALSE
      <4>1. L[i].input \in Input /\ L[i].stype = mode /\ Begins(L[i].input, s)
        BY <1>1, <3>2
      <4>2. i = f.at \/ Less(e.input, L[i].input)
        BY <2>2, <3>1, <3>2, <4>1
      <4>3. Begins(L[i].input, e.input)
        BY <2>3, <3>1, <4>1, BeginsOnward
      <4>4. ~Less(e.input, L[i].input)
        BY <2>3, <4>1, <4>3, LessExcludes
      <4>5. i # f.at
        BY <1>1, <2>3, <3>1, <4>1 DEF Begins
      <4> QED BY <4>2, <4>4, <4>5
    <3> QED BY <1>2, <1>5, <2>1, <2>5, <3>2
  <2>6. CASE V(f.at) = "stop"
    <3>1. s[1] < e.input[1] \/ (e.stype = mode /\ Before(s, e.input))
      BY <1>2, <1>5, <2>6
    <3>2. ASSUME NEW i \in 1..Len(L), full(i) \/ part(i)
          PROVE  FALSE
      <4>1. /\ L[i].input \in Input /\ L[i].input[1] \in Nat /\ L[i].stype = mode
            /\ (Begins(L[i].input, s) \/ Begins(s, L[i].input))
        BY <1>1, <3>2
      <4>2. ~Before(s, L[i].input)
        BY <4>1, BeforeExcludes
      <4>3. L[i].input[1] = s[1]
        BY <4>1, FirstKeys
      <4>4. i = f.at \/ (e.input[1] <= L[i].input[1] /\ (e.stype = mode => Less(e.input, L[i].input)))
        BY <2>2, <3>2, <4>1
      <4>5. ~(s[1] < e.input[1])
        <5>1. i = f.at => e.input[1] = s[1]
          BY <4>3
        <5> HIDE DEF e
        <5> QED BY <1>1, <2>3, <4>3, <4>4, <5>1
      <4>6. ~(e.stype = mode /\ Before(s, e.input))
        <5>1. i = f.at => ~Before(s, e.input)
          BY <4>2
        <5>2. Before(s, e.input) /\ Less(e.input, L[i].input) => Before(s, L[i].input)
          BY <2>3, <4>1, BeforeOnward DEF Less
        <5> HIDE DEF e
        <5> QED BY <4>2, <4>4, <5>1, <5>2
      <4> QED BY <3>1, <4>5, <4>6
    <3> QED BY <2>1, <2>6, <3>2
  <2> QED BY <1>2, <1>5, <2>4, <2>5, <2>6
<1> QED BY <1>3, <1>4, <1>5

(* The first conjunct of MapsAreFound, and the second for any list in      *)
(* order and any keys that wait.                                           *)
LEMMA FoundIs ==
  ASSUME IInv, buf.q # <<>>
  PROVE  LET mode == MapOf(ctx, quote)
             full == {i \in DOMAIN seqq : SpelledBy(seqq[i], buf.q, mode)}
             part == {i \in DOMAIN seqq : seqq[i].stype = mode /\ Begins(Chars(buf.q), seqq[i].input)}
         IN  \/ /\ Found.what = "match" /\ Found.at \in full
                /\ \A i \in full : Len(seqq[Found.at].input) <= Len(seqq[i].input)
             \/ Found.what = "partial" /\ full = {} /\ part # {}
             \/ Found.what = "stop" /\ full = {} /\ part = {}
<1> DEFINE mode == MapOf(ctx, quote)
           s == Chars(buf.q)
           full(i) == seqq[i].stype = mode /\ Begins(seqq[i].input, s)
           part(i) == seqq[i].stype = mode /\ Begins(s, seqq[i].input)
<1>1. /\ seqq \in Seq(SEQ) /\ Sorted(seqq) /\ DOMAIN seqq = 1..Len(seqq)
      /\ buf.q \in Seq(Event)
  BY SeqIs DEF IInv, TypeOK, Buffer
<1>2. s \in Input /\ Len(s) = Len(buf.q) /\ \A i \in 1..Len(buf.q) : s[i] = buf.q[i].c
  BY <1>1, CharsAre
<1>3. ASSUME NEW i \in 1..Len(seqq)
      PROVE  full(i) <=> SpelledBy(seqq[i], buf.q, mode)
  <2> DEFINE e == seqq[i]
  <2>1. Len(e.input) \in Nat /\ Len(buf.q) \in Nat
    BY <1>1, SeqIs, EntryIs, InputIs
  <2>2. Len(e.input) <= Len(buf.q) => \A j \in 1..Len(e.input) : j \in 1..Len(buf.q)
    BY <2>1
  <2> HIDE DEF s
  <2> QED BY <1>2, <2>2 DEF Begins, SpelledBy
<1>4. \/ /\ Found.what = "match" /\ Found.at \in 1..Len(seqq) /\ full(Found.at)
         /\ \A i \in 1..Len(seqq) : full(i) => Len(seqq[Found.at].input) <= Len(seqq[i].input)
      \/ /\ Found.what = "partial" /\ Found.at \in 1..Len(seqq) /\ part(Found.at)
         /\ \A i \in 1..Len(seqq) : ~full(i)
      \/ /\ Found.what = "stop"
         /\ \A i \in 1..Len(seqq) : ~full(i) /\ ~part(i)
  <2> DEFINE f == seq_find(seqq, s, mode, TRUE)
  <2>1. Found = f
    BY DEF Found
  <2> HIDE DEF s, mode
  <2>2. LET g == seq_find(seqq, s, mode, TRUE)
            fl(i) == seqq[i].stype = mode /\ Begins(seqq[i].input, s)
            pt(i) == seqq[i].stype = mode /\ Begins(s, seqq[i].input)
        IN  \/ /\ g.what = "match" /\ g.at \in 1..Len(seqq) /\ fl(g.at)
               /\ \A i \in 1..Len(seqq) : fl(i) => Len(seqq[g.at].input) <= Len(seqq[i].input)
            \/ /\ g.what = "partial" /\ g.at \in 1..Len(seqq) /\ pt(g.at)
               /\ \A i \in 1..Len(seqq) : ~fl(i)
            \/ /\ g.what = "stop"
               /\ \A i \in 1..Len(seqq) : ~fl(i) /\ ~pt(i)
    BY <1>1, <1>2, FindsKeys
  <2> HIDE DEF Found
  <2> QED BY <2>1, <2>2, Zenon
<1> HIDE DEF mode
<1>5. DOMAIN seqq = 1..Len(seqq)
  BY <1>1
<1> SUFFICES LET F == {i \in DOMAIN seqq : SpelledBy(seqq[i], buf.q, mode)}
                 P == {i \in DOMAIN seqq : part(i)}
             IN  \/ /\ Found.what = "match" /\ Found.at \in F
                    /\ \A i \in F : Len(seqq[Found.at].input) <= Len(seqq[i].input)
                 \/ Found.what = "partial" /\ F = {} /\ P # {}
                 \/ Found.what = "stop" /\ F = {} /\ P = {}
  BY DEF mode
<1> HIDE DEF full, part
<1> QED BY <1>3, <1>4, <1>5

\* The maps that apply to what waits are the ones that are found.
LEMMA AppliesIs ==
  ASSUME IInv, buf.q # <<>>
  PROVE  LET A == AppliesTo(buf.q, Entered(seqq), MapOf(ctx, quote))
         IN  /\ Found.what # "match" => A = {}
             /\ MapOf(ctx, quote) = "none" => A = {}
             /\ (buf.q[1].type # "key" \/ "nomap" \in buf.q[1].flags) => A = {}
             /\ /\ buf.q[1].type = "key" /\ "nomap" \notin buf.q[1].flags
                /\ Found.what = "match"
                => /\ Found.at \in DOMAIN seqq /\ seqq[Found.at] \in A
                   /\ SpelledBy(seqq[Found.at], buf.q, MapOf(ctx, quote))
<1> DEFINE mode == MapOf(ctx, quote)
           full == {i \in DOMAIN seqq : SpelledBy(seqq[i], buf.q, mode)}
           A == AppliesTo(buf.q, Entered(seqq), mode)
<1>1. DOMAIN seqq = 1..Len(seqq) /\ \A i \in 1..Len(seqq) : seqq[i] \in SEQ
  BY SeqIs DEF IInv, TypeOK
<1>2. \/ /\ Found.what = "match" /\ Found.at \in full
         /\ \A i \in full : Len(seqq[Found.at].input) <= Len(seqq[i].input)
      \/ Found.what # "match" /\ full = {}
  <2>1. full # {} => /\ Found.what = "match" /\ Found.at \in full
                     /\ \A i \in full : Len(seqq[Found.at].input) <= Len(seqq[i].input)
    BY FoundIs
  <2>2. Found.what = "match" => Found.at \in full
    BY FoundIs
  <2> QED BY <2>1, <2>2
<1> HIDE DEF mode
<1>3. full = {} => A = {}
  BY DEF AppliesTo, Entered
<1>4. mode = "none" => full = {}
  BY <1>1 DEF SpelledBy, SEQ
<1>5. (buf.q[1].type # "key" \/ "nomap" \in buf.q[1].flags) => A = {}
  BY DEF AppliesTo
<1>6. ASSUME buf.q[1].type = "key", "nomap" \notin buf.q[1].flags, Found.what = "match"
      PROVE  /\ Found.at \in DOMAIN seqq /\ seqq[Found.at] \in A
             /\ SpelledBy(seqq[Found.at], buf.q, mode)
  <2> DEFINE m == seqq[Found.at]
  <2>1. Found.at \in full /\ \A i \in full : Len(m.input) <= Len(seqq[i].input)
    BY <1>2, <1>6
  <2>2. Found.at \in DOMAIN seqq /\ SpelledBy(m, buf.q, mode) /\ m \in Entered(seqq)
    BY <2>1 DEF Entered
  <2>3. \A n \in Entered(seqq) : SpelledBy(n, buf.q, mode) => Len(m.input) <= Len(n.input)
    BY <2>1 DEF Entered
  <2>4. A = {x \in Entered(seqq) :
               SpelledBy(x, buf.q, mode)
               /\ \A n \in Entered(seqq) : SpelledBy(n, buf.q, mode) => Len(x.input) <= Len(n.input)}
    BY <1>6 DEF AppliesTo
  <2> HIDE DEF m, A, full
  <2> QED BY <2>2, <2>3, <2>4 DEF m
<1> HIDE DEF A, full
<1>7. Found.what # "match" => A = {}
  BY <1>2, <1>3
<1> QED BY <1>3, <1>4, <1>5, <1>6, <1>7 DEF A, mode

LEMMA FoundInOrder == IInv => MapsAreFound
<1> SUFFICES ASSUME IInv PROVE MapsAreFound
  OBVIOUS
<1> DEFINE keys == Chars(buf.q)
           mode == MapOf(ctx, quote)
           mine == {i \in DOMAIN seqq : seqq[i].stype = mode}
           full == {i \in mine : IsPrefix(seqq[i].input, keys)}
           F == {i \in DOMAIN seqq : SpelledBy(seqq[i], buf.q, mode)}
           P == {i \in DOMAIN seqq : seqq[i].stype = mode /\ Begins(keys, seqq[i].input)}
<1>1. seqq \in Seq(SEQ) /\ Sorted(seqq) /\ buf.q \in Seq(Event)
  BY DEF IInv, TypeOK, Buffer
<1>2. DOMAIN seqq = 1..Len(seqq) /\ Len(seqq) \in Nat /\ \A i \in DOMAIN seqq : seqq[i].input \in Input
  BY <1>1, SeqIs, EntryIs
<1>3. \A i \in DOMAIN seqq : seq_find(seqq, seqq[i].input, seqq[i].stype, FALSE) = Result("match", i)
  BY <1>1, <1>2, FindsItself
<1>4. ASSUME AtKey
      PROVE  CASE Found.what = "match"   -> /\ Found.at \in full
                                            /\ \A i \in full : Len(seqq[Found.at].input)
                                                                 <= Len(seqq[i].input)
               [] Found.what = "partial" -> full = {} /\ \E i \in mine : IsPrefix(keys, seqq[i].input)
               [] OTHER -> full = {} /\ ~\E i \in mine : IsPrefix(keys, seqq[i].input)
  <2>1. buf.q # <<>>
    BY <1>4 DEF IInv, BufferHolds, AtKey
  <2>2. /\ keys \in Input /\ Len(keys) = Len(buf.q)
        /\ \A i \in 1..Len(buf.q) : keys[i] = buf.q[i].c
    BY <1>1, <2>1, CharsAre
  <2>3. \/ /\ Found.what = "match" /\ Found.at \in F
           /\ \A i \in F : Len(seqq[Found.at].input) <= Len(seqq[i].input)
        \/ Found.what = "partial" /\ F = {} /\ P # {}
        \/ Found.what = "stop" /\ F = {} /\ P = {}
    BY <2>1, FoundIs
  <2> HIDE DEF keys, mode
  <2>4. ASSUME NEW i \in DOMAIN seqq
        PROVE  /\ IsPrefix(seqq[i].input, keys) /\ seqq[i].stype = mode <=> SpelledBy(seqq[i], buf.q, mode)
               /\ IsPrefix(keys, seqq[i].input) <=> Begins(keys, seqq[i].input)
    <3> DEFINE e == seqq[i]
    <3>1. e.input \in Seq(Keys) /\ keys \in Seq(Keys) /\ Len(e.input) \in Nat /\ Len(buf.q) \in Nat
      BY <1>1, <1>2, <2>2, InputIs, SeqIs
    <3>2. /\ IsPrefix(e.input, keys) <=> Begins(e.input, keys)
          /\ IsPrefix(keys, e.input) <=> Begins(keys, e.input)
      BY <3>1, BeginsIs
    <3>3. Len(e.input) <= Len(buf.q) => \A j \in 1..Len(e.input) : j \in 1..Len(buf.q)
      BY <3>1
    <3>4. SpelledBy(e, buf.q, mode) <=> e.stype = mode /\ Begins(e.input, keys)
      BY <2>2, <3>3 DEF Begins, SpelledBy
    <3> QED BY <3>2, <3>4
  <2>5. full = F /\ P = {i \in mine : IsPrefix(keys, seqq[i].input)}
    BY <2>4
  <2>6. P # {} <=> \E i \in mine : IsPrefix(keys, seqq[i].input)
    BY <2>5
  <2> HIDE DEF full, F, P, mine
  <2> QED BY <2>3, <2>5, <2>6
<1> HIDE DEF keys, mine, full
<1>5. MapsAreFound <=>
        /\ \A i \in DOMAIN seqq : seq_find(seqq, seqq[i].input, seqq[i].stype, FALSE) = Result("match", i)
        /\ AtKey /\ Mappable =>
             CASE Found.what = "match"   -> /\ Found.at \in full
                                            /\ \A i \in full : Len(seqq[Found.at].input)
                                                                 <= Len(seqq[i].input)
               [] Found.what = "partial" -> full = {} /\ \E i \in mine : IsPrefix(keys, seqq[i].input)
               [] OTHER -> full = {} /\ ~\E i \in mine : IsPrefix(keys, seqq[i].input)
  BY DEF MapsAreFound, keys, mine, full, mode
<1> QED BY <1>3, <1>4, <1>5

-----------------------------------------------------------------------------
(* The buffer                                                              *)

LEMMA BufferIs ==
  ASSUME NEW b \in Buffer
  PROVE  /\ b.q \in Seq(Event) /\ Len(b.q) \in Nat /\ b.next \in Nat /\ b.nelem \in Nat
         /\ b = [q |-> b.q, next |-> b.next, nelem |-> b.nelem]
         /\ (b.q = <<>>) <=> (Len(b.q) = 0)
<1>1. /\ b.q \in Seq(Event) /\ b.next \in Nat /\ b.nelem \in Nat
      /\ b = [q |-> b.q, next |-> b.next, nelem |-> b.nelem]
  BY DEF Buffer
<1> QED BY <1>1, SeqIs, EmptySeq

LEMMA Changed ==
  ASSUME NEW b \in Buffer, NEW q, NEW nelem
  PROVE  /\ [b EXCEPT !.q = q] = [q |-> q, next |-> b.next, nelem |-> b.nelem]
         /\ [b EXCEPT !.nelem = nelem] = [q |-> b.q, next |-> b.next, nelem |-> nelem]
<1>1. /\ b = [q |-> b.q, next |-> b.next, nelem |-> b.nelem]
      /\ DOMAIN b = {"q", "next", "nelem"}
  BY DEF Buffer
<1>2. [b EXCEPT !.q = q] = [q |-> q, next |-> b.next, nelem |-> b.nelem]
  BY <1>1
<1>3. [b EXCEPT !.nelem = nelem] = [q |-> b.q, next |-> b.next, nelem |-> nelem]
  BY <1>1
<1> QED BY <1>2, <1>3

LEMMA Removed ==
  ASSUME NEW b, BufOK(b), NEW n \in 0..Len(b.q)
  PROVE  BufOK(QREM(b, n)) /\ QREM(b, n).q = Rest(b.q, n)
<1> DEFINE r == Rest(b.q, n)
           x == IF n = Len(b.q) THEN 0 ELSE b.next + n
<1>1. b \in Buffer /\ b.next + Len(b.q) <= b.nelem
  BY DEF BufOK
<1>2. b.q \in Seq(Event) /\ Len(b.q) \in Nat /\ b.next \in Nat /\ b.nelem \in Nat
  BY <1>1, BufferIs
<1>3. /\ r \in Seq(Event) /\ Len(r) = Len(b.q) - n
      /\ n = Len(b.q) => r = <<>>
  <2> DEFINE q == b.q
  <2>1. q \in Seq(Event) /\ n \in 0..Len(q)
    BY <1>2
  <2> HIDE DEF q
  <2>2. /\ Rest(q, n) \in Seq(Event) /\ Len(Rest(q, n)) = Len(q) - n
        /\ n = Len(q) => Rest(q, n) = <<>>
    BY <2>1, RestIs
  <2> QED BY <2>2 DEF q
<1>4. r = <<>> => n = Len(b.q)
  BY <1>2, <1>3, EmptySeq
<1> HIDE DEF r
<1>6. x \in Nat /\ x + Len(r) <= b.nelem /\ (r = <<>> => x = 0)
  BY <1>1, <1>2, <1>3, <1>4
<1> HIDE DEF x
<1>7. /\ QREM(b, n) \in Buffer /\ QREM(b, n).q = r /\ QREM(b, n).next = x
      /\ QREM(b, n).nelem = b.nelem
  <2>1. QREM(b, n) = [b EXCEPT !.q = r, !.next = x]
    BY DEF QREM, r, x
  <2> QED BY <1>1, <1>3, <1>6, <2>1 DEF Buffer
<1> QED BY <1>6, <1>7 DEF BufOK, r

LEMMA Room ==
  ASSUME NEW nelem \in Nat, NEW next \in Nat, NEW old \in Nat, NEW n \in Nat, NEW add \in Nat,
         next + old + n <= nelem \/ next + old + n <= add \/ (next + old <= nelem /\ n <= add)
  PROVE  nelem + (nelem + add) \in Nat /\ next + (old + n) <= nelem + (nelem + add)
OBVIOUS

LEMMA Grown ==
  ASSUME NEW b, NEW q \in Seq(Event), NEW next \in Nat, NEW nelem \in Nat,
         next + Len(q) <= nelem, q = <<>> => next = 0,
         b = [q |-> q, next |-> next, nelem |-> nelem]
  PROVE  BufOK(b) /\ b.q = q
BY DEF BufOK, Buffer

\* The slots before the next event, or slots of a larger buffer.
LEMMA Pushed ==
  ASSUME NEW b, BufOK(b), NEW s \in Seq(Event)
  PROVE  BufOK(v_event_push(b, s)) /\ v_event_push(b, s).q = s \o b.q
<1> DEFINE n     == Len(s)
           q     == s \o b.q
           total == Len(b.q) + b.next + n + PushShift
           add   == Larger(total, MinGrow)
<1>1. b \in Buffer /\ b.next + Len(b.q) <= b.nelem /\ (b.q = <<>> => b.next = 0)
  BY DEF BufOK
<1>2. /\ b.q \in Seq(Event) /\ Len(b.q) \in Nat /\ b.next \in Nat /\ b.nelem \in Nat
      /\ b.q = <<>> <=> Len(b.q) = 0
      /\ PushShift \in Nat /\ MinGrow \in Nat /\ n \in Nat
  BY <1>1, BufferIs, KeyAssumption, SeqIs
<1>3. q \in Seq(Event) /\ Len(q) = n + Len(b.q) /\ (q = <<>> <=> n + Len(b.q) = 0)
  BY <1>2, ConcatIs, EmptySeq
<1>4. total \in Nat /\ add \in Nat /\ total <= add
  BY <1>2 DEF Larger
<1> HIDE DEF q, add
<1>5. CASE n <= b.next \/ (b.nelem > 0 /\ b.q = <<>> /\ n <= b.nelem)
  <2> DEFINE x == IF b.q = <<>> THEN b.next ELSE b.next - n
  <2>1. v_event_push(b, s) = [q |-> q, next |-> x, nelem |-> b.nelem]
    BY <1>1, <1>5 DEF v_event_push, Buffer, q
  <2>2. x \in Nat /\ x + Len(q) <= b.nelem /\ (q = <<>> => x = 0)
    <3> HIDE DEF n
    <3>1. CASE b.q = <<>>
      <4>1. x = 0 /\ Len(q) = n /\ n <= b.nelem
        <5>1. b.next = 0 /\ Len(b.q) = 0 /\ (n <= 0 \/ n <= b.nelem)
          BY <1>1, <1>2, <1>5, <3>1
        <5>2. x = 0
          BY <3>1, <5>1
        <5> QED BY <1>2, <1>3, <5>1, <5>2
      <4> HIDE DEF x
      <4>2. x \in Nat /\ x + Len(q) <= b.nelem
        BY <1>2, <4>1
      <4> QED BY <4>1, <4>2
    <3>2. CASE b.q # <<>>
      <4>1. x = b.next - n /\ n <= b.next
        BY <1>5, <3>2
      <4>2. x \in Nat /\ q # <<>>
        BY <1>2, <1>3, <3>2, <4>1
      <4>3. x + Len(q) = b.next + Len(b.q)
        BY <1>2, <1>3, <4>1
      <4> QED BY <1>1, <4>2, <4>3
    <3> QED BY <3>1, <3>2
  <2> HIDE DEF x
  <2> QED BY <1>2, <1>3, <2>1, <2>2, Grown DEF q
<1>6. CASE ~(n <= b.next \/ (b.nelem > 0 /\ b.q = <<>> /\ n <= b.nelem))
  <2>1. q # <<>>
    BY <1>2, <1>3, <1>6
  <2>2. CASE total >= b.nelem
    <3>1. v_event_push(b, s) = [q |-> q, next |-> PushShift, nelem |-> b.nelem + (b.nelem + add)]
      BY <1>1, <1>6, <2>2 DEF v_event_push, Buffer, Grow, q, add
    <3>2. /\ b.nelem + (b.nelem + add) \in Nat
          /\ PushShift + Len(q) <= b.nelem + (b.nelem + add)
      <4>1. PushShift + Len(b.q) + n <= total
        BY <1>2
      <4> HIDE DEF total, n
      <4>2. PushShift + Len(b.q) + n <= add
        BY <1>2, <1>4, <4>1
      <4>3. PushShift + (Len(b.q) + n) <= b.nelem + (b.nelem + add) /\ b.nelem + (b.nelem + add) \in Nat
        BY <1>2, <1>4, <4>2, Room
      <4>4. Len(q) = Len(b.q) + n
        BY <1>2, <1>3
      <4> QED BY <4>3, <4>4
    <3> QED BY <1>2, <1>3, <2>1, <3>1, <3>2, Grown DEF q
  <2>3. CASE ~(total >= b.nelem)
    <3>1. v_event_push(b, s) = [q |-> q, next |-> PushShift, nelem |-> b.nelem]
      BY <1>1, <1>6, <2>3 DEF v_event_push, Buffer, q
    <3>2. PushShift + Len(q) <= b.nelem
      BY <1>2, <1>3, <2>3
    <3> QED BY <1>2, <1>3, <2>1, <3>1, <3>2, Grown DEF q
  <2> QED BY <2>2, <2>3
<1> QED BY <1>5, <1>6

\* Behind the events that wait.
LEMMA Appended ==
  ASSUME NEW b, BufOK(b), NEW s \in Seq(Event)
  PROVE  /\ s # <<>> => BufOK(v_event_append(b, s))
         /\ v_event_append(b, s).q = b.q \o s
<1> DEFINE n   == Len(s)
           q   == b.q \o s
           add == Larger(n, MinGrow)
<1>1. b \in Buffer /\ b.next + Len(b.q) <= b.nelem /\ (b.q = <<>> => b.next = 0)
  BY DEF BufOK
<1>2. /\ b.q \in Seq(Event) /\ Len(b.q) \in Nat /\ b.next \in Nat /\ b.nelem \in Nat
      /\ MinGrow \in Nat /\ n \in Nat /\ (s # <<>> => n > 0)
  BY <1>1, BufferIs, KeyAssumption, SeqIs
<1>3. q \in Seq(Event) /\ Len(q) = Len(b.q) + n /\ (q = <<>> => n = 0)
  BY <1>2, ConcatIs, EmptySeq
<1>4. add \in Nat /\ n <= add
  BY <1>2 DEF Larger
<1> HIDE DEF q, add
<1>5. CASE b.nelem = 0 \/ n > b.nelem - (b.next + Len(b.q))
  <2>1. v_event_append(b, s) = [q |-> q, next |-> b.next, nelem |-> b.nelem + (b.nelem + add)]
    <3> DEFINE g == [b EXCEPT !.nelem = b.nelem + (b.nelem + add)]
    <3>1. g = [q |-> b.q, next |-> b.next, nelem |-> b.nelem + (b.nelem + add)]
      BY <1>1, Changed
    <3>2. v_event_append(b, s) = [g EXCEPT !.q = g.q \o s]
      BY <1>5 DEF v_event_append, Grow, add
    <3> HIDE DEF g
    <3> QED BY <3>1, <3>2 DEF q
  <2>2. /\ b.nelem + (b.nelem + add) \in Nat
        /\ b.next + Len(q) <= b.nelem + (b.nelem + add)
    <3> HIDE DEF n
    <3>1. b.next + (Len(b.q) + n) <= b.nelem + (b.nelem + add) /\ b.nelem + (b.nelem + add) \in Nat
      BY <1>1, <1>2, <1>4, Room
    <3> QED BY <1>3, <3>1
  <2>3. s # <<>> => BufOK(v_event_append(b, s))
    BY <1>2, <1>3, <2>1, <2>2, Grown
  <2> QED BY <2>1, <2>3 DEF q
<1>6. CASE ~(b.nelem = 0 \/ n > b.nelem - (b.next + Len(b.q)))
  <2>1. v_event_append(b, s) = [q |-> q, next |-> b.next, nelem |-> b.nelem]
    <3>1. v_event_append(b, s) = [b EXCEPT !.q = q]
      BY <1>6 DEF v_event_append, q
    <3> QED BY <1>1, <3>1, Changed
  <2>2. b.next + Len(q) <= b.nelem
    BY <1>2, <1>3, <1>6
  <2>3. s # <<>> => BufOK(v_event_append(b, s))
    BY <1>2, <1>3, <2>1, <2>2, Grown
  <2> QED BY <2>1, <2>3 DEF q
<1> QED BY <1>5, <1>6

\* Only what has the flag goes, from the front.
LEMMA Flushed ==
  ASSUME NEW b, BufOK(b), NEW flag
  PROVE  /\ BufOK(v_event_flush(b, flag))
         /\ \E n \in 0..Len(b.q) :
              /\ \A i \in 1..n : flag \in b.q[i].flags
              /\ n < Len(b.q) => flag \notin b.q[n + 1].flags
              /\ v_event_flush(b, flag).q = Rest(b.q, n)
<1> DEFINE T == {i \in 1..Len(b.q) : flag \notin b.q[i].flags}
           k == IF T # {} THEN Min(T) ELSE 0
           n == IF k = 0 THEN Len(b.q) ELSE k - 1
<1>1. Len(b.q) \in Nat
  BY BufferIs DEF BufOK
<1>2. v_event_flush(b, flag) = QREM(b, n)
  <2>1. k = SelectInSeq(b.q, LAMBDA e : flag \notin e.flags)
    BY DEF SelectInSeq
  <2> HIDE DEF k
  <2> QED BY <2>1 DEF v_event_flush
<1>3. /\ n \in 0..Len(b.q) /\ (\A i \in 1..n : flag \in b.q[i].flags)
      /\ n < Len(b.q) => flag \notin b.q[n + 1].flags
  <2>1. CASE T = {}
    <3>1. n = Len(b.q) /\ \A i \in 1..Len(b.q) : flag \in b.q[i].flags
      BY <2>1
    <3> HIDE DEF n
    <3> QED BY <1>1, <3>1
  <2>2. CASE T # {}
    <3>1. T \subseteq Nat
      BY <1>1
    <3>2. k \in T /\ \A j \in T : k <= j
      BY <2>2, <3>1, MinIs
    <3> HIDE DEF k
    <3>3. k \in 1..Len(b.q) /\ flag \notin b.q[k].flags
      BY <3>2
    <3>4. n = k - 1 /\ n \in 0..Len(b.q) /\ n + 1 = k
      BY <1>1, <3>3
    <3>5. ASSUME NEW i \in 1..n
          PROVE  flag \in b.q[i].flags
      <4>1. i \in 1..Len(b.q) /\ ~(k <= i)
        BY <1>1, <3>3, <3>4
      <4> QED BY <3>2, <4>1
    <3> HIDE DEF n
    <3> QED BY <3>3, <3>4, <3>5
  <2> QED BY <2>1, <2>2
<1> HIDE DEF n
<1>4. BufOK(QREM(b, n)) /\ QREM(b, n).q = Rest(b.q, n)
  BY <1>3, Removed
<1> QED BY <1>2, <1>3, <1>4

-----------------------------------------------------------------------------
(* The steps.  Step is a step of the stream, or none of its own.           *)

StreamStep == [Stream!Next]_(Stream!vars)

LEMMA BufferNow == IInv => BufOK(buf)
BY DEF IInv, TypeOK, BufferHolds, BufOK

WordType == [text : Seq(Keys), inword : BOOLEAN]

LEMMA GetKeeps ==
  ASSUME IInv, NEW b, BufOK(b), NEW c \in Reading, NEW k \in BOOLEAN, Get(b, c, k),
         UNCHANGED <<seqq, remap>>, tty' \in Seq(Keys), sigint' \in BOOLEAN,
         interrupted' \in BOOLEAN, word' \in WordType, abcnt' \in Nat, used' \in Nat
  PROVE  /\ IInv'
         /\ got' = NotDigit /\ buf' = b /\ remap' = remap
<1>1. /\ buf' = b /\ ctx' = c /\ quote' = k /\ got' = NotDigit
      /\ get' = [NoLocals EXCEPT !.timed = (c = "match")]
      /\ pc' = IF b.q = <<>> THEN "read" ELSE "map"
      /\ seqq' = seqq /\ remap' = remap
  BY DEF Get
<1>2. /\ get' = [timed |-> (c = "match"), istimeout |-> FALSE, remap_cnt |-> 0, evp |-> NotDigit]
      /\ get'.timed <=> c = "match"
      /\ ~get'.istimeout
  BY <1>1 DEF NoLocals
<1>3. TypeOK'
  <2>1. /\ seqq' \in Seq(SEQ) /\ remap' \in BOOLEAN /\ buf' \in Buffer
        /\ pc' \in {"read", "map", "nomap", "ready", "ended"}
        /\ got' \in Event \cup {NotDigit}
        /\ ctx' \in Reading /\ quote' \in BOOLEAN
    BY <1>1 DEF IInv, TypeOK, BufOK
  <2>2. get' \in [timed : BOOLEAN, istimeout : BOOLEAN, remap_cnt : Nat, evp : Event \cup {NotDigit}]
    BY <1>2
  <2> QED BY <2>1, <2>2 DEF TypeOK, WordType
<1>4. BufferHolds'
  BY <1>1 DEF BufferHolds, BufOK
<1>5. Sorted(seqq)'
  BY <1>1 DEF IInv
<1>6. Waited'
  BY <1>1, <1>2 DEF Waited
<1> QED BY <1>1, <1>3, <1>4, <1>5, <1>6 DEF IInv

LEMMA ReturnKeeps ==
  ASSUME IInv, NEW b, BufOK(b), NEW e \in Event \cup {NotDigit}, Return(b, e), Elsewhere,
         tty' \in Seq(Keys), sigint' \in BOOLEAN, interrupted' \in BOOLEAN
  PROVE  /\ IInv'
         /\ buf' = b /\ got' = e /\ UNCHANGED <<seqq, remap, ctx, quote>>
<1>1. /\ buf' = b /\ got' = e /\ pc' = "ready" /\ get' = NoLocals /\ ctx' = ctx /\ quote' = quote
      /\ seqq' = seqq /\ remap' = remap /\ word' = word /\ abcnt' = abcnt /\ used' = used
  BY DEF Return, Elsewhere
<1>2. TypeOK'
  <2>1. /\ seqq' \in Seq(SEQ) /\ remap' \in BOOLEAN /\ buf' \in Buffer
        /\ pc' \in {"read", "map", "nomap", "ready", "ended"}
        /\ ctx' \in Reading /\ quote' \in BOOLEAN
        /\ word' \in [text : Seq(Keys), inword : BOOLEAN] /\ abcnt' \in Nat /\ used' \in Nat
    BY <1>1 DEF IInv, TypeOK, BufOK
  <2>2. get' \in [timed : BOOLEAN, istimeout : BOOLEAN, remap_cnt : Nat, evp : Event \cup {NotDigit}]
    BY <1>1 DEF NoLocals
  <2>3. got' \in Event \cup {NotDigit}
    BY <1>1
  <2> QED BY <2>1, <2>2, <2>3 DEF TypeOK
<1>3. BufferHolds'
  BY <1>1 DEF BufferHolds, BufOK
<1>4. Sorted(seqq)'
  BY <1>1 DEF IInv
<1>5. Waited'
  BY <1>1 DEF Waited
<1> QED BY <1>1, <1>2, <1>3, <1>4, <1>5 DEF IInv

(* The steps of the stream, from what happens to the queue.                *)

LEMMA Applies ==
  /\ Stream!Applying = AppliesTo(buf.q, Entered(seqq), MapOf(ctx, quote))
  /\ (UNCHANGED <<seqq, ctx, quote>> =>
        UNCHANGED <<Entered(seqq), MapOf(ctx, quote)>>)
BY DEF Stream!Applying, Stream!Spelled, Stream!IsKey, AppliesTo, SpelledBy, Entered

LEMMA SameOperators ==
  ASSUME NEW a, NEW b
  PROVE  /\ Stream!IsPrefix(a, b) <=> IsPrefix(a, b)
         /\ Stream!IsSuffix(a, b) <=> IsSuffix(a, b)
         /\ \A n : Stream!Rest(a, n) = Rest(a, n)
         /\ Stream!KeyEvents(a, b) = AsEvents(a, b)
<1>1. Stream!IsPrefix(a, b) <=> IsPrefix(a, b)
  BY DEF Stream!IsPrefix, IsPrefix
<1>2. Stream!IsSuffix(a, b) <=> IsSuffix(a, b)
  BY DEF Stream!IsSuffix, Stream!IsPrefix, Stream!Reverse, IsSuffix, IsPrefix, Reverse
<1>3. \A n : Stream!Rest(a, n) = Rest(a, n)
  BY DEF Stream!Rest, Rest
<1>4. Stream!KeyEvents(a, b) = AsEvents(a, b)
  BY DEF Stream!KeyEvents, AsEvents
<1> QED BY <1>1, <1>2, <1>3, <1>4

LEMMA Turns ==
  ASSUME buf'.q = buf.q, remap' = remap, got' = got \/ got' = NotDigit
  PROVE  StreamStep
<1>1. Stream!Turn
  BY DEF Stream!Turn, Stream!Used, NotDigit
<1> QED BY <1>1 DEF StreamStep, Stream!Next

LEMMA Stutters ==
  ASSUME UNCHANGED <<buf, got, seqq, ctx, quote, remap>>
  PROVE  StreamStep
BY DEF StreamStep, Stream!vars

LEMMA Discards ==
  ASSUME BufOK(buf), NEW flag \in {"mapped", "abbreviated"}, buf'.q = v_event_flush(buf, flag).q,
         UNCHANGED <<seqq, remap>>, got' = NotDigit
  PROVE  StreamStep
<1>1. PICK n \in 0..Len(buf.q) :
        /\ \A i \in 1..n : flag \in buf.q[i].flags
        /\ n < Len(buf.q) => flag \notin buf.q[n + 1].flags
        /\ buf'.q = Rest(buf.q, n)
  BY Flushed
<1>2. buf.q \in Seq(Event) /\ Len(buf.q) \in Nat
  BY BufferIs DEF BufOK
<1>3. CASE n = 0
  <2>1. buf'.q = buf.q
    BY <1>1, <1>2, <1>3, RestIs
  <2> QED BY <2>1, Turns
<1>4. CASE n # 0
  <2>1. n \in 1..Len(buf.q) /\ buf'.q = Stream!Rest(buf.q, n)
    <3>1. n \in 1..Len(buf.q)
      BY <1>2, <1>4
    <3>2. Stream!Rest(buf.q, n) = Rest(buf.q, n)
      BY DEF Stream!Rest, Rest
    <3> QED BY <1>1, <3>1, <3>2
  <2>2. Stream!Used
    BY DEF Stream!Used, NotDigit
  <2>3. Stream!Discard
    BY <1>1, <2>1, <2>2, Applies DEF Stream!Discard, Entered
  <2> QED BY <2>3 DEF StreamStep, Stream!Next
<1> QED BY <1>3, <1>4

LEMMA PushesBack ==
  ASSUME buf.q \in Seq(Event), NEW s \in Seq(Event), \A i \in 1..Len(s) : s[i].type = "key",
         buf'.q = s \o buf.q, UNCHANGED <<seqq, remap>>, got' = NotDigit
  PROVE  StreamStep
<1>1. /\ IsSuffix(buf.q, buf'.q) /\ Len(buf'.q) = Len(s) + Len(buf.q)
      /\ \A i \in 1..Len(s) : buf'.q[i] = s[i]
  BY ConcatIs
<1>2. Len(buf'.q) - Len(buf.q) = Len(s)
  BY <1>1, SeqIs
<1>3. Stream!PushBack
  <2>1. Stream!Used
    BY DEF Stream!Used, NotDigit
  <2>2. \A i \in 1..Len(buf'.q) - Len(buf.q) : Stream!IsKey(buf'.q[i])
    BY <1>1, <1>2 DEF Stream!IsKey
  <2>3. Stream!IsSuffix(buf.q, buf'.q)
    BY <1>1, SameOperators
  <2> QED BY <2>1, <2>2, <2>3 DEF Stream!PushBack
<1> QED BY <1>3 DEF StreamStep, Stream!Next

-----------------------------------------------------------------------------
(* v_event_get()                                                           *)

LEMMA OddAre ==
  ASSUME NEW type \in {"interrupt", "resize"}, NEW e \in Odd(type)
  PROVE  <<e>> \in Seq(Event) /\ <<e>> # <<>>
<1>1. e \in Event
  BY KeyAssumption DEF Odd, Event, Flags
<1> QED BY <1>1

LEMMA Arrives ==
  ASSUME IInv, pc = "read", NEW s \in Seq(Event), Arrived(s), s = <<>> => get.timed, Elsewhere,
         tty' \in Seq(Keys), sigint' \in BOOLEAN, interrupted' \in BOOLEAN
  PROVE  IInv' /\ StreamStep
<1>1. /\ seqq' = seqq /\ remap' = remap /\ word' = word /\ abcnt' = abcnt /\ used' = used
      /\ got' = got /\ ctx' = ctx /\ quote' = quote
      /\ buf' = IF s = <<>> THEN buf ELSE v_event_append(buf, s)
  BY DEF Elsewhere, Arrived
<1>2. BufOK(buf) /\ buf.q \in Seq(Event) /\ buf \in Buffer
  BY BufferNow DEF IInv, TypeOK, Buffer
<1>3. /\ BufOK(buf')
      /\ s # <<>> => buf'.q = buf.q \o s
  BY <1>1, <1>2, Appended
<1>4. s # <<>> => buf'.q # <<>>
  BY <1>2, <1>3, ConcatEqualIffEmpty
<1>5. IF ctx = "match" THEN pc' = "ready" /\ get' = NoLocals
                       ELSE pc' = "map" /\ get' = [get EXCEPT !.istimeout = (s = <<>>)]
  BY DEF Arrived
<1>6. IInv'
  <2>1. get \in [timed : BOOLEAN, istimeout : BOOLEAN, remap_cnt : Nat, evp : Event \cup {NotDigit}]
    BY DEF IInv, TypeOK
  <2>2. get' \in [timed : BOOLEAN, istimeout : BOOLEAN, remap_cnt : Nat, evp : Event \cup {NotDigit}]
    <3>1. CASE ctx = "match"
      <4>1. get' = NoLocals
        BY <1>5, <3>1
      <4> QED BY <4>1 DEF NoLocals
    <3>2. CASE ctx # "match"
      BY <1>5, <2>1, <3>2
    <3> QED BY <3>1, <3>2
  <2>3. TypeOK'
    <3>1. /\ seqq' \in Seq(SEQ) /\ remap' \in BOOLEAN /\ buf' \in Buffer
          /\ pc' \in {"read", "map", "nomap", "ready", "ended"}
          /\ ctx' \in Reading /\ quote' \in BOOLEAN /\ got' \in Event \cup {NotDigit}
          /\ word' \in [text : Seq(Keys), inword : BOOLEAN] /\ abcnt' \in Nat /\ used' \in Nat
      BY <1>1, <1>3, <1>5 DEF IInv, TypeOK, BufOK
    <3> QED BY <2>2, <3>1 DEF TypeOK
  <2>4. s = <<>> /\ ctx # "match" => buf.q # <<>> /\ Quiet
    BY DEF IInv, Waited
  <2>5. pc' \in {"map", "nomap"} => buf'.q # <<>>
    BY <1>1, <1>4, <1>5, <2>4
  <2>6. BufferHolds'
    BY <1>3, <2>5 DEF BufferHolds, BufOK
  <2>7. Sorted(seqq)'
    BY <1>1 DEF IInv
  <2>8. pc' = "map" /\ get'.istimeout => Quiet'
    <3>1. pc' = "map" /\ get'.istimeout => s = <<>> /\ ctx # "match"
      BY <1>5, <2>1
    <3>2. s = <<>> => (Quiet' <=> Quiet)
      BY <1>1 DEF Quiet
    <3> QED BY <2>4, <3>1, <3>2
  <2>9. pc' # "read" /\ pc' # "nomap"
    BY <1>5
  <2>10. Waited'
    BY <2>8, <2>9 DEF Waited
  <2> QED BY <2>3, <2>6, <2>7, <2>10 DEF IInv
<1>7. CASE s = <<>>
  BY <1>1, <1>6, <1>7, Stutters
<1>8. CASE s # <<>>
  <2>1. /\ IsPrefix(buf.q, buf'.q) /\ Len(buf'.q) = Len(buf.q) + Len(s)
    <3> DEFINE q == buf.q
    <3>1. q \in Seq(Event) /\ buf'.q = q \o s
      BY <1>2, <1>3, <1>8
    <3> HIDE DEF q
    <3>2. IsPrefix(q, q \o s) /\ Len(q \o s) = Len(q) + Len(s)
      BY <3>1, ConcatIs
    <3> QED BY <3>1, <3>2 DEF q
  <2>2. Len(s) \in Nat /\ Len(s) > 0 /\ Len(buf.q) \in Nat
    BY <1>2, <1>8, SeqIs
  <2>3. Len(s) \in 1..Len(buf'.q)
    BY <2>1, <2>2
  <2>4. Stream!IsPrefix(buf.q, buf'.q)
    BY <2>1, SameOperators
  <2>5. Stream!Same
    BY <1>1, Applies DEF Stream!Same, Entered
  <2>6. Stream!Arrive
    BY <2>1, <2>3, <2>4, <2>5 DEF Stream!Arrive
  <2> QED BY <1>6, <2>6 DEF StreamStep, Stream!Next
<1> QED BY <1>7, <1>8

LEMMA Reads ==
  ASSUME IInv, ReadInterrupt \/ ReadFatal \/ ReadResize \/ ReadKeys \/ ReadTimeout
  PROVE  IInv' /\ StreamStep
<1>1. tty \in Seq(Keys) /\ sigint \in BOOLEAN /\ interrupted \in BOOLEAN
  BY DEF IInv, TypeOK
<1>2. CASE ReadInterrupt
  <2>1. PICK e \in Odd("interrupt") : Arrived(<<e>>)
    BY <1>2 DEF ReadInterrupt
  <2>2. <<e>> \in Seq(Event) /\ <<e>> # <<>>
    BY OddAre
  <2>3. /\ pc = "read" /\ Elsewhere /\ tty' \in Seq(Keys) /\ sigint' \in BOOLEAN
        /\ interrupted' \in BOOLEAN
    BY <1>1, <1>2 DEF ReadInterrupt
  <2> QED BY <2>1, <2>2, <2>3, Arrives
<1>3. CASE ReadFatal
  <2>1. /\ pc' = "ended" /\ seqq' = seqq /\ remap' = remap /\ word' = word /\ abcnt' = abcnt
        /\ used' = used /\ tty' = tty /\ sigint' = sigint /\ interrupted' = interrupted
        /\ buf' = buf /\ get' = get /\ got' = got /\ ctx' = ctx /\ quote' = quote
    BY <1>3 DEF ReadFatal, Elsewhere
  <2>2. TypeOK'
    BY <2>1 DEF IInv, TypeOK
  <2>3. BufferHolds' /\ Sorted(seqq)' /\ Waited'
    BY <2>1 DEF IInv, BufferHolds, Waited
  <2> QED BY <2>1, <2>2, <2>3, Stutters DEF IInv
<1>4. CASE ReadResize
  <2>1. PICK e \in Odd("resize") : Arrived(<<e>>)
    BY <1>4 DEF ReadResize
  <2>2. <<e>> \in Seq(Event) /\ <<e>> # <<>>
    BY OddAre
  <2>3. /\ pc = "read" /\ Elsewhere /\ tty' \in Seq(Keys) /\ sigint' \in BOOLEAN
        /\ interrupted' \in BOOLEAN
    BY <1>1, <1>4 DEF ReadResize
  <2> QED BY <2>1, <2>2, <2>3, Arrives
<1>5. CASE ReadKeys
  <2>1. AsEvents(tty, {}) \in Seq(Event) /\ AsEvents(tty, {}) # <<>>
    BY <1>1, <1>5, EventsAre DEF ReadKeys
  <2>2. /\ pc = "read" /\ Elsewhere /\ tty' \in Seq(Keys) /\ sigint' \in BOOLEAN
        /\ interrupted' \in BOOLEAN /\ Arrived(AsEvents(tty, {}))
    BY <1>1, <1>5 DEF ReadKeys
  <2> QED BY <2>1, <2>2, Arrives
<1>6. CASE ReadTimeout
  <2>1. /\ pc = "read" /\ Elsewhere /\ tty' \in Seq(Keys) /\ sigint' \in BOOLEAN
        /\ interrupted' \in BOOLEAN /\ Arrived(<<>>) /\ get.timed
    BY <1>1, <1>6 DEF ReadTimeout
  <2>2. <<>> \in Seq(Event)
    OBVIOUS
  <2> QED BY <2>1, <2>2, Arrives
<1> QED BY <1>2, <1>3, <1>4, <1>5, <1>6

\* What is so whenever v_event_get() looks at the next event.
LEMMA Looking ==
  ASSUME IInv, pc \in {"map", "nomap"}
  PROVE  /\ BufOK(buf) /\ buf.q \in Seq(Event) /\ buf.q # <<>> /\ Len(buf.q) \in Nat
         /\ 1 \in 0..Len(buf.q) /\ buf.q[1] \in Event /\ Rest(buf.q, 1) = Tail(buf.q)
         /\ tty \in Seq(Keys) /\ sigint \in BOOLEAN /\ interrupted \in BOOLEAN
         /\ get \in [timed : BOOLEAN, istimeout : BOOLEAN, remap_cnt : Nat,
                     evp : Event \cup {NotDigit}]
<1>1. /\ BufOK(buf) /\ buf.q \in Seq(Event) /\ buf.q # <<>>
      /\ tty \in Seq(Keys) /\ sigint \in BOOLEAN /\ interrupted \in BOOLEAN
      /\ get \in [timed : BOOLEAN, istimeout : BOOLEAN, remap_cnt : Nat, evp : Event \cup {NotDigit}]
  BY BufferNow DEF IInv, TypeOK, Buffer, BufferHolds
<1>2. Len(buf.q) \in Nat /\ Len(buf.q) > 0 /\ \A i \in 1..Len(buf.q) : buf.q[i] \in Event
  BY <1>1, SeqIs
<1>3. 1 \in 0..Len(buf.q) /\ buf.q[1] \in Event
  BY <1>2
<1>4. Rest(buf.q, 1) = Tail(buf.q)
  <2> DEFINE q == buf.q
  <2>1. q \in Seq(Event) /\ 1 \in 0..Len(q)
    BY <1>1, <1>3
  <2> HIDE DEF q
  <2>2. Rest(q, 1) = Tail(q)
    BY <2>1, RestIs
  <2> QED BY <2>2 DEF q
<1> QED BY <1>1, <1>2, <1>3, <1>4

LEMMA MapsEvent ==
  ASSUME IInv, MapEvent
  PROVE  IInv' /\ StreamStep
<1>1. /\ pc = "map" /\ buf.q[1].type # "key" /\ Return(QREM(buf, 1), buf.q[1]) /\ Elsewhere
      /\ UNCHANGED <<tty, sigint, interrupted>>
  BY DEF MapEvent
<1>2. /\ BufOK(buf) /\ buf.q \in Seq(Event) /\ buf.q # <<>> /\ 1 \in 0..Len(buf.q)
      /\ buf.q[1] \in Event /\ Rest(buf.q, 1) = Tail(buf.q)
      /\ tty \in Seq(Keys) /\ sigint \in BOOLEAN /\ interrupted \in BOOLEAN
  BY <1>1, Looking
<1>3. BufOK(QREM(buf, 1)) /\ QREM(buf, 1).q = Tail(buf.q)
  BY <1>2, Removed
<1>4. /\ IInv' /\ buf' = QREM(buf, 1) /\ got' = buf.q[1]
      /\ UNCHANGED <<seqq, remap, ctx, quote>>
  BY <1>1, <1>2, <1>3, ReturnKeeps
<1>5. Stream!Take
  <2>1. AppliesTo(buf.q, Entered(seqq), MapOf(ctx, quote)) = {}
    BY <1>1, <1>2, AppliesIs
  <2> QED BY <1>2, <1>3, <1>4, <2>1, Applies DEF Stream!Take, Entered
<1> QED BY <1>4, <1>5 DEF StreamStep, Stream!Next

LEMMA MapsNone ==
  ASSUME IInv, MapNone
  PROVE  IInv' /\ StreamStep
<1>1. /\ pc = "map" /\ buf.q[1].type = "key" /\ (Mappable => Found.what = "stop")
      /\ pc' = "nomap" /\ get' = [get EXCEPT !.evp = buf.q[1]]
      /\ seqq' = seqq /\ remap' = remap /\ word' = word /\ abcnt' = abcnt /\ used' = used
      /\ tty' = tty /\ sigint' = sigint /\ interrupted' = interrupted
      /\ buf' = buf /\ got' = got /\ ctx' = ctx /\ quote' = quote
  BY DEF MapNone, AtKey, Elsewhere
<1>2. /\ buf.q # <<>> /\ buf.q[1] \in Event
      /\ get \in [timed : BOOLEAN, istimeout : BOOLEAN, remap_cnt : Nat, evp : Event \cup {NotDigit}]
  BY <1>1, Looking
<1>3. Quiet
  <2>1. CASE get.istimeout
    BY <1>1, <2>1 DEF IInv, Waited
  <2>2. CASE ~get.istimeout
    <3>1. \/ "nomap" \in buf.q[1].flags
          \/ MapOf(ctx, quote) = "none"
          \/ Found.what = "stop"
      BY <1>1, <2>2 DEF Mappable
    <3>2. LET A == AppliesTo(buf.q, Entered(seqq), MapOf(ctx, quote))
          IN  /\ Found.what # "match" => A = {}
              /\ MapOf(ctx, quote) = "none" => A = {}
              /\ "nomap" \in buf.q[1].flags => A = {}
      BY <1>2, AppliesIs
    <3> QED BY <3>1, <3>2 DEF Quiet
  <2> QED BY <2>1, <2>2
<1>4. /\ get' \in [timed : BOOLEAN, istimeout : BOOLEAN, remap_cnt : Nat, evp : Event \cup {NotDigit}]
      /\ get'.evp = buf.q[1]
  BY <1>1, <1>2
<1>5. TypeOK'
  BY <1>1, <1>4 DEF IInv, TypeOK
<1>6. BufferHolds' /\ Sorted(seqq)'
  BY <1>1, <1>2 DEF IInv, BufferHolds
<1>7. Waited'
  <2>1. Quiet'
    BY <1>1, <1>3 DEF Quiet
  <2>2. pc' = "nomap" /\ get'.evp = buf'.q[1]
    BY <1>1, <1>4
  <2> QED BY <2>1, <2>2 DEF Waited
<1> QED BY <1>1, <1>5, <1>6, <1>7, Stutters DEF IInv

LEMMA MapsPartial ==
  ASSUME IInv, MapPartial
  PROVE  IInv' /\ StreamStep
<1>1. /\ pc = "map" /\ Found.what = "partial"
      /\ pc' = "read" /\ get' = [get EXCEPT !.timed = TRUE]
      /\ seqq' = seqq /\ remap' = remap /\ word' = word /\ abcnt' = abcnt /\ used' = used
      /\ tty' = tty /\ sigint' = sigint /\ interrupted' = interrupted
      /\ buf' = buf /\ got' = got /\ ctx' = ctx /\ quote' = quote
  BY DEF MapPartial, AtKey, Elsewhere
<1>2. /\ buf.q # <<>>
      /\ get \in [timed : BOOLEAN, istimeout : BOOLEAN, remap_cnt : Nat, evp : Event \cup {NotDigit}]
  BY <1>1, Looking
<1>3. Quiet
  BY <1>1, <1>2, AppliesIs DEF Quiet
<1>4. get' \in [timed : BOOLEAN, istimeout : BOOLEAN, remap_cnt : Nat, evp : Event \cup {NotDigit}]
  BY <1>1, <1>2
<1>5. TypeOK'
  BY <1>1, <1>4 DEF IInv, TypeOK
<1>6. BufferHolds' /\ Sorted(seqq)'
  BY <1>1 DEF IInv, BufferHolds
<1>7. Waited'
  <2>1. Quiet' /\ buf'.q # <<>>
    BY <1>1, <1>2, <1>3 DEF Quiet
  <2> QED BY <1>1, <2>1 DEF Waited
<1> QED BY <1>1, <1>5, <1>6, <1>7, Stutters DEF IInv

LEMMA TellsNotDigit ==
  ASSUME IInv, pc \in {"map", "nomap"}, TellNotDigit(buf), Elsewhere,
         UNCHANGED <<tty, sigint, interrupted>>
  PROVE  IInv' /\ StreamStep
<1>1. /\ BufOK(buf) /\ buf.q # <<>> /\ tty \in Seq(Keys) /\ sigint \in BOOLEAN
      /\ interrupted \in BOOLEAN
  BY Looking
<1>2. IInv' /\ buf' = buf /\ got' = NotDigit /\ UNCHANGED <<seqq, remap, ctx, quote>>
  BY <1>1, ReturnKeeps DEF TellNotDigit
<1>3. Stream!EndOfCount
  BY <1>1, <1>2 DEF Stream!EndOfCount, NotDigit
<1> QED BY <1>2, <1>3 DEF StreamStep, Stream!Next

LEMMA Delivers ==
  ASSUME IInv, Deliver
  PROVE  IInv' /\ StreamStep
<1>1. pc = "nomap" /\ Elsewhere /\ UNCHANGED <<tty, sigint, interrupted>>
  BY DEF Deliver
<1>2. CASE TellNotDigit(buf)
  BY <1>1, <1>2, TellsNotDigit
<1>3. CASE Return(QREM(buf, 1), get.evp)
  <2>1. /\ BufOK(buf) /\ buf.q \in Seq(Event) /\ buf.q # <<>> /\ 1 \in 0..Len(buf.q)
        /\ Rest(buf.q, 1) = Tail(buf.q)
        /\ tty \in Seq(Keys) /\ sigint \in BOOLEAN /\ interrupted \in BOOLEAN
        /\ get.evp \in Event \cup {NotDigit}
    BY <1>1, Looking
  <2>2. BufOK(QREM(buf, 1)) /\ QREM(buf, 1).q = Tail(buf.q)
    BY <2>1, Removed
  <2>3. /\ IInv' /\ buf' = QREM(buf, 1) /\ got' = get.evp
        /\ UNCHANGED <<seqq, remap, ctx, quote>>
    BY <1>1, <1>3, <2>1, <2>2, ReturnKeeps
  <2>4. UNCHANGED <<Entered(seqq), MapOf(ctx, quote), remap>> /\ buf'.q = Tail(buf.q)
    BY <2>2, <2>3, Applies
  <2>5. CASE get.evp = buf.q[1] /\ Quiet
    <3>1. Stream!Take
      BY <2>1, <2>3, <2>4, <2>5, Applies DEF Stream!Take, Entered, Quiet
    <3> QED BY <2>3, <3>1 DEF StreamStep, Stream!Next
  <2>6. CASE ~remap /\ "nomap" \in buf.q[1].flags
    <3>1. Stream!Misread
      BY <2>1, <2>3, <2>4, <2>6 DEF Stream!Misread, Entered
    <3> QED BY <2>3, <3>1 DEF StreamStep, Stream!Next
  <2> QED BY <1>1, <2>5, <2>6 DEF IInv, Waited
<1> QED BY <1>2, <1>3 DEF Deliver

\* The entry that is found, and what is in the queue of its keys.
LEMMA Matched ==
  ASSUME IInv, Match
  PROVE  LET e == seqq[Found.at]
             n == Len(e.input)
         IN  /\ pc = "map" /\ ~get.istimeout /\ Found.at \in DOMAIN seqq /\ e \in SEQ
             /\ e.input \in Seq(Keys) /\ e.input # <<>> /\ e.output \in Seq(Keys) /\ e.output # <<>>
             /\ n \in 0..Len(buf.q) /\ e \in Stream!Applying
             /\ BufOK(QREM(buf, n)) /\ QREM(buf, n).q = Rest(buf.q, n)
             /\ Rest(buf.q, n) \in Seq(Event)
<1> DEFINE e == seqq[Found.at]
           n == Len(e.input)
<1>1. /\ pc = "map" /\ buf.q[1].type = "key" /\ ~get.istimeout /\ "nomap" \notin buf.q[1].flags
      /\ Found.what = "match"
  BY DEF Match, AtKey, Mappable
<1>2. BufOK(buf) /\ buf.q \in Seq(Event) /\ buf.q # <<>> /\ Len(buf.q) \in Nat
  BY <1>1, Looking
<1>3. /\ Found.at \in DOMAIN seqq
      /\ e \in AppliesTo(buf.q, Entered(seqq), MapOf(ctx, quote))
      /\ SpelledBy(e, buf.q, MapOf(ctx, quote))
  BY <1>1, <1>2, AppliesIs
<1>4. e \in SEQ
  BY <1>3, SeqIs DEF IInv, TypeOK
<1> HIDE DEF e
<1>5. /\ e.input \in Seq(Keys) /\ e.input # <<>> /\ e.output \in Seq(Keys) /\ e.output # <<>>
  BY <1>4 DEF SEQ
<1>6. n \in Nat /\ n <= Len(buf.q)
  BY <1>3, <1>5, SeqIs DEF SpelledBy
<1> HIDE DEF n
<1>7. n \in 0..Len(buf.q)
  BY <1>2, <1>6
<1>8. BufOK(QREM(buf, n)) /\ QREM(buf, n).q = Rest(buf.q, n)
  BY <1>2, <1>7, Removed
<1>9. Rest(buf.q, n) \in Seq(Event)
  <2> DEFINE q == buf.q
  <2>1. q \in Seq(Event) /\ n \in 0..Len(q)
    BY <1>2, <1>7
  <2> HIDE DEF q
  <2>2. Rest(q, n) \in Seq(Event)
    BY <2>1, RestIs
  <2> QED BY <2>2 DEF q
<1> QED BY <1>1, <1>3, <1>4, <1>5, <1>7, <1>8, <1>9, Applies DEF e, n

LEMMA MapsInterrupted ==
  ASSUME IInv, MapInterrupted
  PROVE  IInv' /\ StreamStep
<1> DEFINE e == seqq[Found.at]
           n == Len(e.input)
           i == [type |-> "interrupt", c |-> Escape, flags |-> {}]
<1>1. /\ Match /\ sigint' = FALSE /\ interrupted' = TRUE /\ Return(QREM(buf, n), i)
      /\ Elsewhere /\ tty' = tty
  BY DEF MapInterrupted
<1>2. /\ e \in Stream!Applying /\ BufOK(QREM(buf, n)) /\ QREM(buf, n).q = Rest(buf.q, n)
  BY <1>1, Matched
<1>3. i \in Event
  BY KeyAssumption DEF Event, Flags
<1>4. tty' \in Seq(Keys)
  BY <1>1 DEF IInv, TypeOK
<1>5. /\ IInv' /\ buf' = QREM(buf, n) /\ got' = i /\ UNCHANGED <<seqq, remap, ctx, quote>>
  BY <1>1, <1>2, <1>3, <1>4, ReturnKeeps
<1>6. Stream!Abandon
  <2>1. got'.type = "interrupt"
    BY <1>5
  <2>2. Rest(buf.q, n) = Stream!Rest(buf.q, n)
    BY DEF Rest, Stream!Rest
  <2>3. buf'.q = Stream!Rest(buf.q, Len(e.input))
    BY <1>2, <1>5, <2>2
  <2> HIDE DEF e, n, i
  <2>4. UNCHANGED <<Entered(seqq), MapOf(ctx, quote), remap>>
    BY <1>5, Applies
  <2> QED BY <1>2, <2>1, <2>3, <2>4 DEF Stream!Abandon, Entered
<1> QED BY <1>5, <1>6 DEF StreamStep, Stream!Next

\* What takes the place of the keys of an entry.
LEMMA Replaces ==
  ASSUME IInv, NEW m \in Stream!Applying, buf'.q = Stream!Replaced(m) \o Rest(buf.q, Len(m.input)),
         UNCHANGED <<got, seqq, remap, ctx, quote>>
  PROVE  StreamStep
<1>1. buf'.q = Stream!Replaced(m) \o Stream!Rest(buf.q, Len(m.input))
  BY DEF Rest, Stream!Rest
<1>2. Stream!Same
  BY Applies DEF Stream!Same, Entered
<1>3. Stream!Expand \/ Stream!Swallow
  BY <1>1, <1>2 DEF Stream!Expand, Stream!Swallow
<1> QED BY <1>3 DEF StreamStep, Stream!Next

LEMMA MapsOnce ==
  ASSUME IInv, MapOnce
  PROVE  IInv' /\ StreamStep
<1> DEFINE e == seqq[Found.at]
           n == Len(e.input)
           s == AsEvents(e.output, {"mapped", "nomap"})
           b == v_event_push(QREM(buf, n), s)
<1>1. /\ Match /\ ~remap /\ buf' = b /\ pc' = "nomap"
      /\ seqq' = seqq /\ remap' = remap /\ word' = word /\ abcnt' = abcnt /\ used' = used
      /\ tty' = tty /\ sigint' = sigint /\ interrupted' = interrupted
      /\ got' = got /\ ctx' = ctx /\ quote' = quote
  BY DEF MapOnce, Elsewhere
<1>2. PICK x \in StaleEvents(buf, b) : get' = [get EXCEPT !.evp = x]
  BY DEF MapOnce
<1>3. /\ pc = "map" /\ e \in Stream!Applying
      /\ e.output \in Seq(Keys) /\ e.output # <<>>
      /\ BufOK(QREM(buf, n)) /\ QREM(buf, n).q = Rest(buf.q, n) /\ Rest(buf.q, n) \in Seq(Event)
  BY <1>1, Matched
<1>4. buf.q[1] \in Event /\ get \in [timed : BOOLEAN, istimeout : BOOLEAN, remap_cnt : Nat,
                                     evp : Event \cup {NotDigit}]
  BY <1>3, Looking
<1> HIDE DEF e, n
<1>5. {"mapped", "nomap"} \in SUBSET Flags
  BY DEF Flags
<1>6. s \in Seq(Event) /\ s # <<>> /\ s[1].flags = {"mapped", "nomap"}
  BY <1>3, <1>5, EventsAre
<1> HIDE DEF s
<1>7. BufOK(b) /\ b.q = s \o Rest(buf.q, n)
  BY <1>3, <1>6, Pushed
<1> HIDE DEF b
<1>8. b.q # <<>> /\ b.q[1] = s[1]
  BY <1>3, <1>6, <1>7, ConcatIs
<1>9. x \in Event
  <2>1. \A k \in Keys : AsEvents(<<k>>, {})[1] \in Event
    BY DEF AsEvents, Event
  <2>2. \A i \in DOMAIN b.q : b.q[i] \in Event
    <3>1. b.q \in Seq(Event)
      BY <1>7, BufferIs DEF BufOK
    <3> QED BY <3>1, SeqIs
  <2> QED BY <1>2, <1>4, <2>1, <2>2 DEF StaleEvents
<1>10. get' \in [timed : BOOLEAN, istimeout : BOOLEAN, remap_cnt : Nat, evp : Event \cup {NotDigit}]
  BY <1>2, <1>4, <1>9
<1>11. TypeOK'
  BY <1>1, <1>7, <1>10 DEF IInv, TypeOK, BufOK
<1>12. BufferHolds' /\ Sorted(seqq)' /\ Waited'
  BY <1>1, <1>6, <1>7, <1>8 DEF IInv, BufferHolds, BufOK, Waited
<1>13. StreamStep
  <2>1. Stream!Replaced(e) = s
    BY <1>1, SameOperators DEF Stream!Replaced, s
  <2>2. buf'.q = Stream!Replaced(e) \o Rest(buf.q, Len(e.input))
    BY <1>1, <1>7, <2>1 DEF n
  <2> QED BY <1>1, <1>3, <2>2, Replaces
<1> QED BY <1>11, <1>12, <1>13 DEF IInv

LEMMA MapsAgain ==
  ASSUME IInv, MapRemap
  PROVE  IInv' /\ StreamStep
<1> DEFINE e == seqq[Found.at]
           n == Len(e.input)
           r == Rest(buf.q, n)
<1>1. /\ Match /\ remap /\ buf' = Expansion(e)
      /\ pc' = (IF InitNomap(e) THEN "nomap" ELSE "map")
      /\ get' = [get EXCEPT !.remap_cnt = Count(@), !.evp = IF InitNomap(e) THEN buf'.q[1] ELSE @]
      /\ seqq' = seqq /\ remap' = remap /\ word' = word /\ abcnt' = abcnt /\ used' = used
      /\ tty' = tty /\ sigint' = sigint /\ interrupted' = interrupted
      /\ got' = got /\ ctx' = ctx /\ quote' = quote
  BY DEF MapRemap, Elsewhere
<1>2. /\ pc = "map" /\ ~get.istimeout /\ e \in Stream!Applying
      /\ e.input \in Seq(Keys) /\ e.input # <<>> /\ e.output \in Seq(Keys) /\ e.output # <<>>
      /\ BufOK(QREM(buf, n)) /\ QREM(buf, n).q = r /\ r \in Seq(Event)
  BY <1>1, Matched
<1>3. get \in [timed : BOOLEAN, istimeout : BOOLEAN, remap_cnt : Nat, evp : Event \cup {NotDigit}]
  BY <1>2, Looking
<1>4. Count(get.remap_cnt) \in Nat
  BY <1>3, KeyAssumption DEF Count
<1> HIDE DEF e, n, r
<1>5. InitNomap(e) <=> IsPrefix(e.input, e.output)
  <2>1. e.input = SubSeq(e.input, 1, Len(e.input))
    BY <1>2, SubSeqFull
  <2> QED BY <2>1 DEF InitNomap, IsPrefix
<1>6. /\ BufOK(buf') /\ buf'.q = Stream!Replaced(e) \o r /\ buf'.q # <<>>
      /\ InitNomap(e) => buf'.q[1].flags = {"mapped", "nomap"}
  <2>1. CASE InitNomap(e)
    <3> DEFINE i == AsEvents(e.input, {"mapped", "nomap"})
               o == AsEvents(Rest(e.output, n), {"mapped"})
    <3>1. n \in 0..Len(e.output)
      <4>1. n \in Nat /\ n <= Len(e.output) /\ Len(e.output) \in Nat
        BY <1>2, <2>1, SeqIs DEF InitNomap, n
      <4> QED BY <4>1
    <3>2. {"mapped", "nomap"} \in SUBSET Flags /\ {"mapped"} \in SUBSET Flags
      BY DEF Flags
    <3>3. o \in Seq(Event)
      <4>1. Rest(e.output, n) \in Seq(Keys)
        BY <1>2, <3>1, RestIs
      <4> QED BY <3>2, <4>1, EventsAre
    <3>4. i \in Seq(Event) /\ i # <<>> /\ i[1].flags = {"mapped", "nomap"}
      BY <1>2, <3>2, EventsAre
    <3>5. Stream!Replaced(e) = i \o o
      <4>1. Stream!IsPrefix(e.input, e.output)
        BY <1>5, <2>1, SameOperators
      <4>2. /\ Stream!Rest(e.output, n) = Rest(e.output, n)
            /\ \A f : Stream!KeyEvents(e.input, f) = AsEvents(e.input, f)
            /\ \A f : Stream!KeyEvents(Rest(e.output, n), f) = AsEvents(Rest(e.output, n), f)
        BY SameOperators
      <4> QED BY <1>1, <4>1, <4>2 DEF Stream!Replaced, n
    <3>6. buf' = v_event_push(v_event_push(QREM(buf, n), o), i)
      BY <1>1, <2>1 DEF Expansion, n
    <3> HIDE DEF i, o
    <3> DEFINE c == v_event_push(QREM(buf, n), o)
    <3>7. BufOK(c) /\ c.q = o \o r
      BY <1>2, <3>3, Pushed
    <3> HIDE DEF c
    <3>8. BufOK(buf') /\ buf'.q = i \o (o \o r)
      BY <3>4, <3>6, <3>7, Pushed DEF c
    <3>9. i \o (o \o r) = (i \o o) \o r
      <4>1. i \in Seq(Event) /\ o \in Seq(Event) /\ r \in Seq(Event)
        BY <1>2, <3>3, <3>4
      <4> QED BY <4>1, ConcatAssociative
    <3>10. o \o r \in Seq(Event)
      BY <1>2, <3>3, ConcatProperties
    <3>11. i \o (o \o r) # <<>> /\ (i \o (o \o r))[1] = i[1]
      BY <3>4, <3>10, ConcatIs
    <3> QED BY <3>4, <3>5, <3>8, <3>9, <3>11
  <2>2. CASE ~InitNomap(e)
    <3> DEFINE o == AsEvents(e.output, {"mapped"})
    <3>1. o \in Seq(Event) /\ o # <<>>
      BY <1>2, EventsAre DEF Flags
    <3>2. Stream!Replaced(e) = o
      <4>1. ~Stream!IsPrefix(e.input, e.output)
        BY <1>5, <2>2, SameOperators
      <4>2. \A f : Stream!KeyEvents(e.output, f) = AsEvents(e.output, f)
        BY SameOperators
      <4> QED BY <1>1, <4>1, <4>2 DEF Stream!Replaced
    <3>3. buf' = v_event_push(QREM(buf, n), o)
      BY <1>1, <2>2 DEF Expansion, n
    <3> HIDE DEF o
    <3>4. BufOK(buf') /\ buf'.q = o \o r
      BY <1>2, <3>1, <3>3, Pushed
    <3>5. o \o r # <<>>
      BY <1>2, <3>1, ConcatIs
    <3> QED BY <2>2, <3>2, <3>4, <3>5
  <2> QED BY <2>1, <2>2
<1>7. buf'.q[1] \in Event
  <2>1. buf'.q \in Seq(Event)
    BY <1>6, BufferIs DEF BufOK
  <2>2. 1 \in 1..Len(buf'.q)
    BY <1>6, <2>1, SeqIs
  <2> QED BY <2>1, <2>2, SeqIs
<1>8. /\ get' \in [timed : BOOLEAN, istimeout : BOOLEAN, remap_cnt : Nat, evp : Event \cup {NotDigit}]
      /\ ~get'.istimeout
      /\ InitNomap(e) => get'.evp = buf'.q[1]
  <2> DEFINE y == IF InitNomap(e) THEN buf'.q[1] ELSE get.evp
             z == Count(get.remap_cnt)
  <2>1. y \in Event \cup {NotDigit} /\ z \in Nat
    BY <1>3, <1>4, <1>7
  <2>2. get' = [get EXCEPT !.remap_cnt = z, !.evp = y]
    BY <1>1
  <2>3. InitNomap(e) => y = buf'.q[1]
    OBVIOUS
  <2> HIDE DEF y, z
  <2>4. get' \in [timed : BOOLEAN, istimeout : BOOLEAN, remap_cnt : Nat, evp : Event \cup {NotDigit}]
        /\ get'.istimeout = get.istimeout /\ get'.evp = y
    BY <1>3, <2>1, <2>2
  <2> QED BY <1>2, <2>3, <2>4
<1>9. TypeOK'
  <2>1. buf' \in Buffer /\ pc' \in {"map", "nomap"}
    BY <1>1, <1>6 DEF BufOK
  <2> QED BY <1>1, <1>8, <2>1 DEF IInv, TypeOK
<1>10. BufferHolds' /\ Sorted(seqq)'
  BY <1>1, <1>6 DEF IInv, BufferHolds, BufOK
<1>11. Waited'
  <2>1. CASE InitNomap(e)
    <3>1. pc' = "nomap" /\ get'.evp = buf'.q[1] /\ "nomap" \in buf'.q[1].flags
      BY <1>1, <1>6, <1>8, <2>1
    <3>2. Quiet'
      BY <3>1 DEF Quiet, AppliesTo
    <3> QED BY <3>1, <3>2 DEF Waited
  <2>2. CASE ~InitNomap(e)
    BY <1>1, <1>8, <2>2 DEF Waited
  <2> QED BY <2>1, <2>2
<1>12. StreamStep
  BY <1>1, <1>2, <1>6, Replaces DEF r, n
<1> QED BY <1>9, <1>10, <1>11, <1>12 DEF IInv

-----------------------------------------------------------------------------
(* The readers                                                             *)

LEMMA ReaderNow ==
  ASSUME IInv
  PROVE  /\ BufOK(buf) /\ buf.q \in Seq(Event) /\ tty \in Seq(Keys) /\ sigint \in BOOLEAN
         /\ interrupted \in BOOLEAN /\ word \in WordType /\ abcnt \in Nat /\ used \in Nat
         /\ seqq \in Seq(SEQ) /\ ctx \in Reading /\ quote \in BOOLEAN
         /\ got \in Event \cup {NotDigit}
BY BufferNow DEF IInv, TypeOK, WordType, Buffer

LEMMA NoWordIs == NoWord \in WordType
BY DEF NoWord, WordType

\* A reader that takes the next event and touches no map.
LEMMA ReadsOn ==
  ASSUME IInv, NEW c \in Reading, NEW k \in BOOLEAN, Get(buf, c, k), Outside,
         sigint' \in BOOLEAN, interrupted' \in BOOLEAN, word' \in WordType, abcnt' \in Nat
  PROVE  IInv' /\ StreamStep
<1>1. BufOK(buf) /\ UNCHANGED <<tty, seqq, remap, used>> /\ tty \in Seq(Keys) /\ used \in Nat
  BY ReaderNow DEF Outside
<1>2. IInv' /\ got' = NotDigit /\ buf' = buf /\ remap' = remap
  BY <1>1, GetKeeps
<1> QED BY <1>2, Turns

LEMMA ReadsAfterFlush ==
  ASSUME IInv, NEW c \in Reading, NEW k \in BOOLEAN, NEW flag \in {"mapped", "abbreviated"},
         Get(v_event_flush(buf, flag), c, k), Outside,
         sigint' \in BOOLEAN, interrupted' \in BOOLEAN, word' \in WordType, abcnt' \in Nat
  PROVE  IInv' /\ StreamStep
<1>1. BufOK(buf) /\ UNCHANGED <<tty, seqq, remap, used>> /\ tty \in Seq(Keys) /\ used \in Nat
  BY ReaderNow DEF Outside
<1>2. BufOK(v_event_flush(buf, flag))
  BY <1>1, Flushed
<1>3. IInv' /\ got' = NotDigit /\ buf' = v_event_flush(buf, flag) /\ remap' = remap
  BY <1>1, <1>2, GetKeeps
<1> QED BY <1>1, <1>3, Discards

LEMMA ReadsAfterPush ==
  ASSUME IInv, NEW c \in Reading, NEW k \in BOOLEAN, NEW s \in Seq(Event),
         \A i \in 1..Len(s) : s[i].type = "key",
         NEW b, BufOK(b), b.q = s \o buf.q, Get(b, c, k), Outside,
         sigint' \in BOOLEAN, interrupted' \in BOOLEAN, word' \in WordType, abcnt' \in Nat
  PROVE  IInv' /\ StreamStep
<1>1. /\ buf.q \in Seq(Event) /\ UNCHANGED <<tty, seqq, remap, used>> /\ tty \in Seq(Keys)
      /\ used \in Nat
  BY ReaderNow DEF Outside
<1>2. IInv' /\ got' = NotDigit /\ buf' = b /\ remap' = remap
  BY <1>1, GetKeeps
<1> QED BY <1>1, <1>2, PushesBack

LEMMA Readings ==
  /\ "command" \in Reading /\ "motion" \in Reading /\ "count" \in Reading
  /\ "plain" \in Reading /\ "input" \in Reading /\ "match" \in Reading
BY DEF Reading

LEMMA EndsCommand ==
  ASSUME IInv, NEW failed \in BOOLEAN, EndCommand(buf, failed)
  PROVE  IInv' /\ StreamStep
<1>1. /\ Get(IF failed \/ interrupted \/ sigint THEN v_event_flush(buf, "mapped") ELSE buf,
             "command", FALSE)
      /\ Outside /\ word' = NoWord /\ abcnt' = 0 /\ interrupted' = FALSE
      /\ sigint' = IF interrupted THEN sigint ELSE FALSE
  BY DEF EndCommand
<1>2. sigint' \in BOOLEAN /\ interrupted' \in BOOLEAN /\ word' \in WordType /\ abcnt' \in Nat
  BY <1>1, ReaderNow, NoWordIs
<1>3. CASE failed \/ interrupted \/ sigint
  BY <1>1, <1>2, <1>3, Readings, ReadsAfterFlush
<1>4. CASE ~(failed \/ interrupted \/ sigint)
  BY <1>1, <1>2, <1>4, Readings, ReadsOn
<1> QED BY <1>3, <1>4

\* The keys of an @ buffer were not mapped, so the flush takes none of them.
LEMMA Executes ==
  ASSUME IInv, v_at
  PROVE  IInv' /\ StreamStep
<1>1. PICK p \in Pushes : EndCommand(v_event_push(buf, AsEvents(p, {})), FALSE)
  BY DEF v_at
<1> DEFINE s == AsEvents(p, {})
           b == v_event_push(buf, s)
           f == v_event_flush(b, "mapped")
<1>2. p \in Seq(Keys) /\ p # <<>>
  BY KeyAssumption
<1>3. /\ s \in Seq(Event) /\ s # <<>> /\ s[1].flags = {} /\ Len(s) = Len(p)
      /\ \A i \in 1..Len(p) : s[i].type = "key"
  <2>1. {} \in SUBSET Flags
    OBVIOUS
  <2> QED BY <1>2, <2>1, EventsAre
<1>4. /\ Get(IF interrupted \/ sigint THEN f ELSE b, "command", FALSE)
      /\ Outside /\ word' = NoWord /\ abcnt' = 0 /\ interrupted' = FALSE
      /\ sigint' = IF interrupted THEN sigint ELSE FALSE
  BY <1>1 DEF EndCommand
<1> HIDE DEF s
<1>5. BufOK(buf) /\ buf.q \in Seq(Event)
  BY ReaderNow
<1>6. BufOK(b) /\ b.q = s \o buf.q
  BY <1>3, <1>5, Pushed
<1> HIDE DEF b
<1>7. b.q[1].flags = {} /\ b.q \in Seq(Event) /\ b.q # <<>> /\ Len(b.q) \in Nat
  <2>1. /\ s \o buf.q \in Seq(Event) /\ s \o buf.q # <<>> /\ (s \o buf.q)[1] = s[1]
    BY <1>3, <1>5, ConcatIs
  <2> QED BY <1>3, <1>6, <2>1, SeqIs
<1>8. BufOK(f) /\ f.q = b.q
  <2>1. PICK n \in 0..Len(b.q) : (\A i \in 1..n : "mapped" \in b.q[i].flags) /\ f.q = Rest(b.q, n)
    BY <1>6, Flushed
  <2>2. n = 0
    <3>1. n # 0 => 1 \in 1..n
      BY <1>7
    <3> QED BY <1>7, <2>1, <3>1
  <2>3. f.q = b.q
    BY <1>7, <2>1, <2>2, RestIs
  <2> QED BY <1>6, <2>3, Flushed
<1> HIDE DEF f
<1>9. PICK x : (x = f \/ x = b) /\ Get(x, "command", FALSE)
  BY <1>4
<1>10. BufOK(x) /\ x.q = s \o buf.q
  BY <1>6, <1>8, <1>9
<1>11. sigint' \in BOOLEAN /\ interrupted' \in BOOLEAN /\ word' \in WordType /\ abcnt' \in Nat
  BY <1>4, ReaderNow, NoWordIs
<1> QED BY <1>3, <1>4, <1>9, <1>10, <1>11, Readings, ReadsAfterPush

LEMMA CommandSteps ==
  ASSUME IInv, \/ CommandEnds(FALSE) \/ CommandEnds(TRUE) \/ CommandInterrupted \/ CommandBroken
               \/ CommandGoesOn \/ CountStarts \/ CountGoesOn \/ CountEnds \/ QuoteCommand
  PROVE  IInv' /\ StreamStep
<1>1. /\ sigint \in BOOLEAN /\ interrupted \in BOOLEAN /\ word \in WordType /\ abcnt \in Nat
      /\ ctx \in Reading
  BY ReaderNow
<1>2. CASE CommandEnds(FALSE) \/ CommandEnds(TRUE) \/ CommandBroken
  <2>1. EndCommand(buf, FALSE) \/ EndCommand(buf, TRUE)
    BY <1>2 DEF CommandEnds, CommandBroken
  <2> QED BY <2>1, EndsCommand
<1>3. CASE CommandInterrupted
  <2>1. /\ Get(v_event_flush(buf, "mapped"), "command", FALSE) /\ Outside
        /\ sigint' \in BOOLEAN /\ interrupted' \in BOOLEAN /\ word' \in WordType /\ abcnt' \in Nat
    BY <1>1, <1>3, NoWordIs DEF CommandInterrupted
  <2> QED BY <2>1, Readings, ReadsAfterFlush
<1>4. CASE CommandGoesOn \/ CountStarts \/ CountGoesOn \/ CountEnds \/ QuoteCommand
  <2>1. /\ InText /\ UNCHANGED word
        /\ \E c \in {"motion", "plain", "count", "command", ctx}, k \in BOOLEAN : Get(buf, c, k)
    BY <1>4 DEF CommandGoesOn, CountStarts, CountGoesOn, CountEnds, QuoteCommand
  <2>2. PICK c \in Reading, k \in BOOLEAN : Get(buf, c, k)
    BY <1>1, <2>1, Readings
  <2>3. /\ Outside /\ sigint' \in BOOLEAN /\ interrupted' \in BOOLEAN /\ word' \in WordType
        /\ abcnt' \in Nat
    BY <1>1, <2>1 DEF InText
  <2> QED BY <2>2, <2>3, ReadsOn
<1> QED BY <1>2, <1>3, <1>4

LEMMA Aliases ==
  ASSUME IInv, Alias
  PROVE  IInv' /\ StreamStep
<1>1. PICK k \in Keys : Get(v_event_push(buf, AsEvents(<<k>>, {"nomap", "quoted"})), "motion", FALSE)
  BY DEF Alias
<1>2. InText /\ word' = word
  BY DEF Alias
<1> DEFINE s == AsEvents(<<k>>, {"nomap", "quoted"})
<1>3. s \in Seq(Event) /\ Len(s) = 1 /\ \A i \in 1..1 : s[i].type = "key"
  <2> DEFINE t == <<k>>
  <2>1. t \in Seq(Keys) /\ Len(t) = 1 /\ {"nomap", "quoted"} \in SUBSET Flags
    BY DEF Flags
  <2> HIDE DEF t
  <2>2. AsEvents(t, {"nomap", "quoted"}) = s
    BY DEF t
  <2> HIDE DEF s
  <2>3. s \in Seq(Event) /\ Len(s) = Len(t) /\ \A i \in 1..Len(t) : s[i].type = "key"
    BY <2>1, <2>2, EventsAre
  <2> QED BY <2>1, <2>3
<1> HIDE DEF s
<1>4. BufOK(v_event_push(buf, s)) /\ v_event_push(buf, s).q = s \o buf.q
  BY <1>3, ReaderNow, Pushed
<1>5. /\ Outside /\ sigint' \in BOOLEAN /\ interrupted' \in BOOLEAN /\ word' \in WordType
      /\ abcnt' \in Nat
  BY <1>2, ReaderNow DEF InText
<1>6. Get(v_event_push(buf, s), "motion", FALSE)
  BY <1>1 DEF s
<1> QED BY <1>3, <1>4, <1>5, <1>6, Readings, ReadsAfterPush

LEMMA MapsChange ==
  ASSUME IInv, ex_map
  PROVE  IInv' /\ StreamStep
<1>1. /\ pc = "ready"
      /\ UNCHANGED <<tty, sigint, interrupted, remap, buf, pc, get, got, ctx, quote, word, abcnt, used>>
  BY DEF ex_map, Has
<1>2. PICK e \in Entries : seqq' = seq_set(seqq, e) \/ seqq' = seq_delete(seqq, e)
  BY DEF ex_map
<1>3. e \in SEQ
  BY KeyAssumption
<1>4. seqq \in Seq(SEQ) /\ Sorted(seqq)
  BY DEF IInv, TypeOK
<1>5. seqq' \in Seq(SEQ) /\ Sorted(seqq')
  BY <1>2, <1>3, <1>4, SetKeeps, DeleteKeeps
<1>6. TypeOK'
  BY <1>1, <1>5 DEF IInv, TypeOK
<1>7. BufferHolds' /\ Waited' /\ Sorted(seqq)'
  BY <1>1, <1>5 DEF IInv, BufferHolds, Waited
<1>8. buf'.q = buf.q /\ remap' = remap /\ got' = got
  BY <1>1
<1> QED BY <1>6, <1>7, <1>8, Turns DEF IInv

-----------------------------------------------------------------------------
(* Text input                                                              *)

LEMMA TextKeyIs ==
  IInv => TextKey.c \in Keys /\ abcntNext \in Nat
<1> SUFFICES ASSUME IInv PROVE TextKey.c \in Keys /\ abcntNext \in Nat
  OBVIOUS
<1>1. got \in Event \cup {NotDigit} /\ abcnt \in Nat
  BY ReaderNow
<1>2. CASE got.type = "key"
  <2>1. TextKey = got /\ got \in Event
    BY <1>1, <1>2 DEF TextKey, NotDigit
  <2> QED BY <1>1, <2>1 DEF Event, abcntNext
<1>3. CASE got.type # "key"
  <2>1. TextKey = [type |-> "key", c |-> Escape, flags |-> {}]
    BY <1>3 DEF TextKey, AsEvents
  <2> QED BY <1>1, <2>1, KeyAssumption DEF abcntNext
<1> QED BY <1>2, <1>3

LEMMA Inserts ==
  ASSUME NEW w \in WordType, NEW c \in Keys, NEW in \in BOOLEAN
  PROVE  Insert(w, c) \in WordType /\ [Insert(w, c) EXCEPT !.inword = in] \in WordType
<1> DEFINE t == Append(w.text, c)
           n == Larger(0, Len(t) - (MaxWord + 1))
<1>1. t \in Seq(Keys) /\ Len(t) \in Nat
  <2>1. w.text \in Seq(Keys)
    BY DEF WordType
  <2>2. t \in Seq(Keys)
    BY <2>1
  <2> QED BY <2>2, SeqIs
<1> HIDE DEF t
<1>2. n \in 0..Len(t)
  BY <1>1 DEF Larger, MaxWord
<1> HIDE DEF n
<1>3. Rest(t, n) \in Seq(Keys)
  BY <1>1, <1>2, RestIs
<1>4. PICK x \in Seq(Keys) : Insert(w, c) = [w EXCEPT !.text = x]
  <2>1. Insert(w, c) = IF c \in Words THEN [w EXCEPT !.text = Rest(t, n)]
                                      ELSE [w EXCEPT !.text = <<>>]
    BY DEF Insert, t, n
  <2>2. <<>> \in Seq(Keys)
    OBVIOUS
  <2> QED BY <1>3, <2>1, <2>2
<1>5. Insert(w, c) \in WordType
  BY <1>4 DEF WordType
<1> QED BY <1>5 DEF WordType

\* An abbreviation that is found is one of the list.
LEMMA Abbreviation ==
  ASSUME IInv, Abbreviates
  PROVE  seqq[WordFound.at].output \in Seq(Keys)
<1>1. seqq \in Seq(SEQ) /\ Sorted(seqq) /\ word \in WordType
  BY ReaderNow DEF IInv
<1>2. word.text \in Input
  BY <1>1 DEF Abbreviates, WordType, Input
<1>3. WordFound.what = "match"
  BY DEF Abbreviates
<1>4. WordFound.at \in 1..Len(seqq)
  <2> DEFINE s == word.text
  <2>1. s \in Input /\ WordFound = seq_find(seqq, s, "abbrev", FALSE)
    BY <1>2 DEF WordFound
  <2> HIDE DEF s
  <2>2. \/ seq_find(seqq, s, "abbrev", FALSE).at \in 1..Len(seqq)
        \/ seq_find(seqq, s, "abbrev", FALSE).what = "stop"
    BY <1>1, <2>1, FindsPlace
  <2> QED BY <1>3, <2>1, <2>2
<1>5. seqq[WordFound.at] \in SEQ
  BY <1>1, <1>4, SeqIs
<1> QED BY <1>5 DEF SEQ

LEMMA Expands ==
  ASSUME IInv, TextAbbreviation
  PROVE  IInv' /\ StreamStep
<1> DEFINE o == AsEvents(seqq[WordFound.at].output, {"abbreviated"})
           k == AsEvents(<<TextKey.c>>, {"abbreviated"})
           c == v_event_push(buf, k)
           b == v_event_push(c, o)
<1>1. /\ Get(b, "input", FALSE) /\ word' = [word EXCEPT !.text = <<>>] /\ abcnt' = abcntNext
      /\ Outside /\ UNCHANGED <<sigint, interrupted>> /\ Abbreviates
  BY DEF TextAbbreviation
<1>2. {"abbreviated"} \in SUBSET Flags
  BY DEF Flags
<1>3. o \in Seq(Event) /\ \A i \in 1..Len(o) : o[i].type = "key"
  <2> DEFINE t == seqq[WordFound.at].output
  <2>1. t \in Seq(Keys)
    BY <1>1, Abbreviation
  <2>2. o = AsEvents(t, {"abbreviated"})
    OBVIOUS
  <2> HIDE DEF t, o
  <2> QED BY <1>2, <2>1, <2>2, EventsAre
<1>4. k \in Seq(Event) /\ \A i \in 1..Len(k) : k[i].type = "key"
  <2> DEFINE t == <<TextKey.c>>
  <2>1. t \in Seq(Keys)
    BY TextKeyIs
  <2>2. k = AsEvents(t, {"abbreviated"})
    OBVIOUS
  <2> HIDE DEF t, k
  <2> QED BY <1>2, <2>1, <2>2, EventsAre
<1> HIDE DEF o, k
<1>5. BufOK(buf) /\ buf.q \in Seq(Event)
  BY ReaderNow
<1>6. BufOK(c) /\ c.q = k \o buf.q
  BY <1>4, <1>5, Pushed
<1> HIDE DEF c
<1>7. BufOK(b) /\ b.q = o \o (k \o buf.q)
  BY <1>3, <1>6, Pushed
<1> HIDE DEF b
<1>8. b.q = (o \o k) \o buf.q
  <2> DEFINE q == buf.q
  <2>1. q \in Seq(Event) /\ b.q = o \o (k \o q)
    BY <1>5, <1>7
  <2> HIDE DEF q
  <2>2. (o \o k) \o q = o \o (k \o q)
    <3>1. o \in Seq(Event) /\ k \in Seq(Event) /\ q \in Seq(Event)
      BY <1>3, <1>4, <2>1
    <3> QED BY <3>1, ConcatAssociative
  <2> QED BY <2>1, <2>2 DEF q
<1>9. o \o k \in Seq(Event) /\ \A i \in 1..Len(o \o k) : (o \o k)[i].type = "key"
  <2>1. /\ o \o k \in Seq(Event) /\ Len(o \o k) = Len(o) + Len(k)
        /\ \A i \in 1..(Len(o) + Len(k)) : (o \o k)[i] = IF i <= Len(o) THEN o[i] ELSE k[i - Len(o)]
    BY <1>3, <1>4, ConcatProperties
  <2>2. Len(o) \in Nat /\ Len(k) \in Nat
    BY <1>3, <1>4, SeqIs
  <2>3. ASSUME NEW i \in 1..(Len(o) + Len(k))
        PROVE  (o \o k)[i].type = "key"
    <3>1. CASE i <= Len(o)
      <4>1. i \in 1..Len(o)
        BY <2>2, <3>1
      <4> QED BY <1>3, <2>1, <3>1, <4>1
    <3>2. CASE ~(i <= Len(o))
      <4>1. i - Len(o) \in 1..Len(k)
        BY <2>2, <3>2
      <4> QED BY <1>4, <2>1, <3>2, <4>1
    <3> QED BY <3>1, <3>2
  <2> QED BY <2>1, <2>3
<1>10. /\ sigint' \in BOOLEAN /\ interrupted' \in BOOLEAN /\ word' \in WordType /\ abcnt' \in Nat
  <2>1. word' \in WordType
    <3>1. <<>> \in Seq(Keys) /\ word \in WordType
      BY ReaderNow
    <3> QED BY <1>1, <3>1 DEF WordType
  <2> QED BY <1>1, <2>1, ReaderNow, TextKeyIs
<1> QED BY <1>1, <1>7, <1>8, <1>9, <1>10, Readings, ReadsAfterPush

LEMMA TextSteps ==
  ASSUME IInv, \/ TextStarts \/ TextOverflow \/ TextQuoted \/ TextGoesOn \/ TextQuotes
               \/ TextEnds \/ TextShowsMatch \/ MatchShown
  PROVE  IInv' /\ StreamStep
<1>1. /\ sigint \in BOOLEAN /\ interrupted \in BOOLEAN /\ word \in WordType /\ abcnt \in Nat
      /\ quote \in BOOLEAN /\ TextKey.c \in Keys /\ abcntNext \in Nat
  BY ReaderNow, TextKeyIs
<1>2. CASE TextEnds
  BY <1>2, EndsCommand DEF TextEnds
<1>3. CASE TextOverflow
  <2>1. /\ Get(v_event_flush(buf, "abbreviated"), "input", quote) /\ Outside
        /\ sigint' \in BOOLEAN /\ interrupted' \in BOOLEAN /\ word' \in WordType /\ abcnt' \in Nat
    BY <1>1, <1>3 DEF TextOverflow
  <2> QED BY <1>1, <2>1, Readings, ReadsAfterFlush
<1>4. CASE TextStarts \/ TextQuoted \/ TextGoesOn \/ TextQuotes \/ TextShowsMatch \/ MatchShown
  <2>1. PICK x \in Reading, k \in BOOLEAN : Get(buf, x, k)
    BY <1>4, Readings DEF TextStarts, TextQuoted, TextGoesOn, TextQuotes, TextShowsMatch, MatchShown
  <2>2. /\ Outside /\ sigint' = sigint /\ interrupted' = interrupted
        /\ abcnt' = abcnt \/ abcnt' = abcntNext
    BY <1>4 DEF TextStarts, TextQuoted, TextGoesOn, TextQuotes, TextShowsMatch, MatchShown, InText
  <2>3. word' \in WordType
    <3>1. \/ word' = NoWord
          \/ word' = Insert(word, TextKey.c)
          \/ word' = [Insert(word, TextKey.c) EXCEPT !.inword = TextKey.c \in Words]
          \/ word' = word
      BY <1>4 DEF TextStarts, TextQuoted, TextGoesOn, TextQuotes, TextShowsMatch, MatchShown
    <3> DEFINE c == TextKey.c
               i == c \in Words
    <3>2. c \in Keys /\ i \in BOOLEAN /\ word \in WordType
      BY <1>1
    <3> HIDE DEF c, i
    <3>3. Insert(word, c) \in WordType /\ [Insert(word, c) EXCEPT !.inword = i] \in WordType
      BY <3>2, Inserts
    <3>4. NoWord \in WordType
      BY NoWordIs
    <3> QED BY <3>1, <3>2, <3>3, <3>4 DEF c, i
  <2> QED BY <1>1, <2>1, <2>2, <2>3, ReadsOn
<1> QED BY <1>2, <1>3, <1>4

-----------------------------------------------------------------------------
(* The user, and all the steps together                                    *)

LEMMA Typed ==
  ASSUME IInv, Type \/ Interrupt
  PROVE  IInv' /\ StreamStep
<1>1. UNCHANGED <<interrupted, seqq, remap, buf, pc, get, got, ctx, quote, word, abcnt>>
  BY DEF Type, Interrupt, World
<1>2. tty' \in Seq(Keys) /\ sigint' \in BOOLEAN /\ used' \in Nat
  <2>1. tty \in Seq(Keys) /\ sigint \in BOOLEAN /\ used \in Nat
    BY ReaderNow
  <2>2. CASE Type
    <3>1. PICK k \in Keys : tty' = Append(tty, k)
      BY <2>2 DEF Type
    <3>2. used' = used + 1 /\ sigint' = sigint
      BY <2>2 DEF Type
    <3> QED BY <2>1, <3>1, <3>2
  <2>3. CASE Interrupt
    <3>1. (tty' = tty \/ tty' = <<>>) /\ sigint' = TRUE /\ used' = used
      BY <2>3 DEF Interrupt
    <3>2. <<>> \in Seq(Keys)
      OBVIOUS
    <3> QED BY <2>1, <3>1, <3>2
  <2> QED BY <2>2, <2>3
<1>3. TypeOK'
  BY <1>1, <1>2 DEF IInv, TypeOK
<1>4. Quiet' <=> Quiet
  BY <1>1 DEF Quiet
<1>5. BufferHolds' /\ Sorted(seqq)' /\ Waited'
  BY <1>1, <1>4 DEF IInv, BufferHolds, Waited
<1> QED BY <1>1, <1>3, <1>5, Stutters DEF IInv

LEMMA Starts == Init => IInv /\ Stream!Init
<1> SUFFICES ASSUME Init PROVE IInv /\ Stream!Init
  OBVIOUS
<1>1. /\ tty = <<>> /\ sigint = FALSE /\ interrupted = FALSE /\ seqq = <<>> /\ remap \in Remap
      /\ buf = [q |-> <<>>, next |-> 0, nelem |-> 0]
      /\ pc = "read" /\ get = NoLocals /\ got = NotDigit /\ ctx = "command" /\ quote = FALSE
      /\ word = NoWord /\ abcnt = 0 /\ used = 0
  BY DEF Init
<1>2. remap \in BOOLEAN
  BY <1>1, KeyAssumption
<1>3. TypeOK
  <2>1. get \in [timed : BOOLEAN, istimeout : BOOLEAN, remap_cnt : Nat, evp : Event \cup {NotDigit}]
    BY <1>1 DEF NoLocals
  <2>2. buf \in Buffer
    <3>1. <<>> \in Seq(Event)
      OBVIOUS
    <3> QED BY <1>1, <3>1 DEF Buffer
  <2>3. word \in [text : Seq(Keys), inword : BOOLEAN] /\ tty \in Seq(Keys) /\ seqq \in Seq(SEQ)
    BY <1>1, NoWordIs DEF WordType
  <2> QED BY <1>1, <1>2, <2>1, <2>2, <2>3, Readings DEF TypeOK
<1>4. BufferHolds
  <2>1. Len(<<>>) = 0
    OBVIOUS
  <2> QED BY <1>1, <2>1 DEF BufferHolds
<1>5. Sorted(seqq)
  BY <1>1 DEF Sorted
<1>6. Waited
  <2>1. ~get.timed /\ pc = "read"
    BY <1>1 DEF NoLocals
  <2> QED BY <2>1 DEF Waited
<1>7. Stream!Init
  BY <1>1, <1>2 DEF Stream!Init, NotDigit, MapOf
<1> QED BY <1>3, <1>4, <1>5, <1>6, <1>7 DEF IInv

LEMMA Steps ==
  ASSUME IInv, [Next]_vars
  PROVE  IInv' /\ StreamStep
<1>1. CASE GetStep
  <2>1. CASE ReadInterrupt \/ ReadKeys \/ ReadTimeout
    BY <2>1, Reads
  <2>2. CASE MapEvent
    BY <2>2, MapsEvent
  <2>3. CASE MapNone
    BY <2>3, MapsNone
  <2>4. CASE MapPartial
    BY <2>4, MapsPartial
  <2>5. CASE MapDigits
    BY <2>5, TellsNotDigit DEF MapDigits, Match, AtKey
  <2>6. CASE MapRemap
    BY <2>6, MapsAgain
  <2>7. CASE MapInterrupted
    BY <2>7, MapsInterrupted
  <2>8. CASE MapOnce
    BY <2>8, MapsOnce
  <2>9. CASE Deliver
    BY <2>9, Delivers
  <2> QED BY <1>1, <2>1, <2>2, <2>3, <2>4, <2>5, <2>6, <2>7, <2>8, <2>9 DEF GetStep
<1>2. CASE Signal
  BY <1>2, Reads DEF Signal
<1>3. CASE Reader
  <2>1. CASE \/ CommandEnds(FALSE) \/ CommandEnds(TRUE) \/ CommandInterrupted \/ CommandBroken
             \/ CommandGoesOn \/ CountStarts \/ CountGoesOn \/ CountEnds \/ QuoteCommand
    BY <2>1, CommandSteps
  <2>2. CASE Alias
    BY <2>2, Aliases
  <2>3. CASE v_at
    BY <2>3, Executes
  <2>4. CASE TextAbbreviation
    BY <2>4, Expands
  <2>5. CASE \/ TextStarts \/ TextOverflow \/ TextQuoted \/ TextGoesOn \/ TextQuotes
             \/ TextEnds \/ TextShowsMatch \/ MatchShown
    BY <2>5, TextSteps
  <2> QED BY <1>3, <2>1, <2>2, <2>3, <2>4, <2>5 DEF Reader
<1>4. CASE ex_map
  BY <1>4, MapsChange
<1>5. CASE Type \/ Interrupt
  BY <1>5, Typed
<1>6. CASE UNCHANGED vars
  <2>1. UNCHANGED <<tty, sigint, interrupted, seqq, remap, buf, pc, get, got, ctx, quote, word, abcnt, used>>
    BY <1>6 DEF vars
  <2>2. TypeOK'
    BY <2>1 DEF IInv, TypeOK
  <2>3. Quiet' <=> Quiet
    BY <2>1 DEF Quiet
  <2>4. BufferHolds' /\ Sorted(seqq)' /\ Waited'
    BY <2>1, <2>3 DEF IInv, BufferHolds, Waited
  <2> QED BY <2>1, <2>2, <2>4, Stutters DEF IInv
<1> QED BY <1>1, <1>2, <1>3, <1>4, <1>5, <1>6 DEF Next

-----------------------------------------------------------------------------
(* What holds in every state: the queue is within the buffer, the list of  *)
(* maps is in order, and what v_event_get() found out before it waited is  *)
(* still so when it goes on.                                               *)
THEOREM InvariantHolds == Spec => []IInv
<1>1. Init => IInv
  BY Starts
<1>2. IInv /\ [Next]_vars => IInv'
  BY Steps
<1> QED BY <1>1, <1>2, PTL DEF Spec

(* The buffer never overruns, whatever is typed, mapped or pushed, for all *)
(* values of the constants (v_event_push(), v_event_append(), QREM).       *)
THEOREM BufferNeverOverruns == Spec => []BufferHolds
<1>1. IInv => BufferHolds
  BY DEF IInv
<1> QED BY <1>1, InvariantHolds, PTL

(* The early ends of the search miss no map, and it gives the shortest or  *)
(* tells of a partial one (seq_find(), seq_set(), seq_delete()).           *)
THEOREM MapsAreAlwaysFound == Spec => []MapsAreFound
BY FoundInOrder, InvariantHolds, PTL

(* The queue implements the stream of events: in order, each once, and no  *)
(* key that a map applies to comes out unmapped (v_event_get()).           *)
THEOREM QueueIsStream == Spec => KeysInOrder
<1>1. Init => Stream!Init
  BY Starts
<1>2. IInv /\ [Next]_vars => [Stream!Next]_(Stream!vars)
  BY Steps DEF StreamStep
<1> QED BY <1>1, <1>2, InvariantHolds, PTL DEF Spec, KeysInOrder, Stream!Spec

=============================================================================
