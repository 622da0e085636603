----------------------------- MODULE TagsProofs -----------------------------
(***************************************************************************)
(* The tags stack keeps its shape, and is a stack of places (TagStack).    *)
(***************************************************************************)
EXTENDS Tags, SequenceTheorems, WellFoundedInduction, TLAPS

(* The lines a screen and a place saved can be at: :Tag to a tag that is   *)
(* nowhere opens a screen at line 0.                                       *)
Row == IF "nowhere" \in Quirks THEN 0..Lines ELSE Line

TagType == [fname : File \cup {Null}, f : File, at : 0..Lines, lno : 0..Lines]
GroupType ==
  {q \in [tag : Tag \cup {Null}, cur : Nat, tags : Seq(TagType)] : q.cur \in 1..Len(q.tags)}
FrefType == [Fref -> [set : BOOLEAN, lno : 0..Lines]]
PlaceType == [f : Fref, lno : Row]

(* A queue: groups with the local context last and no place saved in the   *)
(* first of them.                                                          *)
QueueOK(tq) ==
  /\ tq \in Seq(GroupType)
  /\ tq # <<>> => /\ Len(tq) >= 2
                  /\ \A i \in 1..Len(tq) : tq[i].tag = Null <=> i = Len(tq)
                  /\ \A i \in 2..Len(tq) : Cur(tq[i]).lno \in Row
ScreenOK(r) ==
  /\ r = [on |-> TRUE, ep |-> r.ep, f |-> r.f, lno |-> r.lno, tq |-> r.tq]
  /\ r.f \in Fref /\ r.lno \in Row
  /\ QueueOK(r.tq)
ScrOK(sc) ==
  /\ sc = [s \in Screen |-> sc[s]]
  /\ \A s \in Screen : sc[s] = NoScr \/ ScreenOK(sc[s])

(* The inductive invariant: above all that no TAG names the temporary FREF. *)
IInv == ScrOK(scr) /\ fref \in FrefType

(* Screen s is now at the place p, with the queue tq.                      *)
Put(s, e, p, tq) ==
  [scr EXCEPT ![s] = [on |-> TRUE, ep |-> e, f |-> p.f, lno |-> p.lno, tq |-> tq]]
Lands(s, p, tq) == \E e : scr' = Put(s, e, p, tq)

(* The stack of places of a queue, and the refinement mapping.             *)
StackOf(tq) == IF tq = <<>> THEN <<>> ELSE SavedPlaces(tq)
MapAt == [s \in Screen |-> IF scr[s].on THEN Here(s) ELSE Null]
MapStack == [s \in Screen |-> IF scr[s].tq = <<>> THEN <<>> ELSE SavedPlaces(scr[s].tq)]

-----------------------------------------------------------------------------
(* Facts about data                                                        *)

LEMMA Least ==
  ASSUME NEW T, T \subseteq Nat, T # {}
  PROVE  \E i \in T : \A j \in T : i <= j
<1> DEFINE R == OpToRel(<, Nat)
<1>1. \E x \in T : \A y \in T : ~(<<y, x>> \in R)
  BY NatLessThanWellFounded, WFMin
<1>2. \A x, y \in Nat : y < x => <<y, x>> \in R
  BY DEF OpToRel
<1> HIDE DEF R
<1>3. PICK x \in T : \A y \in T : ~(<<y, x>> \in R)
  BY <1>1
<1>4. ASSUME NEW y \in T PROVE x <= y
  <2>1. x \in Nat /\ y \in Nat /\ ~(y < x)
    BY <1>2, <1>3, Zenon
  <2> QED BY <2>1
<1> QED BY <1>4

LEMMA Bounds == /\ Lines \in Nat \ {0} /\ Line \subseteq Row /\ Row \subseteq 0..Lines
                /\ 1 \in Line
BY TagsAssumption DEF Row, Line

(* The TAG that is current in a group.                                     *)
LEMMA CurType ==
  ASSUME NEW q \in GroupType
  PROVE  Cur(q) \in TagType /\ Cur(q).f \in File /\ Cur(q).lno \in 0..Lines
<1>1. q.tags \in Seq(TagType) /\ q.cur \in 1..Len(q.tags)
  BY DEF GroupType
<1>2. Cur(q) \in TagType
  BY <1>1, ElementOfSeq DEF Cur
<1> QED BY <1>2 DEF TagType

LEMMA DangleNothing ==
  ASSUME NEW tq \in Seq(GroupType)
  PROVE  Dangle(tq) = tq
<1> DEFINE Tags(i) == [j \in DOMAIN tq[i].tags |->
                         IF tq[i].tags[j].f = Temp THEN [tq[i].tags[j] EXCEPT !.f = Gone]
                         ELSE tq[i].tags[j]]
<1>1. ASSUME NEW i \in 1..Len(tq)
      PROVE  [tq[i] EXCEPT !.tags = Tags(i)] = tq[i]
  <2>1. tq[i] \in GroupType /\ tq[i].tags \in Seq(TagType)
    BY DEF GroupType
  <2>2. Tags(i) = tq[i].tags
    <3>1. DOMAIN tq[i].tags = 1..Len(tq[i].tags)
          /\ tq[i].tags = [j \in DOMAIN tq[i].tags |-> tq[i].tags[j]]
      BY <2>1, LenProperties
    <3>2. ASSUME NEW j \in DOMAIN tq[i].tags PROVE tq[i].tags[j].f # Temp
      <4>1. tq[i].tags[j] \in TagType
        BY <2>1, <3>1, ElementOfSeq
      <4> QED BY <4>1, TagsAssumption DEF TagType
    <3>3. Tags(i) = [j \in DOMAIN tq[i].tags |-> tq[i].tags[j]]
      BY <3>2
    <3> QED BY <3>1, <3>3
  <2> HIDE DEF Tags
  <2> QED BY <2>1, <2>2 DEF GroupType
<1>2. Dangle(tq) = [i \in DOMAIN tq |-> [tq[i] EXCEPT !.tags = Tags(i)]]
  BY DEF Dangle
<1> HIDE DEF Tags
<1>3. DOMAIN tq = 1..Len(tq) /\ tq = [i \in DOMAIN tq |-> tq[i]]
  BY LenProperties
<1>4. Dangle(tq) = [i \in DOMAIN tq |-> tq[i]]
  BY <1>1, <1>2, <1>3
<1> QED BY <1>3, <1>4

LEMMA SameQueue ==
  ASSUME NEW on, NEW ep, NEW f, NEW lno, NEW tq, NEW r,
         r = [on |-> on, ep |-> ep, f |-> f, lno |-> lno, tq |-> tq]
  PROVE  [r EXCEPT !.tq = tq] = r /\ r.tq = tq
OBVIOUS

LEMMA SetQueue ==
  ASSUME NEW on, NEW ep, NEW f, NEW lno, NEW tq, NEW r, NEW q,
         r = [on |-> on, ep |-> ep, f |-> f, lno |-> lno, tq |-> tq]
  PROVE  [r EXCEPT !.tq = q] = [on |-> on, ep |-> ep, f |-> f, lno |-> lno, tq |-> q]
OBVIOUS

LEMMA SetLine ==
  ASSUME NEW on, NEW ep, NEW f, NEW lno, NEW tq, NEW r, NEW n,
         r = [on |-> on, ep |-> ep, f |-> f, lno |-> lno, tq |-> tq]
  PROVE  [r EXCEPT !.lno = n] = [on |-> on, ep |-> ep, f |-> f, lno |-> n, tq |-> tq]
OBVIOUS

LEMMA WithoutNothing ==
  ASSUME NEW sc, ScrOK(sc), NEW s
  PROVE  Without(sc, s) = sc
<1>1. ASSUME NEW t \in Screen PROVE [sc[t] EXCEPT !.tq = Dangle(@)] = sc[t]
  <2>1. CASE sc[t] = NoScr
    <3>1. Dangle(<<>>) = <<>>
      BY DangleNothing, EmptySeq
    <3> DEFINE off == FALSE
    <3>2. NoScr = [on |-> off, ep |-> Null, f |-> Null, lno |-> 0, tq |-> <<>>]
      BY DEF NoScr
    <3> HIDE DEF off
    <3>3. [NoScr EXCEPT !.tq = <<>>] = NoScr /\ NoScr.tq = <<>>
      BY <3>2, SameQueue
    <3> QED BY <2>1, <3>1, <3>3
  <2>2. CASE ScreenOK(sc[t])
    <3>1. Dangle(sc[t].tq) = sc[t].tq
      BY <2>2, DangleNothing DEF ScreenOK, QueueOK
    <3> QED BY <2>2, <3>1 DEF ScreenOK
  <2> QED BY <2>1, <2>2 DEF ScrOK
<1>2. [t \in Screen |-> [sc[t] EXCEPT !.tq = Dangle(@)]] = [t \in Screen |-> sc[t]]
  BY <1>1
<1> QED BY <1>2 DEF Without, ScrOK

LEMMA OnOK ==
  ASSUME IInv, NEW s \in On
  PROVE  /\ s \in Screen /\ scr[s].on /\ ScreenOK(scr[s])
         /\ Here(s) \in PlaceType /\ QueueOK(scr[s].tq)
<1>1. s \in Screen /\ scr[s].on
  BY DEF On
<1>2. ScreenOK(scr[s])
  BY <1>1 DEF IInv, ScrOK, NoScr
<1> QED BY <1>1, <1>2 DEF ScreenOK, Here, At, PlaceType

(* A screen s of a table that is put at a place, with a queue.              *)
LEMMA Placed ==
  ASSUME IInv, NEW s \in Screen, NEW p \in PlaceType, NEW tq, QueueOK(tq), NEW e
  PROVE  LET sc == Put(s, e, p, tq)
         IN /\ ScrOK(sc) /\ sc = [t \in Screen |-> sc[t]]
            /\ sc[s].on /\ sc[s].f = p.f /\ sc[s].lno = p.lno /\ sc[s].tq = tq
            /\ \A t \in Screen \ {s} : sc[t] = scr[t]
<1> DEFINE sc == Put(s, e, p, tq)
           r == [on |-> TRUE, ep |-> e, f |-> p.f, lno |-> p.lno, tq |-> tq]
<1>1. r.on /\ r.f = p.f /\ r.lno = p.lno /\ r.tq = tq /\ r.ep = e
  OBVIOUS
<1>2. p.f \in Fref /\ p.lno \in Row
  BY DEF PlaceType
<1>3. r = [on |-> TRUE, ep |-> r.ep, f |-> r.f, lno |-> r.lno, tq |-> r.tq]
  BY <1>1
<1>4. ScreenOK(r)
  BY <1>1, <1>2, <1>3 DEF ScreenOK
<1> HIDE DEF r
<1>5. scr = [t \in Screen |-> scr[t]] /\ \A t \in Screen : scr[t] = NoScr \/ ScreenOK(scr[t])
  BY DEF IInv, ScrOK
<1>6. /\ sc[s] = r
      /\ \A t \in Screen \ {s} : sc[t] = scr[t]
      /\ sc = [t \in Screen |-> sc[t]]
  BY <1>5 DEF r, Put
<1> HIDE DEF sc
<1>7. ScrOK(sc)
  BY <1>4, <1>5, <1>6 DEF ScrOK
<1> QED BY <1>1, <1>6, <1>7 DEF sc

(* A step that leaves screen s at a place keeps the invariant and is the   *)
(* same for the places and stacks mapped.                                  *)
Moves(s, p, st) ==
  /\ MapAt' = [MapAt EXCEPT ![s] = p]
  /\ MapStack' = [MapStack EXCEPT ![s] = st]

LEMMA LandsLaw ==
  ASSUME IInv, NEW s \in Screen, NEW p \in PlaceType, NEW tq, QueueOK(tq),
         Lands(s, p, tq), fref' \in FrefType
  PROVE  IInv' /\ Moves(s, p, StackOf(tq))
<1>1. PICK e : scr' = Put(s, e, p, tq)
  BY DEF Lands
<1>2. /\ ScrOK(scr') /\ scr' = [t \in Screen |-> scr'[t]]
      /\ scr'[s].on /\ scr'[s].f = p.f /\ scr'[s].lno = p.lno /\ scr'[s].tq = tq
      /\ \A t \in Screen \ {s} : scr'[t] = scr[t]
  <2> DEFINE sc == Put(s, e, p, tq)
  <2>1. /\ ScrOK(sc) /\ sc = [t \in Screen |-> sc[t]]
        /\ sc[s].on /\ sc[s].f = p.f /\ sc[s].lno = p.lno /\ sc[s].tq = tq
        /\ \A t \in Screen \ {s} : sc[t] = scr[t]
    BY Placed
  <2>2. scr' = sc
    BY <1>1
  <2> HIDE DEF sc
  <2> QED BY <2>1, <2>2
<1>3. p.f \in Fref /\ p.lno \in Row /\ p = [f |-> p.f, lno |-> p.lno]
  BY DEF PlaceType
<1>9. IInv'
  BY <1>2 DEF IInv, ScrOK
<1>10. MapAt' = [MapAt EXCEPT ![s] = p]
  BY <1>2, <1>3 DEF MapAt, Here, At
<1>11. MapStack' = [MapStack EXCEPT ![s] = StackOf(tq)]
  <2>1. \A t \in Screen : MapStack[t] = StackOf(scr[t].tq)
    BY DEF MapStack, StackOf
  <2>2. MapStack' = [t \in Screen |-> StackOf(scr'[t].tq)]
    BY DEF MapStack, StackOf, SavedPlaces
  <2>3. DOMAIN MapStack = Screen /\ MapStack = [t \in Screen |-> StackOf(scr[t].tq)]
    BY DEF MapStack, StackOf
  <2> QED BY <1>2, <2>2, <2>3
<1> QED BY <1>9, <1>10, <1>11 DEF Moves

(* The places of a queue that is not empty.                                *)
LEMMA Places ==
  ASSUME NEW tq, QueueOK(tq), tq # <<>>
  PROVE  /\ Len(tq) \in Nat /\ Len(tq) >= 2
         /\ StackOf(tq) \in Seq([f : File, lno : Row])
         /\ Len(StackOf(tq)) = Len(tq) - 1
         /\ \A i \in 1..Len(tq) - 1 : StackOf(tq)[i] = At(Cur(tq[i + 1]).f, Cur(tq[i + 1]).lno)
<1>1. tq \in Seq(GroupType) /\ Len(tq) \in Nat /\ Len(tq) >= 2
      /\ \A i \in 2..Len(tq) : Cur(tq[i]).lno \in Row
  BY DEF QueueOK
<1>2. ASSUME NEW i \in 1..Len(tq) - 1
      PROVE  At(Cur(tq[i + 1]).f, Cur(tq[i + 1]).lno) \in [f : File, lno : Row]
  <2>1. i + 1 \in 2..Len(tq) /\ i + 1 \in 1..Len(tq)
    BY <1>1
  <2>2. tq[i + 1] \in GroupType
    BY <1>1, <2>1, ElementOfSeq
  <2> QED BY <1>1, <2>1, <2>2, CurType DEF At
<1>3. StackOf(tq) = [i \in 1..Len(tq) - 1 |-> At(Cur(tq[i + 1]).f, Cur(tq[i + 1]).lno)]
  BY DEF StackOf, SavedPlaces
<1> DEFINE place(i) == At(Cur(tq[i + 1]).f, Cur(tq[i + 1]).lno)
<1>4. \A i \in 1..Len(tq) - 1 : place(i) \in [f : File, lno : Row]
  BY <1>2
<1>5. StackOf(tq) = [i \in 1..Len(tq) - 1 |-> place(i)]
  BY <1>3
<1>6. \A i \in 1..Len(tq) - 1 : StackOf(tq)[i] = At(Cur(tq[i + 1]).f, Cur(tq[i + 1]).lno)
  BY <1>3
<1> HIDE DEF place
<1>7. Len(tq) - 1 \in Nat
  BY <1>1
<1>8. StackOf(tq) \in Seq([f : File, lno : Row]) /\ Len(StackOf(tq)) = Len(tq) - 1
  BY <1>4, <1>5, <1>7
<1> QED BY <1>1, <1>6, <1>8

(* tag_pop() down to the k-th group takes k places off.                    *)
LEMMA LeftLaw ==
  ASSUME NEW tq, QueueOK(tq), tq # <<>>, NEW k \in 1..Len(tq) - 1
  PROVE  /\ QueueOK(Left(tq, k))
         /\ k \in DOMAIN StackOf(tq)
         /\ StackOf(Left(tq, k)) = SubSeq(StackOf(tq), k + 1, Len(StackOf(tq)))
         /\ Cur(tq[k + 1]) \in TagType /\ Cur(tq[k + 1]).f \in File
         /\ Cur(tq[k + 1]).lno \in Row
         /\ StackOf(tq)[k] = At(Cur(tq[k + 1]).f, Cur(tq[k + 1]).lno)
<1> DEFINE q == SubSeq(tq, k + 1, Len(tq))
           old == StackOf(tq)
<1>1. /\ tq \in Seq(GroupType) /\ Len(tq) \in Nat /\ Len(tq) >= 2
      /\ \A i \in 1..Len(tq) : tq[i].tag = Null <=> i = Len(tq)
      /\ \A i \in 2..Len(tq) : Cur(tq[i]).lno \in Row
  BY DEF QueueOK
<1>2. /\ old \in Seq([f : File, lno : Row]) /\ Len(old) = Len(tq) - 1
      /\ \A i \in 1..Len(tq) - 1 : old[i] = At(Cur(tq[i + 1]).f, Cur(tq[i + 1]).lno)
  BY Places
<1>3. q \in Seq(GroupType) /\ Len(q) = Len(tq) - k /\ \A i \in 1..Len(tq) - k : q[i] = tq[k + i]
  <2>1. \A i \in k + 1..Len(tq) : tq[i] \in GroupType
    BY <1>1, ElementOfSeq
  <2> QED BY <1>1, <2>1, SubSeqProperties
<1>4. Left(tq, k) = IF Len(q) = 1 THEN <<>> ELSE q
  BY DEF Left
<1>5. k + 1 \in 2..Len(tq) /\ tq[k + 1] \in GroupType
  BY <1>1, ElementOfSeq
<1>6. /\ Cur(tq[k + 1]) \in TagType /\ Cur(tq[k + 1]).f \in File
      /\ Cur(tq[k + 1]).lno \in Row /\ k \in DOMAIN old
      /\ old[k] = At(Cur(tq[k + 1]).f, Cur(tq[k + 1]).lno)
  BY <1>1, <1>2, <1>5, CurType, LenProperties
<1> HIDE DEF q, old
<1>7. CASE Len(q) = 1
  <2>1. Left(tq, k) = <<>> /\ k = Len(old)
    <3>1. Left(tq, k) = <<>>
      BY <1>4, <1>7
    <3>2. k = Len(old)
      <4>1. Len(q) = Len(tq) - k /\ Len(old) = Len(tq) - 1 /\ Len(tq) \in Nat
        BY <1>1, <1>2, <1>3
      <4>2. Len(tq) - k = 1
        BY <1>7, <4>1
      <4> QED BY <4>1, <4>2
    <3> QED BY <3>1, <3>2
  <2>2. SubSeq(old, k + 1, Len(old)) = <<>>
    BY <1>2, <2>1, SubSeqEmpty
  <2>3. QueueOK(<<>>)
    BY DEF QueueOK
  <2> QED BY <1>6, <2>1, <2>2, <2>3 DEF StackOf, old
<1>8. CASE Len(q) # 1
  <2>1. Left(tq, k) = q /\ Len(q) >= 2 /\ q # <<>> /\ Len(q) \in Nat
    BY <1>1, <1>3, <1>4, <1>8
  <2>2. QueueOK(q)
    <3>1. ASSUME NEW i \in 1..Len(q) PROVE q[i].tag = Null <=> i = Len(q)
      <4>1. k + i \in 1..Len(tq) /\ q[i] = tq[k + i] /\ (k + i = Len(tq) <=> i = Len(q))
        BY <1>1, <1>3
      <4> QED BY <1>1, <4>1
    <3>2. ASSUME NEW i \in 2..Len(q) PROVE Cur(q[i]).lno \in Row
      <4>1. k + i \in 2..Len(tq) /\ q[i] = tq[k + i]
        BY <1>1, <1>3
      <4> QED BY <1>1, <4>1
    <3> QED BY <1>3, <2>1, <3>1, <3>2 DEF QueueOK
  <2>3. /\ StackOf(q) \in Seq([f : File, lno : Row]) /\ Len(StackOf(q)) = Len(q) - 1
        /\ \A i \in 1..Len(q) - 1 : StackOf(q)[i] = At(Cur(q[i + 1]).f, Cur(q[i + 1]).lno)
    BY <2>1, <2>2, Places
  <2>4. /\ SubSeq(old, k + 1, Len(old)) \in Seq([f : File, lno : Row])
        /\ Len(SubSeq(old, k + 1, Len(old))) = Len(q) - 1
        /\ \A i \in 1..Len(q) - 1 : SubSeq(old, k + 1, Len(old))[i] = old[k + i]
    <3>1. ASSUME NEW i \in k + 1..Len(old) PROVE old[i] \in [f : File, lno : Row]
      <4>1. i \in 1..Len(old)
        BY <1>1, <1>2
      <4> QED BY <1>2, <4>1, ElementOfSeq
    <3> QED BY <1>1, <1>2, <1>3, <2>1, <3>1, SubSeqProperties
  <2>5. ASSUME NEW i \in 1..Len(q) - 1 PROVE StackOf(q)[i] = SubSeq(old, k + 1, Len(old))[i]
    <3>1. /\ i + 1 \in 1..Len(tq) - k /\ k + i \in 1..Len(tq) - 1
          /\ k + (i + 1) = (k + i) + 1
      BY <1>1, <1>3, <2>1
    <3>2. StackOf(q)[i] = At(Cur(q[i + 1]).f, Cur(q[i + 1]).lno) /\ q[i + 1] = tq[k + i + 1]
      BY <1>3, <2>3, <3>1
    <3>3. old[k + i] = At(Cur(tq[k + i + 1]).f, Cur(tq[k + i + 1]).lno)
      BY <1>2, <3>1
    <3> QED BY <2>4, <3>2, <3>3
  <2>6. StackOf(q) = SubSeq(old, k + 1, Len(old))
    BY <2>3, <2>4, <2>5, SeqEqual
  <2> QED BY <1>6, <2>1, <2>2, <2>6 DEF old
<1> QED BY <1>7, <1>8

(* ctag_slist(): the group of a tag.                                       *)
LEMMA TagqType ==
  ASSUME NEW t \in Tag
  PROVE  Tagq(t) \in GroupType /\ Tagq(t).tag = t /\ Tagq(t).tags[1] \in TagType
<1>1. Ctags[t] \in Seq([file : File, at : 0..Lines]) /\ Ctags[t] # <<>>
  BY TagsAssumption
<1>2. Len(Ctags[t]) \in Nat \ {0} /\ DOMAIN Ctags[t] = 1..Len(Ctags[t])
  BY <1>1, EmptySeq, LenProperties
<1> DEFINE tag(i) == [fname |-> Ctags[t][i].file, f |-> Ctags[t][i].file,
                      at |-> Ctags[t][i].at, lno |-> 0]
           tags == [i \in 1..Len(Ctags[t]) |-> tag(i)]
<1>3. ASSUME NEW i \in 1..Len(Ctags[t]) PROVE tag(i) \in TagType
  <2>1. Ctags[t][i] \in [file : File, at : 0..Lines]
    BY <1>1, ElementOfSeq
  <2> QED BY <2>1, Bounds DEF TagType
<1>4. Tagq(t) = [tag |-> t, cur |-> 1, tags |-> tags]
  BY <1>2 DEF Tagq
<1> HIDE DEF tag
<1>5. tags \in Seq(TagType) /\ Len(tags) = Len(Ctags[t])
  BY <1>2, <1>3
<1> HIDE DEF tags
<1> QED BY <1>2, <1>4, <1>5, ElementOfSeq DEF GroupType

(* ctag_slist() and ex_tag_push(): the place left is put on the stack.     *)
LEMMA LinkedLaw ==
  ASSUME NEW tq, QueueOK(tq), NEW t \in Tag, NEW p \in PlaceType, p.f \in File
  PROVE  /\ QueueOK(Linked(tq, t, p))
         /\ StackOf(Linked(tq, t, p)) = <<p>> \o StackOf(tq)
<1> DEFINE old == IF tq = <<>> THEN <<Context>> ELSE tq
           g   == old[1]
           h   == [g EXCEPT !.tags[g.cur] = [@ EXCEPT !.f = p.f, !.lno = p.lno]]
           new == <<Tagq(t), h>> \o Tail(old)
           Any == [fname : File \cup {Null}, f : File \cup {Null}, at : 0..Lines, lno : 0..Lines]
<1>1. tq \in Seq(GroupType) /\ Len(tq) \in Nat
  BY DEF QueueOK
<1>2. tq # <<>> => /\ Len(tq) >= 2
                   /\ \A i \in 1..Len(tq) : tq[i].tag = Null <=> i = Len(tq)
                   /\ \A i \in 2..Len(tq) : Cur(tq[i]).lno \in Row
  BY DEF QueueOK
<1>3. p.lno \in Row /\ p.lno \in 0..Lines /\ p = At(p.f, p.lno)
  BY Bounds DEF PlaceType, At
<1>4. Linked(tq, t, p) = new
  BY DEF Linked
<1>5. Tagq(t) \in GroupType /\ Tagq(t).tag = t
  BY TagqType
<1>6. /\ g.tag \in Tag \cup {Null} /\ g.cur \in Nat /\ g.tags \in Seq(Any)
      /\ g.cur \in 1..Len(g.tags)
      /\ g = [tag |-> g.tag, cur |-> g.cur, tags |-> g.tags]
      /\ \A j \in 1..Len(g.tags) : j # g.cur => g.tags[j] \in TagType
  <2>1. CASE tq = <<>>
    <3>1. g = Context
      BY <2>1
    <3>2. /\ Context.tag = Null /\ Context.cur = 1
          /\ Context.tags = <<[fname |-> Null, f |-> Null, at |-> 0, lno |-> 0]>>
          /\ Context = [tag |-> Context.tag, cur |-> Context.cur, tags |-> Context.tags]
      BY DEF Context
    <3>3. [fname |-> Null, f |-> Null, at |-> 0, lno |-> 0] \in Any
      BY Bounds
    <3> HIDE DEF Any, g
    <3>4. Context.tags \in Seq(Any) /\ Len(Context.tags) = 1
      BY <3>2, <3>3
    <3> QED BY <3>1, <3>2, <3>4
  <2>2. CASE tq # <<>>
    <3>1. g = tq[1] /\ g \in GroupType
      BY <1>1, <1>2, <2>2, ElementOfSeq
    <3>2. g.tags \in Seq(TagType)
      BY <3>1 DEF GroupType
    <3>3. TagType \subseteq Any
      BY DEF TagType
    <3> HIDE DEF Any, g
    <3>4. g.tags \in Seq(Any)
      BY <3>2, <3>3, SeqMonotonic
    <3> QED BY <3>1, <3>2, <3>4, ElementOfSeq DEF GroupType
  <2> QED BY <2>1, <2>2
<1>7. h \in GroupType /\ h.tag = g.tag /\ Cur(h).f = p.f /\ Cur(h).lno = p.lno
  <2> DEFINE a == [g.tags[g.cur] EXCEPT !.f = p.f, !.lno = p.lno]
             b == [g.tags EXCEPT ![g.cur] = a]
  <2>1. g.tags[g.cur] \in Any
    BY <1>6, ElementOfSeq
  <2>2. a \in TagType /\ a.f = p.f /\ a.lno = p.lno
    BY <1>3, <2>1 DEF TagType
  <2>3. h = [g EXCEPT !.tags = b]
    BY <1>6, <2>1
  <2> HIDE DEF a, g, h
  <2>4. /\ b \in [1..Len(g.tags) -> TagType] /\ Len(g.tags) \in Nat
        /\ b[g.cur] = a
    BY <1>6, <2>2
  <2> HIDE DEF b
  <2>5. b \in Seq(TagType) /\ Len(b) = Len(g.tags)
    BY <2>4
  <2>6. h = [tag |-> g.tag, cur |-> g.cur, tags |-> b]
    BY <1>6, <2>3
  <2>7. h.tag = g.tag /\ h.cur = g.cur /\ h.tags = b
    BY <2>6
  <2> QED BY <1>6, <2>2, <2>4, <2>5, <2>6, <2>7 DEF GroupType, Cur
<1>8. /\ Tail(old) \in Seq(GroupType)
      /\ Len(Tail(old)) = Len(old) - 1 /\ Len(old) \in Nat /\ Len(old) >= 1
      /\ \A i \in 1..Len(old) - 1 : Tail(old)[i] = tq[i + 1]
      /\ tq = <<>> => Len(old) = 1
      /\ tq # <<>> => old = tq
  <2>1. CASE tq = <<>>
    <3>1. old = <<Context>> /\ Len(old) = 1 /\ Tail(old) = <<>>
      BY <2>1
    <3> HIDE DEF old
    <3> QED BY <2>1, <3>1, EmptySeq
  <2>2. CASE tq # <<>>
    BY <1>1, <1>2, <2>2, HeadTailProperties
  <2> QED BY <2>1, <2>2
<1>9. tq = <<>> => g.tag = Null
  BY DEF Context
<1>10. tq # <<>> => g = tq[1]
  OBVIOUS
<1> HIDE DEF h, g, old
<1>11. /\ new \in Seq(GroupType) /\ Len(new) = Len(old) + 1
       /\ new[1] = Tagq(t) /\ new[2] = h
       /\ \A i \in 3..Len(old) + 1 : new[i] = tq[i - 1]
  <2>1. <<Tagq(t), h>> \in Seq(GroupType) /\ Len(<<Tagq(t), h>>) = 2
        /\ <<Tagq(t), h>>[1] = Tagq(t) /\ <<Tagq(t), h>>[2] = h
    BY <1>5, <1>7
  <2> DEFINE two == <<Tagq(t), h>>
             rest == Tail(old)
  <2>2. new = two \o rest
    OBVIOUS
  <2> HIDE DEF two, rest, new
  <2>3. /\ new \in Seq(GroupType) /\ Len(new) = 2 + Len(rest)
        /\ \A i \in 1..2 + Len(rest) : new[i] = IF i <= 2 THEN two[i] ELSE rest[i - 2]
    BY <1>8, <2>1, <2>2, ConcatProperties DEF two, rest
  <2>4. new[1] = Tagq(t) /\ new[2] = h
    BY <1>8, <2>1, <2>3 DEF two, rest
  <2>5. ASSUME NEW i \in 3..Len(old) + 1 PROVE new[i] = tq[i - 1]
    <3>1. i \in 1..2 + Len(rest) /\ ~(i <= 2) /\ i - 2 \in 1..Len(old) - 1 /\ (i - 2) + 1 = i - 1
      BY <1>8 DEF rest
    <3> QED BY <1>8, <2>3, <3>1 DEF rest
  <2> QED BY <1>8, <2>3, <2>4, <2>5 DEF rest
<1> HIDE DEF new
<1>14. /\ Len(tq) \in Nat /\ Len(old) \in Nat /\ Len(new) = Len(old) + 1
       /\ tq = <<>> => Len(old) = 1
       /\ tq # <<>> => Len(old) = Len(tq)
  BY <1>1, <1>8, <1>11
<1>12. QueueOK(new) /\ new # <<>>
  <2>1. Len(new) >= 2 /\ Len(new) \in Nat
    BY <1>8, <1>11
  <2>2. ASSUME NEW i \in 1..Len(new) PROVE new[i].tag = Null <=> i = Len(new)
    <3>1. CASE i = 1
      BY <1>5, <1>11, <2>1, <3>1, TagsAssumption
    <3>2. CASE i = 2
      BY <1>2, <1>7, <1>8, <1>9, <1>10, <1>11, <3>2
    <3>3. CASE i \notin {1, 2}
      <4>1. /\ i \in 3..Len(old) + 1 /\ tq # <<>> /\ i - 1 \in 1..Len(tq)
            /\ (i - 1 = Len(tq) <=> i = Len(new))
        <5>1. i \in 3..Len(old) + 1
          BY <1>14, <3>3
        <5>2. ASSUME tq = <<>> PROVE FALSE
          <6>1. Len(old) = 1
            BY <1>14, <5>2
          <6> QED BY <5>1, <6>1
        <5>3. Len(old) = Len(tq) /\ Len(new) = Len(tq) + 1
          BY <1>14, <5>2
        <5> QED BY <1>14, <5>1, <5>2, <5>3
      <4> QED BY <1>2, <1>11, <4>1
    <3> QED BY <3>1, <3>2, <3>3
  <2>3. ASSUME NEW i \in 2..Len(new) PROVE Cur(new[i]).lno \in Row
    <3>1. CASE i = 2
      BY <1>3, <1>7, <1>11, <3>1
    <3>2. CASE i # 2
      <4>1. i \in 3..Len(old) + 1 /\ tq # <<>> /\ i - 1 \in 2..Len(tq)
        <5>1. i \in 3..Len(old) + 1
          BY <1>14, <3>2
        <5>2. ASSUME tq = <<>> PROVE FALSE
          <6>1. Len(old) = 1
            BY <1>14, <5>2
          <6> QED BY <5>1, <6>1
        <5> QED BY <1>14, <5>1, <5>2
      <4> QED BY <1>2, <1>11, <4>1
    <3> QED BY <3>1, <3>2
  <2> QED BY <1>11, <2>1, <2>2, <2>3 DEF QueueOK
<1>13. StackOf(new) = <<p>> \o StackOf(tq)
  <2> DEFINE S == [f : Fref, lno : Row]
             rest == StackOf(tq)
             all == <<p>> \o rest
  <2>1. /\ StackOf(new) \in Seq([f : File, lno : Row]) /\ Len(StackOf(new)) = Len(old)
        /\ \A i \in 1..Len(old) : StackOf(new)[i] = At(Cur(new[i + 1]).f, Cur(new[i + 1]).lno)
    <3>1. Len(new) - 1 = Len(old)
      BY <1>8, <1>11
    <3> QED BY <1>12, <3>1, Places
  <2>2. [f : File, lno : Row] \subseteq S
    BY DEF Fref
  <2>3. /\ rest \in Seq([f : File, lno : Row]) /\ Len(rest) = Len(old) - 1
        /\ \A i \in 1..Len(old) - 1 : rest[i] = At(Cur(tq[i + 1]).f, Cur(tq[i + 1]).lno)
    <3>1. CASE tq = <<>>
      <4>1. rest = <<>> /\ Len(old) = 1
        BY <1>8, <3>1 DEF StackOf
      <4> QED BY <4>1, EmptySeq
    <3>2. CASE tq # <<>>
      BY <1>8, <3>2, Places
    <3> QED BY <3>1, <3>2
  <2> HIDE DEF rest
  <2>4. StackOf(new) \in Seq(S) /\ rest \in Seq(S)
    BY <2>1, <2>2, <2>3, SeqMonotonic
  <2>5. <<p>> \in Seq(S) /\ Len(<<p>>) = 1 /\ <<p>>[1] = p
    BY DEF PlaceType
  <2> HIDE DEF S
  <2>6. /\ all \in Seq(S) /\ Len(all) = Len(old)
        /\ all[1] = p /\ \A i \in 2..Len(old) : all[i] = rest[i - 1]
    <3> DEFINE one == <<p>>
    <3>1. one \in Seq(S) /\ Len(one) = 1 /\ one[1] = p /\ all = one \o rest
      BY <2>5
    <3> HIDE DEF one, all
    <3>2. /\ all \in Seq(S) /\ Len(all) = 1 + Len(rest)
          /\ \A i \in 1..1 + Len(rest) : all[i] = IF i <= 1 THEN one[i] ELSE rest[i - 1]
      <4>1. /\ one \o rest \in Seq(S) /\ Len(one \o rest) = Len(one) + Len(rest)
            /\ \A i \in 1..Len(one) + Len(rest) :
                  (one \o rest)[i] = IF i <= Len(one) THEN one[i] ELSE rest[i - Len(one)]
        BY <2>4, <3>1, ConcatProperties
      <4> QED BY <3>1, <4>1
    <3>3. Len(all) = Len(old)
      BY <1>8, <2>3, <3>2
    <3>4. all[1] = p
      BY <1>8, <2>3, <3>1, <3>2
    <3>5. ASSUME NEW i \in 2..Len(old) PROVE all[i] = rest[i - 1]
      <4>1. i \in 1..1 + Len(rest) /\ ~(i <= 1)
        BY <1>8, <2>3
      <4> QED BY <3>2, <4>1
    <3> QED BY <3>2, <3>3, <3>4, <3>5
  <2> HIDE DEF all
  <2>7. ASSUME NEW i \in 1..Len(old) PROVE StackOf(new)[i] = all[i]
    <3>1. CASE i = 1
      BY <1>3, <1>7, <1>11, <2>1, <2>6, <3>1
    <3>2. CASE i # 1
      <4>1. i \in 2..Len(old) /\ i + 1 \in 3..Len(old) + 1 /\ i - 1 \in 1..Len(old) - 1
            /\ (i + 1) - 1 = i /\ (i - 1) + 1 = i
        BY <1>8, <3>2
      <4>2. new[i + 1] = tq[i]
        BY <1>11, <4>1
      <4>3. rest[i - 1] = At(Cur(tq[i]).f, Cur(tq[i]).lno)
        BY <2>3, <4>1
      <4> QED BY <2>1, <2>6, <4>1, <4>2, <4>3
    <3> QED BY <3>1, <3>2
  <2>8. StackOf(new) = all
    BY <2>1, <2>4, <2>6, <2>7, SeqEqual
  <2> QED BY <2>8 DEF all, rest
<1> QED BY <1>4, <1>12, <1>13

-----------------------------------------------------------------------------
(* Files                                                                   *)

LEMMA CinitLine ==
  ASSUME NEW fr \in FrefType, NEW f \in Fref
  PROVE  Cinit(fr, f) \in Line
BY Bounds DEF FrefType, Cinit, Line

LEMMA EndedType ==
  ASSUME IInv, NEW s \in On, NEW fr \in FrefType
  PROVE  SavedIn(fr, s) \in FrefType /\ Ended(fr, s) \in FrefType
<1>1. scr[s].lno \in 0..Lines
  BY OnOK, Bounds DEF ScreenOK
<1>2. [set |-> TRUE, lno |-> scr[s].lno] \in [set : BOOLEAN, lno : 0..Lines]
  BY <1>1
<1> QED BY <1>2 DEF SavedIn, Ended, FrefType

(* file_init(), with the file given and the queue given to it.             *)
Loaded(fr, s, f, l) == At(f, IF l = 0 THEN Cinit(Ended(fr, s), f) ELSE l)
LEMMA LoadLaw ==
  ASSUME IInv, NEW s \in On, NEW fr \in FrefType, NEW f \in Fref, NEW l \in 0..Lines,
         NEW tq, QueueOK(tq), Load(fr, s, f, l, tq)
  PROVE  /\ Loaded(fr, s, f, l) \in PlaceType
         /\ Lands(s, Loaded(fr, s, f, l), tq) /\ fref' \in FrefType
<1> DEFINE n  == IF l = 0 THEN Cinit(Ended(fr, s), f) ELSE l
           p  == Loaded(fr, s, f, l)
           e  == NewEp(s)
           sc == Put(s, e, p, tq)
<1>1. Ended(fr, s) \in FrefType /\ s \in Screen
  BY EndedType, OnOK
<1>2. n \in Row
  BY <1>1, CinitLine, Bounds DEF Line
<1>3. p \in PlaceType /\ p.f = f /\ p.lno = n
  BY <1>2 DEF Loaded, At, PlaceType
<1>4. fref' = Ended(fr, s)
  BY DEF Load
<1>5. scr' = Without([scr EXCEPT ![s] = [on |-> TRUE, ep |-> e, f |-> f, lno |-> n, tq |-> tq]], s)
  BY DEF Load
<1> HIDE DEF n, p, e
<1>6. scr' = Without(sc, s)
  BY <1>3, <1>5 DEF Put
<1>7. ScrOK(sc)
  BY <1>1, <1>3, Placed
<1> HIDE DEF sc
<1>8. scr' = sc
  BY <1>6, <1>7, WithoutNothing
<1>9. Lands(s, p, tq)
  BY <1>8 DEF sc, Lands
<1> QED BY <1>1, <1>3, <1>4, <1>9 DEF p

(* A new queue and another line of the same file.                          *)
LEMMA SameFileLaw ==
  ASSUME IInv, NEW s \in On, NEW n \in Row, NEW tq, QueueOK(tq),
         scr' = [scr EXCEPT ![s] = [[@ EXCEPT !.tq = tq] EXCEPT !.lno = n]]
  PROVE  At(scr[s].f, n) \in PlaceType /\ Lands(s, At(scr[s].f, n), tq)
<1> DEFINE yes == TRUE
           r1 == [scr[s] EXCEPT !.tq = tq]
           r  == [r1 EXCEPT !.lno = n]
<1>1. s \in Screen /\ ScreenOK(scr[s])
  BY OnOK
<1>2. scr[s] = [on |-> yes, ep |-> scr[s].ep, f |-> scr[s].f, lno |-> scr[s].lno, tq |-> scr[s].tq]
  BY <1>1 DEF ScreenOK
<1>3. scr' = [scr EXCEPT ![s] = r]
  OBVIOUS
<1> HIDE DEF yes
<1>4. r1 = [on |-> yes, ep |-> scr[s].ep, f |-> scr[s].f, lno |-> scr[s].lno, tq |-> tq]
  BY <1>2, SetQueue
<1> HIDE DEF r1
<1>5. r = [on |-> yes, ep |-> scr[s].ep, f |-> scr[s].f, lno |-> n, tq |-> tq]
  BY <1>4, SetLine
<1> HIDE DEF r
<1>6. /\ At(scr[s].f, n) \in PlaceType
      /\ At(scr[s].f, n).f = scr[s].f /\ At(scr[s].f, n).lno = n
  BY <1>1 DEF ScreenOK, At, PlaceType
<1>7. scr' = [scr EXCEPT ![s] = [on |-> TRUE, ep |-> scr[s].ep, f |-> scr[s].f, lno |-> n, tq |-> tq]]
  BY <1>3, <1>5 DEF yes
<1>8. scr' = Put(s, scr[s].ep, At(scr[s].f, n), tq)
  BY <1>6, <1>7 DEF Put
<1> QED BY <1>6, <1>8 DEF Lands

(* The record of a screen that is on, changed in two fields.               *)
LEMMA TwoFields ==
  ASSUME IInv, NEW s \in On, NEW q, NEW n
  PROVE  [scr EXCEPT ![s].tq = q, ![s].lno = n]
           = [scr EXCEPT ![s] = [[@ EXCEPT !.tq = q] EXCEPT !.lno = n]]
<1>1. s \in Screen /\ scr = [t \in Screen |-> scr[t]]
  BY OnOK DEF IInv, ScrOK
<1> QED BY <1>1

(* ex_tag_nswitch() and ctag_search(): where they go.                      *)
Reached(s, tp) ==
  At(tp.f, IF tp.at # 0 THEN tp.at
           ELSE IF tp.f = scr[s].f THEN scr[s].lno ELSE Cinit(Ended(fref, s), tp.f))
LEMMA ReachedType ==
  ASSUME IInv, NEW s \in On, NEW tp \in TagType
  PROVE  Reached(s, tp) \in PlaceType /\ Reached(s, tp).f \in File
<1>1. ScreenOK(scr[s]) /\ scr[s].lno \in Row /\ Ended(fref, s) \in FrefType
  BY OnOK, EndedType DEF ScreenOK, IInv
<1>2. tp.f \in File /\ tp.f \in Fref /\ tp.at \in 0..Lines
  BY DEF TagType, Fref
<1> DEFINE n == IF tp.at # 0 THEN tp.at
                ELSE IF tp.f = scr[s].f THEN scr[s].lno ELSE Cinit(Ended(fref, s), tp.f)
<1>3. n \in Row
  BY <1>1, <1>2, Bounds, CinitLine DEF Line
<1> HIDE DEF n
<1>4. Reached(s, tp) = At(tp.f, n)
  BY DEF Reached, n
<1> QED BY <1>2, <1>3, <1>4 DEF At, PlaceType

LEMMA NswitchLaw ==
  ASSUME IInv, NEW s \in On, NEW tp \in TagType, NEW force, NEW tq, QueueOK(tq),
         Nswitch(s, tp, force, tq)
  PROVE  /\ Reached(s, tp) \in PlaceType /\ Reached(s, tp).f \in File
         /\ Lands(s, Reached(s, tp), tq) /\ fref' \in FrefType
<1>1. s \in Screen /\ ScreenOK(scr[s]) /\ scr[s].lno \in Row /\ fref \in FrefType
  BY OnOK DEF ScreenOK, IInv
<1>2. tp.f \in File /\ tp.f \in Fref /\ tp.at \in 0..Lines
  BY DEF TagType, Fref
<1>3. CASE tp.f = scr[s].f
  <2> DEFINE n == IF tp.at = 0 THEN scr[s].lno ELSE tp.at
  <2>1. n \in Row
    BY <1>1, <1>2, Bounds DEF Line
  <2>2. Reached(s, tp) = At(scr[s].f, n)
    BY <1>3 DEF Reached
  <2>3. scr' = [scr EXCEPT ![s].tq = tq, ![s].lno = n] /\ fref' = fref
    <3>1. scr = [t \in Screen |-> scr[t]] /\ scr[s] = [scr[s] EXCEPT !.on = TRUE]
      BY <1>1 DEF IInv, ScrOK, ScreenOK
    <3>2. /\ scr' = [scr EXCEPT ![s].tq = tq, ![s].lno = IF tp.at = 0 THEN @ ELSE tp.at]
          /\ fref' = fref
      BY <1>3 DEF Nswitch
    <3>3. [scr[s] EXCEPT !.tq = tq].lno = scr[s].lno
      BY <1>1, SetQueue DEF ScreenOK
    <3> QED BY <1>1, <3>1, <3>2, <3>3
  <2> HIDE DEF n
  <2>4. scr' = [scr EXCEPT ![s] = [[@ EXCEPT !.tq = tq] EXCEPT !.lno = n]]
    BY <2>3, TwoFields
  <2>5. At(scr[s].f, n) \in PlaceType /\ Lands(s, At(scr[s].f, n), tq)
    BY <2>1, <2>4, SameFileLaw
  <2>6. At(scr[s].f, n).f = scr[s].f
    BY DEF At
  <2> QED BY <1>1, <1>2, <1>3, <2>2, <2>3, <2>5, <2>6
<1>4. CASE tp.f # scr[s].f
  <2>1. Load(fref, s, tp.f, tp.at, tq)
    BY <1>4 DEF Nswitch
  <2>2. Reached(s, tp) = Loaded(fref, s, tp.f, tp.at)
    BY <1>2, <1>4 DEF Reached, Loaded
  <2>3. Reached(s, tp).f = tp.f
    BY DEF Reached, At
  <2> QED BY <1>1, <1>2, <2>1, <2>2, <2>3, LoadLaw
<1> QED BY <1>3, <1>4

-----------------------------------------------------------------------------
(* The commands                                                            *)

Goes(s)  == \E p \in PlaceType : Moves(s, p, MapStack[s])
Saves(s) == \E p \in PlaceType :
              Moves(s, p, <<IF scr[s].f = Temp THEN p ELSE Here(s)>> \o MapStack[s])
Comes(s) == \E n \in DOMAIN MapStack[s] :
              Moves(s, MapStack[s][n], SubSeq(MapStack[s], n + 1, Len(MapStack[s])))

LEMMA PushLaw ==
  ASSUME IInv, NEW s \in On, NEW t \in Tag, NEW force, Push(s, t, force)
  PROVE  IInv' /\ Saves(s)
<1> DEFINE tp == Tagq(t).tags[1]
           p  == Kept(s, Reached(s, tp))
           tq == Linked(scr[s].tq, t, p)
<1>1. s \in Screen /\ ScreenOK(scr[s]) /\ Here(s) \in PlaceType /\ QueueOK(scr[s].tq)
  BY OnOK
<1>2. tp \in TagType /\ Nswitch(s, tp, force, tq)
  <2>1. tp \in TagType
    BY TagqType
  <2>2. Nswitch(s, tp, force, tq)
    BY DEF Push, Reached
  <2> QED BY <2>1, <2>2
<1>3. p \in PlaceType /\ p.f \in File
  <2>1. Reached(s, tp) \in PlaceType /\ Reached(s, tp).f \in File
    BY <1>1, <1>2, ReachedType
  <2>2. scr[s].f # Temp => Here(s).f \in File
    BY <1>1 DEF ScreenOK, Here, At, Fref
  <2> QED BY <1>1, <2>1, <2>2 DEF Kept
<1> HIDE DEF tp, p
<1>4. QueueOK(tq) /\ StackOf(tq) = <<p>> \o StackOf(scr[s].tq)
  BY <1>1, <1>3, LinkedLaw
<1> HIDE DEF tq
<1>5. /\ Reached(s, tp) \in PlaceType
      /\ Lands(s, Reached(s, tp), tq) /\ fref' \in FrefType
  BY <1>2, <1>4, NswitchLaw
<1>6. IInv' /\ Moves(s, Reached(s, tp), <<p>> \o StackOf(scr[s].tq))
  BY <1>1, <1>4, <1>5, LandsLaw
<1>7. MapStack[s] = StackOf(scr[s].tq)
  BY <1>1 DEF MapStack, StackOf
<1>8. p = IF scr[s].f = Temp THEN Reached(s, tp) ELSE Here(s)
  BY DEF p, Kept
<1> QED BY <1>5, <1>6, <1>7, <1>8 DEF Saves


LEMMA StackAt ==
  ASSUME IInv, NEW s \in On
  PROVE  MapStack[s] = StackOf(scr[s].tq) /\ MapAt[s] = Here(s)
BY OnOK DEF MapStack, StackOf, MapAt

LEMMA StepLaw ==
  ASSUME IInv, NEW s \in On, NEW d \in {-1, 1}, NEW force, Step(s, d, force)
  PROVE  IInv' /\ Goes(s)
<1> DEFINE tq  == scr[s].tq
           i   == Head(tq).cur + d
           new == [tq EXCEPT ![1].cur = i]
           tp  == Head(tq).tags[i]
<1>1. s \in Screen /\ QueueOK(tq) /\ tq # <<>>
  BY OnOK DEF Step
<1>2. /\ tq \in Seq(GroupType) /\ Len(tq) \in Nat /\ Len(tq) >= 2
      /\ \A j \in 1..Len(tq) : tq[j].tag = Null <=> j = Len(tq)
      /\ \A j \in 2..Len(tq) : Cur(tq[j]).lno \in Row
  BY <1>1 DEF QueueOK
<1>3. Head(tq) = tq[1] /\ tq[1] \in GroupType
  BY <1>2, ElementOfSeq
<1>4. i \in DOMAIN Head(tq).tags /\ Nswitch(s, tp, force, new)
  BY DEF Step
<1> HIDE DEF tq
<1>5. tq[1].tags \in Seq(TagType)
  BY <1>3 DEF GroupType
<1>6. i \in 1..Len(tq[1].tags) /\ tp \in TagType
  BY <1>3, <1>4, <1>5, LenProperties, ElementOfSeq
<1> HIDE DEF i
<1> DEFINE g == [tq[1] EXCEPT !.cur = i]
<1>7. g \in GroupType /\ g.tag = tq[1].tag
  BY <1>3, <1>6 DEF GroupType
<1>8. new = [tq EXCEPT ![1] = g]
  BY <1>2
<1> HIDE DEF g, new
<1>9. /\ new \in Seq(GroupType) /\ Len(new) = Len(tq)
      /\ \A j \in 1..Len(tq) : new[j] = IF j = 1 THEN g ELSE tq[j]
  BY <1>2, <1>7, <1>8, ExceptSeq
<1>10. QueueOK(new) /\ new # <<>>
  <2>1. ASSUME NEW j \in 1..Len(new) PROVE new[j].tag = Null <=> j = Len(new)
    <3>1. new[j].tag = tq[j].tag
      BY <1>7, <1>9
    <3> QED BY <1>2, <1>9, <3>1
  <2>2. ASSUME NEW j \in 2..Len(new) PROVE Cur(new[j]).lno \in Row
    <3>1. new[j] = tq[j]
      BY <1>2, <1>9
    <3> QED BY <1>2, <1>9, <3>1
  <2>3. new # <<>>
    BY <1>2, <1>9
  <2> QED BY <1>2, <1>9, <2>1, <2>2, <2>3 DEF QueueOK
<1>11. StackOf(new) = StackOf(tq)
  <2>1. /\ StackOf(new) \in Seq([f : File, lno : Row]) /\ Len(StackOf(new)) = Len(tq) - 1
        /\ \A j \in 1..Len(tq) - 1 : StackOf(new)[j] = At(Cur(new[j + 1]).f, Cur(new[j + 1]).lno)
    BY <1>9, <1>10, Places
  <2>2. /\ StackOf(tq) \in Seq([f : File, lno : Row]) /\ Len(StackOf(tq)) = Len(tq) - 1
        /\ \A j \in 1..Len(tq) - 1 : StackOf(tq)[j] = At(Cur(tq[j + 1]).f, Cur(tq[j + 1]).lno)
    BY <1>1, Places DEF tq
  <2>3. ASSUME NEW j \in 1..Len(tq) - 1 PROVE new[j + 1] = tq[j + 1]
    <3>1. j + 1 \in 1..Len(tq) /\ j + 1 # 1
      BY <1>2
    <3> QED BY <1>9, <3>1
  <2> QED BY <2>1, <2>2, <2>3, SeqEqual
<1>12. /\ Reached(s, tp) \in PlaceType
       /\ Lands(s, Reached(s, tp), new) /\ fref' \in FrefType
  BY <1>4, <1>6, <1>10, NswitchLaw
<1>13. IInv' /\ Moves(s, Reached(s, tp), StackOf(tq))
  BY <1>1, <1>10, <1>11, <1>12, LandsLaw
<1> QED BY <1>12, <1>13, StackAt DEF Goes, tq

(* tag_pop().  A place on another file is come to through its FREF, which  *)
(* must be marked to hold a cursor.                                        *)
LEMMA PopLaw ==
  ASSUME IInv, NEW s \in On, scr[s].tq # <<>>, NEW k \in 1..Len(scr[s].tq) - 1, NEW force,
         Pop(s, k, force)
  PROVE  IInv' /\ (Quirks = {} => Comes(s))
<1> DEFINE tq  == scr[s].tq
           tp  == Cur(tq[k + 1])
           new == Left(tq, k)
<1>1. /\ s \in Screen /\ QueueOK(tq) /\ tq # <<>> /\ fref \in FrefType
      /\ scr[s].f \in Fref /\ scr = [t \in Screen |-> scr[t]]
  BY OnOK DEF IInv, ScrOK, ScreenOK
<1>2. /\ QueueOK(new)
      /\ k \in DOMAIN StackOf(tq)
      /\ StackOf(new) = SubSeq(StackOf(tq), k + 1, Len(StackOf(tq)))
      /\ tp \in TagType /\ tp.f \in File /\ tp.lno \in Row
      /\ StackOf(tq)[k] = At(tp.f, tp.lno)
  BY <1>1, LeftLaw
<1>3. \/ /\ tp.f = scr[s].f
         /\ scr' = [scr EXCEPT ![s].tq = new, ![s].lno = tp.lno]
         /\ fref' = fref
      \/ /\ tp.f # scr[s].f
         /\ Lets("shared", fref[tp.f].set)
         /\ Load(Popped(fref, s, tp), s, tp.f, 0, new)
  BY DEF Pop
<1>4. MapStack[s] = StackOf(tq)
  BY StackAt
<1> HIDE DEF tq, tp, new
<1>5. ASSUME NEW p \in PlaceType, Lands(s, p, new), fref' \in FrefType,
             Quirks = {} => p = At(tp.f, tp.lno)
      PROVE  IInv' /\ (Quirks = {} => Comes(s))
  <2>1. IInv' /\ Moves(s, p, StackOf(new))
    BY <1>1, <1>2, <1>5, LandsLaw
  <2> QED BY <1>2, <1>4, <1>5, <2>1 DEF Comes
<1>6. CASE tp.f = scr[s].f
  <2>1. scr' = [scr EXCEPT ![s] = [[@ EXCEPT !.tq = new] EXCEPT !.lno = tp.lno]]
    BY <1>3, <1>6, TwoFields
  <2>2. At(scr[s].f, tp.lno) \in PlaceType /\ Lands(s, At(scr[s].f, tp.lno), new)
    BY <1>2, <2>1, SameFileLaw
  <2>3. fref' \in FrefType
    BY <1>1, <1>3, <1>6
  <2> QED BY <1>5, <1>6, <2>2, <2>3
<1>7. CASE tp.f # scr[s].f
  <2> DEFINE fr == Popped(fref, s, tp)
  <2>1. /\ fr \in FrefType /\ tp.f \in Fref
        /\ fr[tp.f].lno = tp.lno /\ fr[tp.f].set = fref[tp.f].set
    <3>1. tp.f \in Fref /\ tp.lno \in 0..Lines
      BY <1>2, Bounds DEF Fref
    <3>2. /\ fref[tp.f] \in [set : BOOLEAN, lno : 0..Lines]
          /\ fref[scr[s].f] \in [set : BOOLEAN, lno : 0..Lines]
      BY <1>1, <3>1 DEF FrefType
    <3> DEFINE a == [fref[tp.f] EXCEPT !.lno = tp.lno]
               b == [fref[scr[s].f] EXCEPT !.set = TRUE]
    <3>3. /\ a \in [set : BOOLEAN, lno : 0..Lines] /\ a.lno = tp.lno /\ a.set = fref[tp.f].set
          /\ b \in [set : BOOLEAN, lno : 0..Lines]
      BY <3>1, <3>2
    <3>4. fr = [[fref EXCEPT ![tp.f] = a] EXCEPT ![scr[s].f] = b]
      BY <1>1, <1>7, <3>1 DEF Popped, FrefType
    <3> HIDE DEF a, b
    <3> QED BY <1>1, <1>7, <3>1, <3>3, <3>4 DEF FrefType
  <2>2. Load(fr, s, tp.f, 0, new)
    BY <1>3, <1>7
  <2> HIDE DEF fr
  <2>3. /\ Loaded(fr, s, tp.f, 0) \in PlaceType
        /\ Lands(s, Loaded(fr, s, tp.f, 0), new) /\ fref' \in FrefType
    BY <1>2, <2>1, <2>2, LoadLaw, Bounds
  <2>4. ASSUME Quirks = {} PROVE Loaded(fr, s, tp.f, 0) = At(tp.f, tp.lno)
    <3>1. tp.lno # 0 /\ fref[tp.f].set
      BY <1>2, <1>3, <1>7, <2>4 DEF Row, Line, Lets
    <3>2. Ended(fr, s)[tp.f] = fr[tp.f]
      BY <1>1, <1>7, <2>1 DEF Ended, SavedIn, FrefType
    <3>3. Cinit(Ended(fr, s), tp.f) = tp.lno
      BY <2>1, <3>1, <3>2 DEF Cinit
    <3> QED BY <3>3 DEF Loaded
  <2> QED BY <1>5, <2>3, <2>4
<1> QED BY <1>6, <1>7

(* :pop and :tagtop.                                                       *)
LEMMA ReturnLaw ==
  ASSUME IInv, NEW s \in On, NEW force, Return(s, force)
  PROVE  /\ IInv'
         /\ Quirks = {} => Comes(s)
<1> DEFINE tq == scr[s].tq
<1>1. /\ QueueOK(tq) /\ Len(tq) \in Nat
      /\ tq # <<>> => Len(tq) >= 2
  BY OnOK DEF QueueOK
<1> HIDE DEF tq
<1>2. ASSUME tq # <<>>, NEW k \in 1..Len(tq) - 1, Pop(s, k, force)
      PROVE  IInv' /\ (Quirks = {} => Comes(s))
  BY <1>2, PopLaw DEF tq
<1>3. CASE PopOne(s, force)
  <2>1. tq # <<>> /\ Pop(s, 1, force)
    BY <1>3 DEF PopOne, tq
  <2>2. 1 \in 1..Len(tq) - 1
    BY <1>1, <2>1
  <2> QED BY <1>2, <2>1, <2>2
<1>4. CASE \E n \in 1..MaxStack + 1 : PopNumber(s, n, force)
  <2>1. PICK n \in 1..MaxStack + 1 : PopNumber(s, n, force)
    BY <1>4
  <2> DEFINE k == IF n > 1 THEN n - 1 ELSE 1
  <2>2. k \in Nat \ {0}
    BY TagsAssumption
  <2>3. /\ tq # <<>> /\ Lets("number", k < Len(tq))
        /\ IF k = Len(tq) THEN crashed' = TRUE /\ UNCHANGED <<scr, fref, mod>>
           ELSE k < Len(tq) /\ Pop(s, k, force)
    BY <2>1 DEF PopNumber, tq
  <2> HIDE DEF k
  <2>4. CASE k = Len(tq)
    <3>1. scr' = scr /\ fref' = fref
      BY <2>3, <2>4
    <3>2. Quirks # {}
      BY <1>1, <2>2, <2>3, <2>4 DEF Lets
    <3> QED BY <3>1, <3>2 DEF IInv, ScrOK
  <2>5. CASE k # Len(tq)
    <3>1. k \in 1..Len(tq) - 1
      BY <1>1, <2>2, <2>3, <2>5
    <3> QED BY <1>2, <2>3, <2>5, <3>1
  <2> QED BY <2>4, <2>5
<1>5. CASE \E f \in Fref : PopFile(s, f, force)
  <2>1. PICK f \in Fref : PopFile(s, f, force)
    BY <1>5
  <2> DEFINE at == {i \in 2..Len(tq) : Cur(tq[i]).f = f}
             i == CHOOSE j \in at : \A x \in at : j <= x
  <2>2. at # {} /\ Pop(s, i - 1, force)
    BY <2>1 DEF PopFile, tq
  <2>3. i \in at
    <3>1. at \subseteq Nat
      BY <1>1
    <3> HIDE DEF at
    <3> QED BY <2>2, <3>1, Least
  <2>4. i - 1 \in 1..Len(tq) - 1 /\ tq # <<>>
    <3>1. i \in 2..Len(tq)
      BY <2>3
    <3> HIDE DEF i
    <3> QED BY <1>1, <3>1
  <2> QED BY <1>2, <2>2, <2>4
<1>6. CASE Top(s, force)
  <2>1. tq # <<>> /\ Pop(s, Len(tq) - 1, force)
    BY <1>6 DEF Top, tq
  <2>2. Len(tq) - 1 \in 1..Len(tq) - 1
    BY <1>1, <2>1
  <2> QED BY <1>2, <2>1, <2>2
<1> QED BY <1>3, <1>4, <1>5, <1>6 DEF Return

LEMMA EditLaw ==
  ASSUME IInv, NEW s \in On, NEW f \in File, NEW force, Edit(s, f, force)
  PROVE  IInv' /\ Goes(s)
<1>1. s \in Screen /\ QueueOK(scr[s].tq) /\ fref \in FrefType /\ f \in Fref /\ 0 \in 0..Lines
  BY OnOK, Bounds DEF IInv, Fref
<1>2. Load(fref, s, f, 0, scr[s].tq)
  BY DEF Edit
<1>3. /\ Loaded(fref, s, f, 0) \in PlaceType
      /\ Lands(s, Loaded(fref, s, f, 0), scr[s].tq) /\ fref' \in FrefType
  BY <1>1, <1>2, LoadLaw
<1>4. IInv' /\ Moves(s, Loaded(fref, s, f, 0), StackOf(scr[s].tq))
  BY <1>1, <1>3, LandsLaw
<1> QED BY <1>3, <1>4, StackAt DEF Goes

LEMMA MoveLaw ==
  ASSUME IInv, NEW s \in On, NEW l \in Line, Move(s, l)
  PROVE  IInv' /\ Goes(s)
<1> DEFINE yes == TRUE
           r == [scr[s] EXCEPT !.lno = l]
<1>1. /\ s \in Screen /\ ScreenOK(scr[s]) /\ fref \in FrefType /\ l \in Row
      /\ scr = [t \in Screen |-> scr[t]]
  BY OnOK, Bounds DEF IInv, ScrOK
<1>2. scr[s] = [on |-> yes, ep |-> scr[s].ep, f |-> scr[s].f, lno |-> scr[s].lno, tq |-> scr[s].tq]
  BY <1>1 DEF ScreenOK
<1>3. scr' = [scr EXCEPT ![s] = r] /\ fref' = fref
  BY <1>1 DEF Move
<1> HIDE DEF yes
<1>4. r = [on |-> yes, ep |-> scr[s].ep, f |-> scr[s].f, lno |-> l, tq |-> scr[s].tq]
  BY <1>2, SetLine
<1> HIDE DEF r
<1>5. /\ At(scr[s].f, l) \in PlaceType
      /\ At(scr[s].f, l).f = scr[s].f /\ At(scr[s].f, l).lno = l
  BY <1>1 DEF ScreenOK, At, PlaceType
<1>6. Lands(s, At(scr[s].f, l), scr[s].tq)
  <2>1. scr' = [scr EXCEPT ![s] = [on |-> TRUE, ep |-> scr[s].ep, f |-> scr[s].f, lno |-> l,
                                   tq |-> scr[s].tq]]
    BY <1>3, <1>4 DEF yes
  <2>2. scr' = Put(s, scr[s].ep, At(scr[s].f, l), scr[s].tq)
    BY <1>5, <2>1 DEF Put
  <2> QED BY <2>2 DEF Lands
<1>7. IInv' /\ Moves(s, At(scr[s].f, l), StackOf(scr[s].tq))
  BY <1>1, <1>3, <1>5, <1>6, LandsLaw DEF ScreenOK
<1> QED BY <1>5, <1>7, StackAt DEF Goes

(* A screen opened, with what its stack has more than that of s.           *)
Opens(s, u) ==
  /\ MapAt[u] = Null
  /\ \E p \in PlaceType, push \in {<<>>, <<MapAt[s]>>} : Moves(u, p, push \o MapStack[s])

LEMMA SplitLaw ==
  ASSUME IInv, NEW s \in On, NEW u \in Screen \ On, Split(s, u)
  PROVE  IInv' /\ Opens(s, u)
<1>1. /\ Here(s) \in PlaceType /\ QueueOK(scr[s].tq) /\ ScreenOK(scr[s])
      /\ fref' \in FrefType
  BY OnOK DEF Split, IInv
<1>2. Lands(u, Here(s), scr[s].tq)
  <2>1. scr[s] = [on |-> TRUE, ep |-> scr[s].ep, f |-> scr[s].f, lno |-> scr[s].lno, tq |-> scr[s].tq]
    BY <1>1 DEF ScreenOK
  <2>2. Here(s).f = scr[s].f /\ Here(s).lno = scr[s].lno
    BY DEF Here, At
  <2>3. scr' = [scr EXCEPT ![u] = scr[s]]
    BY DEF Split
  <2>4. scr' = Put(u, scr[s].ep, Here(s), scr[s].tq)
    BY <2>1, <2>2, <2>3 DEF Put
  <2> QED BY <2>4 DEF Lands
<1>3. IInv' /\ Moves(u, Here(s), StackOf(scr[s].tq))
  BY <1>1, <1>2, LandsLaw
<1>4. MapAt[u] = Null
  BY DEF MapAt, On
<1>5. <<>> \o MapStack[s] = StackOf(scr[s].tq)
  <2>1. \E S : StackOf(scr[s].tq) \in Seq(S)
    <3>1. CASE scr[s].tq = <<>>
      BY <3>1, EmptySeq DEF StackOf
    <3>2. CASE scr[s].tq # <<>>
      BY <1>1, <3>2, Places
    <3> QED BY <3>1, <3>2
  <2> QED BY <2>1, StackAt, ConcatEmptySeq
<1> QED BY <1>1, <1>3, <1>4, <1>5 DEF Opens

LEMMA PushNewLaw ==
  ASSUME IInv, NEW s \in On, NEW u \in Screen \ On, NEW t \in Tag, PushNew(s, u, t),
         "temp" \notin Quirks
  PROVE  IInv' /\ Opens(s, u)
<1> DEFINE tp == Tagq(t).tags[1]
           same == tp.f = scr[s].f
           lno == IF tp.at # 0 THEN tp.at ELSE IF same THEN 0 ELSE Cinit(fref, tp.f)
           e == IF same THEN scr[s].ep ELSE CHOOSE x \in Ep : Users(x) = {}
           tq == Linked(scr[s].tq, t, Here(s))
<1>1. /\ Here(s) \in PlaceType /\ QueueOK(scr[s].tq) /\ ScreenOK(scr[s])
      /\ fref \in FrefType /\ tp \in TagType
  BY OnOK, TagqType DEF IInv
<1>2. /\ Lets("temp", scr[s].f # Temp) /\ Lets("nowhere", lno # 0)
      /\ scr' = [scr EXCEPT ![u] = [on |-> TRUE, ep |-> e, f |-> tp.f, lno |-> lno, tq |-> tq]]
      /\ fref' = fref
  BY DEF PushNew
<1>3. tp.f \in Fref /\ tp.at \in 0..Lines
  BY <1>1 DEF TagType, Fref
<1>4. lno \in Row
  BY <1>1, <1>2, <1>3, CinitLine, Bounds DEF Lets, Row, Line
<1>5. Here(s).f \in File
  BY <1>1, <1>2 DEF Lets, ScreenOK, Fref, Here, At
<1>6. QueueOK(tq) /\ StackOf(tq) = <<Here(s)>> \o StackOf(scr[s].tq)
  BY <1>1, <1>5, LinkedLaw
<1> HIDE DEF tp, lno, e, tq
<1>7. /\ At(tp.f, lno) \in PlaceType /\ At(tp.f, lno).f = tp.f /\ At(tp.f, lno).lno = lno
  BY <1>3, <1>4 DEF At, PlaceType
<1>8. Lands(u, At(tp.f, lno), tq)
  <2>1. scr' = Put(u, e, At(tp.f, lno), tq)
    BY <1>2, <1>7 DEF Put
  <2> QED BY <2>1 DEF Lands
<1>9. IInv' /\ Moves(u, At(tp.f, lno), StackOf(tq))
  BY <1>1, <1>2, <1>6, <1>7, <1>8, LandsLaw
<1>10. MapAt[u] = Null
  BY DEF MapAt, On
<1> QED BY <1>6, <1>7, <1>9, <1>10, StackAt DEF Opens

LEMMA CloseLaw ==
  ASSUME IInv, NEW s \in On, NEW force, Close(s, force)
  PROVE  IInv' /\ Moves(s, Null, <<>>)
<1> DEFINE sc == [scr EXCEPT ![s] = NoScr]
<1>1. /\ s \in Screen /\ scr = [t \in Screen |-> scr[t]]
      /\ \A t \in Screen : scr[t] = NoScr \/ ScreenOK(scr[t])
  BY OnOK DEF IInv, ScrOK
<1>2. /\ sc[s] = NoScr /\ sc = [t \in Screen |-> sc[t]]
      /\ \A t \in Screen \ {s} : sc[t] = scr[t]
  BY <1>1
<1>3. scr' = Without(sc, s) /\ fref' = SavedIn(fref, s)
  BY DEF Close
<1> HIDE DEF sc
<1>4. ScrOK(sc)
  BY <1>1, <1>2 DEF ScrOK
<1>5. scr' = sc
  BY <1>3, <1>4, WithoutNothing
<1>6. fref' \in FrefType
  BY <1>3, EndedType DEF IInv
<1>7. ~NoScr.on /\ NoScr.tq = <<>>
  BY DEF NoScr
<1>8. MapAt' = [MapAt EXCEPT ![s] = Null]
  BY <1>2, <1>5, <1>7 DEF MapAt, Here, At
<1>9. MapStack' = [MapStack EXCEPT ![s] = <<>>]
  BY <1>2, <1>5, <1>7 DEF MapStack, SavedPlaces
<1> QED BY <1>4, <1>5, <1>6, <1>8, <1>9 DEF IInv, Moves

-----------------------------------------------------------------------------
(* The specification                                                       *)

LEMMA InitLaw ==
  ASSUME Init
  PROVE  IInv /\ Stack!Init
<1>1. PICK f \in Fref :
        scr = [s \in Screen |-> IF s = First
                                THEN [on |-> TRUE, ep |-> s, f |-> f, lno |-> 1, tq |-> <<>>]
                                ELSE NoScr]
  BY DEF Init
<1> DEFINE r(s) == [on |-> TRUE, ep |-> s, f |-> f, lno |-> 1, tq |-> <<>>]
<1>3. ASSUME NEW s PROVE ScreenOK(r(s)) /\ r(s).on /\ r(s).f = f /\ r(s).lno = 1 /\ r(s).tq = <<>>
  <2> DEFINE q == r(s)
  <2>1. q.on /\ q.ep = s /\ q.f = f /\ q.lno = 1 /\ q.tq = <<>>
    OBVIOUS
  <2>2. q = [on |-> TRUE, ep |-> q.ep, f |-> q.f, lno |-> q.lno, tq |-> q.tq]
    BY <2>1
  <2>3. QueueOK(<<>>)
    BY EmptySeq DEF QueueOK
  <2> HIDE DEF q
  <2>4. ScreenOK(q)
    BY <2>1, <2>2, <2>3, Bounds DEF ScreenOK
  <2> QED BY <2>1, <2>4 DEF q
<1> HIDE DEF r
<1>4. /\ scr = [s \in Screen |-> scr[s]]
      /\ \A s \in Screen : scr[s] = IF s = First THEN r(s) ELSE NoScr
  BY <1>1 DEF r
<1>5. ScrOK(scr)
  BY <1>3, <1>4 DEF ScrOK
<1>6. fref \in FrefType
  <2>1. [set |-> FALSE, lno |-> 0] \in [set : BOOLEAN, lno : 0..Lines]
    BY Bounds
  <2> QED BY <2>1 DEF Init, FrefType
<1>7. ~NoScr.on /\ NoScr.tq = <<>>
  BY DEF NoScr
<1>8. MapAt \in [Screen -> [f : Fref, lno : Line] \cup {Null}]
  BY <1>3, <1>4, <1>7, Bounds DEF MapAt, Here, At
<1>9. MapStack = [s \in Screen |-> <<>>]
  BY <1>3, <1>4, <1>7 DEF MapStack
<1> QED BY <1>5, <1>6, <1>8, <1>9 DEF IInv, Stack!Init, MapAt, MapStack

(* One step, and what it is of the stack of places.                        *)
LEMMA NextLaw ==
  ASSUME IInv, Next, "temp" \notin Quirks
  PROVE  /\ IInv'
         /\ Quirks = {} => \/ UNCHANGED <<MapAt, MapStack>>
                           \/ \E s \in On : \/ Goes(s) \/ Saves(s) \/ Comes(s)
                                            \/ Moves(s, Null, <<>>)
                                            \/ \E u \in Screen : Opens(s, u)
<1>1. PICK s \in On : (\E force \in BOOLEAN : Follow(s, force) \/ Return(s, force)) \/ Stay(s)
  BY DEF Next
<1>2. ASSUME NEW force, Follow(s, force)
      PROVE  IInv' /\ (Goes(s) \/ Saves(s) \/ Moves(s, Null, <<>>))
  <2>1. CASE \E t \in Tag : Push(s, t, force)
    BY <2>1, PushLaw
  <2>2. CASE \E d \in {-1, 1} : Step(s, d, force)
    BY <2>2, StepLaw
  <2>3. CASE \E f \in File : Edit(s, f, force)
    BY <2>3, EditLaw
  <2>4. CASE Close(s, force)
    BY <2>4, CloseLaw
  <2> QED BY <1>2, <2>1, <2>2, <2>3, <2>4 DEF Follow
<1>3. ASSUME NEW force, Return(s, force)
      PROVE  IInv' /\ (Quirks = {} => Comes(s))
  BY <1>3, ReturnLaw
<1>4. ASSUME Stay(s)
      PROVE  IInv' /\ \/ Goes(s) \/ UNCHANGED <<MapAt, MapStack>>
                      \/ \E u \in Screen : Opens(s, u)
  <2>1. CASE \E u \in Screen \ On, t \in Tag : PushNew(s, u, t)
    BY <2>1, PushNewLaw
  <2>2. CASE \E u \in Screen \ On : Split(s, u)
    BY <2>2, SplitLaw
  <2>3. CASE \E l \in Line : Move(s, l)
    BY <2>3, MoveLaw
  <2>4. CASE Modify(s)
    <3>1. scr' = scr /\ fref' = fref
      BY <2>4 DEF Modify
    <3> QED BY <3>1 DEF IInv, ScrOK, MapAt, MapStack, Here, At, SavedPlaces
  <2> QED BY <1>4, <2>1, <2>2, <2>3, <2>4 DEF Stay
<1> QED BY <1>1, <1>2, <1>3, <1>4

LEMMA IInvHolds ==
  ASSUME "temp" \notin Quirks
  PROVE  Spec => []IInv
<1>1. Init => IInv
  BY InitLaw
<1>2. IInv /\ [Next]_vars => IInv'
  <2> SUFFICES ASSUME IInv, [Next]_vars PROVE IInv'
    OBVIOUS
  <2>1. CASE Next
    BY <2>1, NextLaw
  <2>2. CASE UNCHANGED vars
    BY <2>2 DEF vars, IInv, ScrOK
  <2> QED BY <2>1, <2>2
<1> QED BY <1>1, <1>2, PTL DEF Spec

(* However screens push tags, pop them, are split and closed, the last     *)
(* group of every queue is the local context, no other is, and no TAG      *)
(* names an FREF that was freed (ex/ex_tag.c:434, 527, 590), as long as    *)
(* :Tag is not given in the temporary file.                                *)
THEOREM StackStaysSound == "temp" \notin Quirks => (Spec => []StackSound)
<1> SUFFICES ASSUME "temp" \notin Quirks PROVE Spec => []StackSound
  OBVIOUS
<1>1. IInv => StackSound
  <2> SUFFICES ASSUME IInv, NEW s \in On
               PROVE  LET tq == scr[s].tq
                      IN /\ tq # <<>> => /\ Len(tq) >= 2
                                         /\ \A i \in DOMAIN tq : tq[i].tag = Null <=> i = Len(tq)
                         /\ \A i \in DOMAIN tq : \A j \in DOMAIN tq[i].tags :
                              tq[i].tags[j].f \notin {Gone, Null}
    BY DEF StackSound, StackShape, RefsLive
  <2> DEFINE tq == scr[s].tq
  <2>1. QueueOK(tq)
    BY OnOK
  <2> HIDE DEF tq
  <2>2. tq \in Seq(GroupType) /\ DOMAIN tq = 1..Len(tq)
    BY <2>1, LenProperties DEF QueueOK
  <2>3. ASSUME NEW i \in DOMAIN tq, NEW j \in DOMAIN tq[i].tags
        PROVE  tq[i].tags[j].f \notin {Gone, Null}
    <3>1. tq[i].tags \in Seq(TagType)
      BY <2>2, ElementOfSeq DEF GroupType
    <3>2. tq[i].tags[j] \in TagType
      BY <3>1, LenProperties, ElementOfSeq
    <3> QED BY <3>2, TagsAssumption DEF TagType
  <2> QED BY <2>1, <2>2, <2>3 DEF QueueOK, tq
<1> QED BY <1>1, IInvHolds, PTL

(* Without the commands that the editor gets wrong, following tags and     *)
(* popping them is a stack of places: the refinement of TagStack (the      *)
(* comment of tag_pop(), ex/ex_tag.c:496).                                 *)
THEOREM TagsReturn == Quirks = {} => (Spec => Returns)
<1> SUFFICES ASSUME Quirks = {} PROVE Spec => Returns
  OBVIOUS
<1>1. Spec => []IInv
  BY IInvHolds
<1>2. Init => Stack!Init
  BY InitLaw
<1>3. IInv /\ [Next]_vars => [Stack!Next]_<<MapAt, MapStack>>
  <2> SUFFICES ASSUME IInv, [Next]_vars, ~UNCHANGED <<MapAt, MapStack>>
               PROVE  Stack!Next
    OBVIOUS
  <2>1. Next
    BY DEF vars, MapAt, MapStack, Here, At, SavedPlaces
  <2>2. PICK s \in On : \/ Goes(s) \/ Saves(s) \/ Comes(s) \/ Moves(s, Null, <<>>)
                        \/ \E u \in Screen : Opens(s, u)
    BY <2>1, NextLaw
  <2>3. /\ s \in Screen /\ MapAt[s] = Here(s) /\ Here(s) \in PlaceType
        /\ PlaceType = [f : Fref, lno : Line] /\ MapAt[s] # Null
    <3>1. PlaceType = [f : Fref, lno : Line]
      BY DEF PlaceType, Row
    <3>2. Here(s) \in PlaceType /\ MapAt[s] = Here(s)
      BY OnOK, StackAt
    <3> QED BY <3>1, <3>2, OnOK, TagsAssumption DEF Fref, Line
  <2> HIDE DEF MapAt, MapStack
  <2>4. CASE Goes(s)
    BY <2>3, <2>4 DEF Goes, Moves, Stack!Next, Stack!Go, MapAt, MapStack
  <2>5. CASE Saves(s)
    <3>1. PICK p \in PlaceType :
                 Moves(s, p, <<IF scr[s].f = Temp THEN p ELSE Here(s)>> \o MapStack[s])
      BY <2>5 DEF Saves
    <3>2. MapAt[s] \in [f : {Temp}, lno : Line] <=> scr[s].f = Temp
      <4>1. Here(s) = [f |-> scr[s].f, lno |-> scr[s].lno] /\ scr[s].lno \in Line
        BY <2>3 DEF Here, At
      <4> QED BY <2>3, <4>1
    <3>3. /\ MapAt' = [MapAt EXCEPT ![s] = p]
          /\ MapStack' = [MapStack EXCEPT ![s] = <<Stack!Saved(MapAt[s], p)>> \o @]
      <4>1. (IF scr[s].f = Temp THEN p ELSE Here(s)) = Stack!Saved(MapAt[s], p)
        BY <2>3, <3>2 DEF Stack!Saved
      <4> QED BY <3>1, <4>1 DEF Moves
    <3>4. Stack!Push(s)
      BY <2>3, <3>3 DEF Stack!Push, MapAt, MapStack
    <3> QED BY <2>3, <3>4 DEF Stack!Next, MapAt
  <2>6. CASE Comes(s)
    BY <2>3, <2>6 DEF Comes, Moves, Stack!Next, Stack!Pop, Stack!Rest, MapAt, MapStack
  <2>7. CASE Moves(s, Null, <<>>)
    BY <2>3, <2>7 DEF Moves, Stack!Next, Stack!Close, MapAt, MapStack
  <2>8. CASE \E u \in Screen : Opens(s, u)
    <3>1. PICK u \in Screen : Opens(s, u)
      BY <2>8
    <3>2. Stack!Open(s, u)
      BY <2>3, <3>1 DEF Opens, Moves, Stack!Open, MapAt, MapStack
    <3> QED BY <2>3, <3>1, <3>2 DEF Stack!Next, MapAt
  <2> QED BY <2>2, <2>4, <2>5, <2>6, <2>7, <2>8
<1> QED BY <1>1, <1>2, <1>3, PTL DEF Spec, Returns, Stack!Spec, MapAt, MapStack
=============================================================================
