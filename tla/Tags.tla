-------------------------------- MODULE Tags --------------------------------
(***************************************************************************)
(* The tags stack of a screen (ex/ex_tag.c): a queue of groups of tags,    *)
(* the TAGQs, each with the TAG of it that is current.  The place saved    *)
(* when a tag is followed is kept in the current TAG of the group below,   *)
(* at the bottom in a group of one TAG made for it, the local context.     *)
(*                                                                         *)
(* An FREF is the name of a file, or Temp, the unnamed file of an editor   *)
(* started without one.  Columns, and files that shrink, are left out; so  *)
(* are commands that fail for want of memory or disk, and autowrite.       *)
(***************************************************************************)
EXTENDS Integers, Sequences, FiniteSets

CONSTANTS
  Screen,       \* bound: the screens there may be
  File,         \* the files
  Tag,          \* the tags of the tags file
  Ctags,        \* what it says of them: [file, at], at 0 when the pattern is not found
  Lines,        \* bound: the lines of every file, a number
  MaxStack,     \* bound: TAGQs of a screen
  MaxCmds,      \* bound: commands given
  Temp, Gone, Null,     \* the temporary FREF, an FREF freed, no tag
  Quirks        \* commands let in that the editor gets wrong, see Lets()

ASSUME TagsAssumption ==
  /\ Ctags \in [Tag -> Seq([file : File, at : 0..Lines]) \ {<<>>}]
  /\ Lines \in Nat \ {0} /\ MaxStack \in Nat /\ MaxCmds \in Nat
  /\ Temp \notin File /\ Gone \notin File /\ Temp # Gone /\ Null \notin Tag
  /\ Null \notin File \cup [f : File \cup {Temp}, lno : 1..Lines]
  /\ Quirks \subseteq {"number", "shared", "temp", "nowhere"}

(* scr: sp->ep, frp and lno and EXP(sp)->tq; fref: FR_CURSORSET and lno of *)
(* the FREFs; mod: F_MODIFIED of the EXFs.                                 *)
VARIABLES scr,
          fref,
          mod,
          crashed,      \* tag_pop() followed a null pointer
          cmds          \* commands that may still be given

vars == <<scr, fref, mod, crashed, cmds>>

Fref == File \cup {Temp}
Ep == Screen            \* as many EXFs as screens
Line == 1..Lines
NoScr == [on |-> FALSE, ep |-> Null, f |-> Null, lno |-> 0, tq |-> <<>>]

Lets(quirk, ok) == quirk \in Quirks \/ ok

On == {s \in Screen : scr[s].on}
Users(e) == {s \in On : scr[s].ep = e}
Others(s) == Users(scr[s].ep) \ {s}
Cur(q) == q.tags[q.cur]

(* Place in a file, as the stack keeps it: frp and lno of a TAG.           *)
At(f, l) == [f |-> f, lno |-> l]
Here(s) == At(scr[s].f, scr[s].lno)

-----------------------------------------------------------------------------
(* Files                                                                   *)

(* file_m1(): the text of the last screen of a file is not left unsaved.   *)
MayLeave(s, force) == force \/ ~mod[scr[s].ep] \/ Others(s) # {}

(* file_end(): the last screen of an EXF leaves its cursor in the FREF.    *)
SavedIn(fr, s) == [fr EXCEPT ![scr[s].f] = [set |-> TRUE, lno |-> scr[s].lno]]
Ended(fr, s) == IF Others(s) = {} THEN SavedIn(fr, s) ELSE fr
(* file_cinit(); there is no line 0.                                       *)
Cinit(fr, f) == IF fr[f].set /\ fr[f].lno # 0 THEN fr[f].lno ELSE 1

(* The temporary FREF is freed with its EXF; the TAGs that name it stay.   *)
LosesTemp(s) == scr[s].f = Temp /\ Others(s) = {}
Dangle(tq) ==
  [i \in DOMAIN tq |-> [tq[i] EXCEPT !.tags =
     [j \in DOMAIN @ |-> IF @[j].f = Temp THEN [@[j] EXCEPT !.f = Gone] ELSE @[j]]]]
Without(sc, s) ==
  IF LosesTemp(s) THEN [t \in Screen |-> [sc[t] EXCEPT !.tq = Dangle(@)]] ELSE sc

(* An EXF nobody uses once s has left its own.                             *)
NewEp(s) == CHOOSE e \in Ep : Users(e) \subseteq {s}
Modified(sc, e, clean) ==
  [x \in Ep |-> mod[x] /\ x # clean /\ \E t \in Screen : sc[t].on /\ sc[t].ep = x]

(* file_init() on the FREF f in s, and then the queue tq, whose place must *)
(* be l unless it is 0.                                                    *)
Load(fr, s, f, l, tq) ==
  LET ended == Ended(fr, s)
      e == NewEp(s)
      to == [on |-> TRUE, ep |-> e, f |-> f,
             lno |-> IF l = 0 THEN Cinit(ended, f) ELSE l, tq |-> tq]
  IN /\ fref' = ended
     /\ scr' = Without([scr EXCEPT ![s] = to], s)
     /\ mod' = Modified(scr', e, e)

(* ex_tag_nswitch(): to TAG tp in s, then ctag_search().                   *)
Nswitch(s, tp, force, tq) ==
  IF tp.f = scr[s].f
  THEN /\ scr' = [scr EXCEPT ![s].tq = tq, ![s].lno = IF tp.at = 0 THEN @ ELSE tp.at]
       /\ UNCHANGED <<fref, mod>>
  ELSE MayLeave(s, force) /\ Load(fref, s, tp.f, tp.at, tq)

-----------------------------------------------------------------------------
(* ex_tag_push()                                                           *)

(* ctag_slist(): the group of a tag.                                       *)
Tagq(t) == [tag |-> t, cur |-> 1,
            tags |-> [i \in DOMAIN Ctags[t] |->
                        [fname |-> Ctags[t][i].file, f |-> Ctags[t][i].file,
                         at |-> Ctags[t][i].at, lno |-> 0]]]
Context == [tag |-> Null, cur |-> 1,
            tags |-> <<[fname |-> Null, f |-> Null, at |-> 0, lno |-> 0]>>]

(* The place p is saved in the group that was the first one.               *)
Linked(tq, t, p) ==
  LET old == IF tq = <<>> THEN <<Context>> ELSE tq
  IN <<Tagq(t), [old[1] EXCEPT !.tags[old[1].cur] = [@ EXCEPT !.f = p.f, !.lno = p.lno]]>>
       \o Tail(old)

(* A temporary file is no place to come back to: the new place is saved.   *)
Kept(s, to) == IF scr[s].f = Temp THEN to ELSE Here(s)
Push(s, t, force) ==
  LET tp == Tagq(t).tags[1]
      to == At(tp.f, IF tp.at # 0 THEN tp.at
                        ELSE IF tp.f = scr[s].f THEN scr[s].lno
                        ELSE Cinit(Ended(fref, s), tp.f))
  IN Nswitch(s, tp, force, Linked(scr[s].tq, t, Kept(s, to)))

(* :Tag, through ex_tag_Nswitch(): screen u has a copy of the queue of s   *)
(* (ex_tag_copy()), and its file when the tag is in it.                    *)
PushNew(s, u, t) ==
  LET tp == Tagq(t).tags[1]
      same == tp.f = scr[s].f
      lno == IF tp.at # 0 THEN tp.at ELSE IF same THEN 0 ELSE Cinit(fref, tp.f)
      e == IF same THEN scr[s].ep ELSE CHOOSE x \in Ep : Users(x) = {}
  IN /\ Lets("temp", scr[s].f # Temp)
     /\ Lets("nowhere", lno # 0)
     /\ scr' = [scr EXCEPT ![u] = [on |-> TRUE, ep |-> e, f |-> tp.f, lno |-> lno,
                                   tq |-> Linked(scr[s].tq, t, Here(s))]]
     /\ mod' = Modified(scr', e, IF same THEN Null ELSE e)
     /\ UNCHANGED fref

-----------------------------------------------------------------------------
(* ex_tag_next(), ex_tag_prev(): d is 1 or -1.                             *)
Step(s, d, force) ==
  LET q == Head(scr[s].tq)
      i == q.cur + d
  IN /\ scr[s].tq # <<>>
     /\ i \in DOMAIN q.tags
     /\ Nswitch(s, q.tags[i], force, [scr[s].tq EXCEPT ![1].cur = i])

(* tag_pop(), after the groups to discard, up to the k-th, are found.      *)
(* Mutant of Left: the local context alone stays on the stack.              *)
LeftAlone(tq, k) == SubSeq(tq, k + 1, Len(tq))
Left(tq, k) == LET q == SubSeq(tq, k + 1, Len(tq)) IN IF Len(q) = 1 THEN <<>> ELSE q
(* Mutant of Popped: the line saved is not put into the FREF.               *)
PoppedNot(fr, s, tp) == [fr EXCEPT ![scr[s].f].set = TRUE]
(* FR_CURSORSET is set in the FREF that is left.                           *)
Popped(fr, s, tp) == [fr EXCEPT ![tp.f].lno = tp.lno, ![scr[s].f].set = TRUE]
Pop(s, k, force) ==
  LET tq == scr[s].tq
      tp == Cur(tq[k + 1])
  IN IF tp.f = scr[s].f
     THEN /\ scr' = [scr EXCEPT ![s].tq = Left(tq, k), ![s].lno = tp.lno]
          /\ UNCHANGED <<fref, mod>>
     ELSE /\ MayLeave(s, force)
          /\ tp.f # Gone
          /\ Lets("shared", fref[tp.f].set)
          /\ Load(Popped(fref, s, tp), s, tp.f, 0, Left(tq, k))

(* ex_tag_pop(): with no argument, a number (those above the ones of the   *)
(* entries, and one above, are refused), or a file; and ex_tag_top().      *)
PopOne(s, force) == scr[s].tq # <<>> /\ Pop(s, 1, force) /\ UNCHANGED crashed
PopNumber(s, n, force) ==
  LET k == IF n > 1 THEN n - 1 ELSE 1
  IN /\ scr[s].tq # <<>>
     /\ Lets("number", k < Len(scr[s].tq))
     /\ IF k = Len(scr[s].tq) THEN crashed' = TRUE /\ UNCHANGED <<scr, fref, mod>>
        ELSE k < Len(scr[s].tq) /\ Pop(s, k, force) /\ UNCHANGED crashed
PopFile(s, f, force) ==
  LET at == {i \in 2..Len(scr[s].tq) : Cur(scr[s].tq[i]).f = f}
  IN /\ at # {}
     /\ Pop(s, (CHOOSE i \in at : \A j \in at : i <= j) - 1, force)
     /\ UNCHANGED crashed
Top(s, force) == scr[s].tq # <<>> /\ Pop(s, Len(scr[s].tq) - 1, force) /\ UNCHANGED crashed

-----------------------------------------------------------------------------
(* Other commands                                                          *)

(* :edit                                                                   *)
Edit(s, f, force) == f # scr[s].f /\ MayLeave(s, force) /\ Load(fref, s, f, 0, scr[s].tq)
(* :Edit without a name, or :vsplit: the same file in a new screen.        *)
Split(s, u) == scr' = [scr EXCEPT ![u] = scr[s]] /\ UNCHANGED <<fref, mod>>
(* :quit of a screen that is not the last one; vs_discard() keeps its      *)
(* cursor too.                                                             *)
Close(s, force) ==
  /\ On # {s} /\ MayLeave(s, force)
  /\ fref' = SavedIn(fref, s)
  /\ scr' = Without([scr EXCEPT ![s] = NoScr], s)
  /\ mod' = Modified(scr', Null, Null)
Move(s, l) == l # scr[s].lno /\ scr' = [scr EXCEPT ![s].lno = l] /\ UNCHANGED <<fref, mod>>
Modify(s) == mod' = [mod EXCEPT ![scr[s].ep] = TRUE] /\ UNCHANGED <<scr, fref>>

-----------------------------------------------------------------------------
First == CHOOSE s \in Screen : TRUE
Init ==
  /\ \E f \in Fref :
       scr = [s \in Screen |-> IF s = First
                               THEN [on |-> TRUE, ep |-> s, f |-> f, lno |-> 1, tq |-> <<>>]
                               ELSE NoScr]
  /\ fref = [f \in Fref |-> [set |-> FALSE, lno |-> 0]]
  /\ mod = [e \in Ep |-> FALSE]
  /\ crashed = FALSE
  /\ cmds = MaxCmds

Room(s) == Len(scr[s].tq) < MaxStack
Follow(s, force) ==
  /\ UNCHANGED crashed
  /\ \/ Room(s) /\ \E t \in Tag : Push(s, t, force)
     \/ \E d \in {-1, 1} : Step(s, d, force)
     \/ \E f \in File : Edit(s, f, force)
     \/ Close(s, force)
Return(s, force) ==
  \/ PopOne(s, force)
  \/ \E n \in 1..MaxStack + 1 : PopNumber(s, n, force)
  \/ \E f \in Fref : PopFile(s, f, force)
  \/ Top(s, force)
Stay(s) ==
  /\ UNCHANGED crashed
  /\ \/ \E u \in Screen \ On, t \in Tag : Room(s) /\ PushNew(s, u, t)
     \/ \E u \in Screen \ On : Split(s, u)
     \/ \E l \in Line : Move(s, l)
     \/ Modify(s)

Next ==
  /\ ~crashed /\ cmds > 0 /\ cmds' = cmds - 1
  /\ \E s \in On : \/ \E force \in BOOLEAN : Follow(s, force) \/ Return(s, force)
                   \/ Stay(s)

Spec == Init /\ [][Next]_vars

-----------------------------------------------------------------------------
(* The places saved: the current TAGs of all groups but the first.         *)
SavedPlaces(tq) == [i \in 1..Len(tq) - 1 |-> At(Cur(tq[i + 1]).f, Cur(tq[i + 1]).lno)]

Stack == INSTANCE TagStack WITH
  Place <- [f : Fref, lno : Line],
  Temporary <- [f : {Temp}, lno : Line],
  Closed <- Null,
  at <- [s \in Screen |-> IF scr[s].on THEN Here(s) ELSE Null],
  stack <- [s \in Screen |-> IF scr[s].tq = <<>> THEN <<>> ELSE SavedPlaces(scr[s].tq)]

(* Following tags and popping them is a stack of places: a pop, whatever   *)
(* way the entry is named, lands where the editor was when the tag above   *)
(* it was followed, and no command of another screen or on a file changes  *)
(* what there is to come back to (the comment of tag_pop(),                *)
(* ex/ex_tag.c:496, and docs/USD.doc/vi.man/vi.1:2170).                    *)
Returns == Stack!Spec

(* The queue is empty, or has at least two groups of which the local       *)
(* context is the last one and no other: what tag_pop() counts on when it  *)
(* frees the groups and what ex_tag_top() counts on to find the last but   *)
(* one.                                                                    *)
StackShape ==
  \A s \in On : LET tq == scr[s].tq
                IN tq # <<>> =>
                     /\ Len(tq) >= 2
                     /\ \A i \in DOMAIN tq : tq[i].tag = Null <=> i = Len(tq)

(* A TAG of a queue names an FREF that was not freed, so that popping and  *)
(* displaying the stack are safe (ex/ex_tag.c:434, 590).                   *)
RefsLive ==
  \A s \in On : \A i \in DOMAIN scr[s].tq :
    \A j \in DOMAIN scr[s].tq[i].tags : scr[s].tq[i].tags[j].f \notin {Gone, Null}

(* What the functions of the stack take for granted of it: its last group  *)
(* is the local context and every TAG names an open FREF, whichever screen *)
(* pushed, popped, split or closed before (ex/ex_tag.c:434, 527, 590).     *)
StackSound == StackShape /\ RefsLive

(* A number that names no entry of the stack is refused ("Less than %s     *)
(* entries on the tags stack", ex/ex_tag.c:420).                           *)
NumberRefused == ~crashed
=============================================================================
