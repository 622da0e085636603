------------------------------ MODULE Editing ------------------------------
(***************************************************************************)
(* The commands of vi() that move over a text, and cut, delete and put it  *)
(* (vi/vi.c, vi/v_delete.c, vi/v_yank.c, vi/v_xchar.c, vi/v_put.c,         *)
(* common/cut.c, common/delete.c, common/put.c), with the cut buffers and  *)
(* the column the cursor returns to.  One action is one command.           *)
(***************************************************************************)
EXTENDS Motions, TLC

CONSTANTS Texts,        \* the files editing starts from
          Counts,       \* counts of the commands; 0 when none is given
          Named,        \* buffer names given to y; "A" appends to "a"
          NamedD,       \* and to d
          NumBufs,      \* numbered buffers, 9 in the code
          Few,          \* those of Texts from which commands are given,
          MaxCmds,      \* and at most how many
          MoveKeys,     \* motions given as commands
          OpKeys,       \* motions given to y and d
          CommonOnly    \* leave out the commands that Common() tells apart

ASSUME EditingAssumption ==
  /\ Few \subseteq Texts /\ Counts \subseteq Nat /\ NumBufs \in Nat \ {0} /\ MaxCmds \in Nat
  /\ Named \cup NamedD \subseteq {"a", "A"}
  /\ MoveKeys \subseteq Keys /\ OpKeys \subseteq Keys
  /\ CommonOnly \in BOOLEAN

(* The text; the cursor, sp->lno and cno; sp->rcm, or AtLast; the cut      *)
(* buffers; the deletions meant for the numbered buffers, the last one     *)
(* first (kept for the properties); the commands that may still be given.  *)
VARIABLES file,
          cur,
          rcm,
          cb,
          deleted,
          room

edvars == <<file, cur, rcm, cb, deleted, room>>

(* cb.q: the buffers of gp->cutq by name; cb.store: gp->dcb_store;         *)
(* cb.dflt: what gp->dcbp points to.                                       *)
Num == 1..NumBufs
BufA == 0           \* "a"
Store == -1
NoBuf == -2         \* NULL
Freed == -3
AtLast == -1        \* VIP_RCM_LAST
None == [lmode |-> FALSE, textq |-> <<>>, there |-> FALSE]
Cb(lmode, textq) == [lmode |-> lmode, textq |-> textq, there |-> TRUE]

(* vi() leaves the cursor outside the line in two ways: a count given to $ *)
(* that ends on an empty line, and P of text whose first line is empty.    *)
Common(ok) == CommonOnly => ok

(***************************************************************************)
(* cut()                                                                   *)
(***************************************************************************)
Take(s, n) == SubSeq(s, 1, n)
Drop(s, n) == SubSeq(s, n + 1, Len(s))

(* cut_line() over the region; nothing is taken from an empty line.        *)
Piece(s, from, to) == IF s = <<>> THEN <<>> ELSE SubSeq(s, from + 1, to + 1)
CutLines(F, fm, tm, lmode) ==
  IF lmode THEN SubSeq(F, fm.lno, tm.lno)
  ELSE IF fm.lno = tm.lno THEN << Piece(F[fm.lno], fm.cno, tm.cno) >>
  ELSE << Drop(F[fm.lno], fm.cno) >> \o SubSeq(F, fm.lno + 1, tm.lno - 1)
       \o << Piece(F[tm.lno], 0, tm.cno) >>

(* cb_rotate(): the last numbered buffer is freed.                         *)
(* Mutant of Rotate: the buffers stay where they are.                       *)
RotateNot(b) == b
Rotate(b) ==
  [b EXCEPT !.q = [n \in DOMAIN @ |->
                     IF n \notin Num THEN @[n] ELSE IF n = 1 THEN None ELSE @[n - 1]],
            !.dflt = IF @ \notin Num THEN @ ELSE IF @ = NumBufs THEN Freed ELSE @ + 1]

(* One pass of the copy loop, into the store or a buffer of the list.      *)
CopyTo(b, to, append, text, lmode) ==
  LET old == IF to = Store THEN b.store ELSE b.q[to]
      new == IF append /\ old.there
             THEN Cb(old.lmode \/ lmode, old.textq \o text) ELSE Cb(lmode, text)
  IN IF to = Store THEN [b EXCEPT !.store = new, !.dflt = to]
     ELSE [b EXCEPT !.q[to] = new, !.dflt = to]

(* name is "" when no buffer was named; numbered when the cut is one that  *)
(* goes to the numbered buffers.                                           *)
(* The second pass after a rotation is into the buffer named, not into 1.  *)
Cut(b, F, name, fm, tm, lmode, numbered) ==
  LET text == CutLines(F, fm, tm, lmode)
      append == name = "A"
      r == IF numbered THEN Rotate(b) ELSE b
      first == CopyTo(r, BufA, append, text, lmode)
  IN IF name = "" THEN CopyTo(r, IF numbered THEN 1 ELSE Store, FALSE, text, lmode)
     ELSE IF numbered THEN CopyTo(first, BufA, FALSE, text, lmode)
     ELSE IF append THEN CopyTo(first, Store, FALSE, text, lmode)
     ELSE first

(***************************************************************************)
(* del()                                                                   *)
(***************************************************************************)
(* Mutant of Del: the last character of the region stays.                   *)
DelOpenEnd(F, fm, tm, lmode) ==
  IF lmode THEN Take(F, fm.lno - 1) \o Drop(F, tm.lno)
  ELSE Take(F, fm.lno - 1)
       \o << Take(F[fm.lno], fm.cno) \o Drop(F[tm.lno], IF tm.cno < 0 THEN 0 ELSE tm.cno) >>
       \o Drop(F, tm.lno)
Del(F, fm, tm, lmode) ==
  IF lmode THEN Take(F, fm.lno - 1) \o Drop(F, tm.lno)
  ELSE Take(F, fm.lno - 1)
       \o << Take(F[fm.lno], fm.cno) \o Drop(F[tm.lno], tm.cno + 1) >>
       \o Drop(F, tm.lno)

(***************************************************************************)
(* put()                                                                   *)
(***************************************************************************)
RECURSIVE Copies(_, _)
Copies(s, n) == IF n = 0 THEN <<>> ELSE s \o Copies(s, n - 1)

(* The text and the cursor after buffer c is put cnt times at cp; col is   *)
(* sp->cno.                                                                *)
PutAt(F, c, cp, append, cnt, col) ==
  LET lno == IF F = <<>> THEN 0 ELSE IF append THEN cp.lno ELSE cp.lno - 1
      byline == Take(F, lno) \o Copies(c.textq, cnt) \o Drop(F, lno)
      line == IF F = <<>> THEN <<>> ELSE F[cp.lno]
      split == IF line = <<>> THEN 0 ELSE cp.cno + (IF append THEN 1 ELSE 0)
      first == Take(line, split) \o Copies(c.textq[1], cnt)
      rest == Drop(line, split)
      n == Len(c.textq)
      lines == IF n = 1 THEN << first \o rest >>
               ELSE << first >> \o SubSeq(c.textq, 2, n - 1) \o << c.textq[n] \o rest >>
  IN IF c.lmode
     THEN [file |-> byline,
           rp |-> Pos(lno + 1, IF F = <<>> THEN 0 ELSE Nonblank(byline, lno + 1, 0))]
     ELSE [file |-> Take(F, cp.lno - 1) \o lines \o Drop(F, cp.lno),
           rp |-> Pos(cp.lno,
                      IF line = <<>> THEN 0
                      ELSE col + (IF append /\ c.textq[1] # <<>> THEN 1 ELSE 0))]

(***************************************************************************)
(* v_motion(): the region of an operator, with its ends in file order.     *)
(***************************************************************************)
(* Mutant of InOrder: the ends are not put in order.                        *)
AsGiven(m) == m
InOrder(m) == IF m.ok /\ Before(m.stop, m.start)
              THEN [m EXCEPT !.start = m.stop, !.stop = m.start] ELSE m
Region(F, p, key, count, op, c) ==
  IF F = <<>> /\ op # "c" THEN Fail ELSE InOrder(Motion(F, p, key, count, op, c))

(* dd, yy: the current line and the ones below it.                         *)
Doubled(F, p, count) ==
  LET l == p.lno + Times(count) - 1
  IN IF ~Exists(F, l) THEN Fail
     ELSE Vicmd(Pos(p.lno, 0), Pos(l, EndCol(F, l)), p, TRUE)

(***************************************************************************)
(* The end of a command: the cursor, and the column to come back to.       *)
(***************************************************************************)
Settle(F, final, how) ==
  /\ cur' = [final EXCEPT !.cno =
               CASE how = "RCM" -> IF rcm = AtLast
                                   THEN IF Exists(F, final.lno) THEN EndCol(F, final.lno) ELSE 0
                                   ELSE ColPos(F, final.lno, rcm)
                 [] how = "FNB" -> Nonblank(F, final.lno, 0)
                 [] OTHER -> @]
  /\ rcm' = CASE how = "LAST" -> AtLast [] how = "RCM" -> rcm [] OTHER -> cur'.cno
  /\ room' = room - 1

(* VM_RCM of the motions given as commands.                                *)
KeyRcm(key) == CASE key \in {"j", "k"} -> "RCM" [] key \in {"G", "_"} -> "FNB"
                 [] key = "$" -> "LAST" [] OTHER -> "SET"

Chars == Word \cup Stops
Args(key) == IF key \in {"f", "F", "t", "T"} THEN Chars ELSE {""}

Move(key, count, c) ==
  \E m \in {Motion(file, cur, key, count, "", c)} :
    /\ m.ok
    /\ Common(key = "$" /\ count > 1 => file[m.stop.lno] # <<>>)
    /\ Settle(file, m.final, IF m.rcm # "" THEN m.rcm ELSE KeyRcm(key))
    /\ UNCHANGED <<file, cb, deleted>>

(* v_yank()                                                                *)
Clip(F, p) == [p EXCEPT !.cno = Least(@, EndCol(F, p.lno))]
Yank(m, name, rcmset) ==
  /\ m.ok
  /\ cb' = Cut(cb, file, name, m.start, m.stop, m.lmode, FALSE)
  /\ Settle(file, IF m.lmode THEN m.final ELSE Clip(file, m.final),
            IF ~m.lmode THEN "SET" ELSE rcmset)
  /\ UNCHANGED <<file, deleted>>

(* v_delete()                                                              *)
Delete(m, name, cutreq, rcmset) ==
  LET left == Del(file, m.start, m.stop, m.lmode)
      final == IF Exists(left, m.final.lno) THEN m.final
               ELSE [m.final EXCEPT !.lno = Len(left)]
      numbered == cutreq \/ m.lmode \/ m.start.lno # m.stop.lno
  IN /\ m.ok
     /\ file' = left
     /\ cb' = Cut(cb, file, name, m.start, m.stop, m.lmode, numbered)
     /\ deleted' = IF numbered
                   THEN << Cb(m.lmode, CutLines(file, m.start, m.stop, m.lmode)) >>
                        \o deleted
                   ELSE deleted
     /\ IF left = <<>> THEN Settle(left, Pos(1, 0), rcmset)
        ELSE IF m.lmode THEN Settle(left, final, rcmset)
        ELSE Settle(left, Clip(left, final), "SET")

Operate(key, count, c) ==
  \/ \E m \in {Region(file, cur, key, count, "y", c)}, name \in Named \cup {""} :
       Yank(m, name, IF m.ok /\ m.rcm # "" THEN m.rcm ELSE "RCM")
  \/ \E m \in {Region(file, cur, key, count, "d", c)}, name \in NamedD \cup {""} :
       Delete(m, name, key \in CutReq, IF m.ok /\ m.rcm # "" THEN m.rcm ELSE "RCM")
Line(count) ==
  \/ \E name \in Named \cup {""} : Yank(Doubled(file, cur, count), name, "SET")
  \/ \E name \in NamedD \cup {""} :
       Delete(Doubled(file, cur, count), name, FALSE, "FNB")

(* v_xchar(), v_Xchar()                                                    *)
Chop(start, stop, col) ==
  LET left == Del(file, start, stop, FALSE)
  IN /\ cb' = Cut(cb, file, "", start, stop, FALSE, FALSE)
     /\ file' = left
     /\ Settle(left, Pos(cur.lno, col), "SET")
     /\ UNCHANGED deleted
Xchar(count) ==
  LET last == EndCol(file, cur.lno)
      stop == cur.cno + Times(count) - 1
  IN /\ Exists(file, cur.lno) /\ file[cur.lno] # <<>>
     /\ IF stop >= last
        THEN Chop(cur, Pos(cur.lno, last), IF cur.cno > 0 THEN cur.cno - 1 ELSE 0)
        ELSE Chop(cur, Pos(cur.lno, stop), cur.cno)
XcharLeft(count) ==
  LET from == IF Times(count) >= cur.cno THEN 0 ELSE cur.cno - Times(count)
  IN cur.cno > 0 /\ Chop(Pos(cur.lno, from), Left(cur), from)

(* v_put(), v_Put(): the default buffer, or one by its name.               *)
Put(count, append) ==
  \E to \in {cb.dflt} \cup DOMAIN cb.q :
    LET c == IF to = Store THEN cb.store ELSE cb.q[to]
        r == PutAt(file, c, cur, append, Times(count), cur.cno)
    IN /\ to \in DOMAIN cb.q \cup {Store} /\ c.there
       /\ Common(~append /\ ~c.lmode /\ Len(c.textq) > 1 => c.textq[1] # <<>>)
       /\ file' = r.file
       /\ Settle(r.file, r.rp, "SET")
       /\ UNCHANGED <<cb, deleted>>

(* A command that fails, "zp say: the cursor stays, its column is taken    *)
(* again.                                                                  *)
Failed == Settle(file, cur, "SET") /\ UNCHANGED <<file, cb, deleted>>

(***************************************************************************)
Cursors(F) == IF F = <<>> THEN {Pos(1, 0)}
              ELSE UNION {{Pos(l, c) : c \in 0..EndCol(F, l)} : l \in DOMAIN F}

Init ==
  /\ file \in Texts /\ cur \in Cursors(file)
  /\ rcm = cur.cno
  /\ cb = [q |-> [n \in Num \cup {BufA} |-> None], store |-> None, dflt |-> NoBuf]
  /\ deleted = <<>> /\ room = IF file \in Few THEN MaxCmds ELSE 0

Next ==
  /\ room > 0
  /\ \/ \E key \in MoveKeys, n \in Counts, c \in Chars \cup {""} :
          c \in Args(key) /\ Move(key, n, c)
     \/ \E key \in OpKeys, n \in Counts, c \in Chars \cup {""} :
          c \in Args(key) /\ Operate(key, n, c)
     \/ \E n \in Counts : Line(n)
     \/ \E n \in Counts : Xchar(n)
     \/ \E n \in Counts : XcharLeft(n)
     \/ \E n \in Counts, append \in BOOLEAN : Put(n, append)
     \/ Failed

Spec == Init /\ [][Next]_edvars

(***************************************************************************)
(* What moving, cutting and putting promise.                               *)
(***************************************************************************)
(* The cursor is on a character, or in column 0 of an empty line: what the *)
(* sanity check of vs_paint() (vi/vs_refresh.c:466) expects of every       *)
(* command.                                                                *)
CursorInFile == cur \in Cursors(file)

(* The numbered buffers hold the last deletions of more than part of a     *)
(* line, the latest in 1 (the comment of cut(), common/cut.c:41).          *)
NumberedHoldLastDeletes ==
  \A n \in Num : n <= Len(deleted) => cb.q[n] = deleted[n]

(* gp->dcbp points to a buffer that is there, whatever was rotated away.   *)
DefaultIsThere ==
  /\ cb.dflt # Freed
  /\ cb.dflt \in DOMAIN cb.q => cb.q[cb.dflt].there
  /\ cb.dflt = Store => cb.store.there

(* A put finds what was deleted, by number or by default, however often    *)
(* the buffers were rotated since (cut_rotate(), common/cut.c:172).        *)
CutBuffersHold == NumberedHoldLastDeletes /\ DefaultIsThere

-----------------------------------------------------------------------------
(* The motions of an operator at the cursor, with their arguments.  ) from *)
(* the middle of a line of blanks that ends the file stops before it.      *)
Given == {k \in [key : OpKeys, n : Counts, c : Chars \cup {""}] :
            /\ k.c \in Args(k.key) /\ file # <<>>
            /\ ~(k.key = ")" /\ IsEmpty(file, cur.lno) /\ cur.cno > 0)}
Alone(k) == Motion(file, cur, k.key, k.n, "", k.c)
Under(k, op) == Region(file, cur, k.key, k.n, op, k.c)

(* Whatever the motion, cut() and del() are given a region of the text:    *)
(* its ends in order and inside their lines, but for the column before the *)
(* first, which both add 1 to.                                             *)
RegionInFile ==
  \A op \in {"c", "d", "y"}, k \in Given : \A m \in {Under(k, op)} :
    m.ok =>
      /\ Exists(file, m.start.lno) /\ Exists(file, m.stop.lno)
      /\ m.start.lno <= m.stop.lno
      /\ ~m.lmode =>
           /\ m.start.cno \in 0..Len(file[m.start.lno])
           /\ m.stop.cno \in -1..EndCol(file, m.stop.lno)
           /\ m.start.lno = m.stop.lno => m.start.cno <= m.stop.cno + 1

(* No command ends outside the text, and none cuts outside it.             *)
PlacesInFile == CursorInFile /\ RegionInFile

(* cut(), del() and put() agree on what a region is: text deleted and put  *)
(* back where it was leaves the file as it was.                            *)
PutUndoesDelete ==
  \A k \in Given : \A m \in {Under(k, "d")} :
    LET c == Cb(m.lmode, CutLines(file, m.start, m.stop, m.lmode))
        left == Del(file, m.start, m.stop, m.lmode)
    IN m.ok => PutAt(left, c, m.start, FALSE, 1, m.start.cno).file = file

(* An operator takes exactly the text its motion moves over: the           *)
(* characters from the cursor or from the place the motion goes to,        *)
(* whichever is first, up to the other, which is taken only by the         *)
(* inclusive motions.  (w, W, l, ), } and ]] have rules of their own at    *)
(* the end of a line or of the file, T takes one character too many when   *)
(* it does not move, and { one paragraph next to the start of a macro.)    *)
Inclusive == {"e", "E", "f", "t", "$", "%"}
Exclusive == {"b", "B", "(", "{", "[[", "h", "0", "^", "|", "F"}
Cuts(m, p) == /\ ~Before(p, m.start)
              /\ p.lno < m.stop.lno \/ (p.lno = m.stop.lno /\ p.cno <= m.stop.cno)
RegionExact ==
  \A k \in {k \in Given : /\ k.key \in Inclusive \cup Exclusive
                          /\ ~(k.key = "{" /\ cur.cno = 1 /\ IsMacro(file, cur.lno))} :
   \A m \in {Alone(k)}, r \in {Under(k, "y")} :
    LET lo == IF Before(m.final, cur) THEN m.final ELSE cur
        hi == IF lo = cur THEN m.final ELSE cur
    IN (m.ok /\ r.ok /\ ~r.lmode) =>
         \A p \in Cursors(file) :
           Cuts(r, p) <=> /\ ~Before(p, lo)
                          /\ Before(p, hi) \/ p = lo \/ (p = hi /\ k.key \in Inclusive)

(* Together: an operator takes what its motion moves over, and a put gives  *)
(* it back.                                                                *)
RegionSound == RegionExact /\ PutUndoesDelete

(***************************************************************************)
(* Words, from their definition.                                           *)
(***************************************************************************)
Class(F, p, big) == IF big THEN "text"
                    ELSE IF F[p.lno][p.cno + 1] \in Word THEN "word" ELSE "other"
TextAt(F, l, c) == c \in 0..Len(F[l]) - 1 /\ F[l][c + 1] \notin Blank
(* Characters of a word with no character of it before (d = -1), after (1).*)
Edges(F, big, d) ==
  {p \in Cursors(F) :
     /\ TextAt(F, p.lno, p.cno)
     /\ TextAt(F, p.lno, p.cno + d) =>
          Class(F, p, big) # Class(F, [p EXCEPT !.cno = @ + d], big)}
NthFrom(ps, p, n, fwd) ==
  LET far == {q \in ps : IF fwd THEN Before(p, q) ELSE Before(q, p)}
      rank(q) == Cardinality({r \in far : r = q \/ (IF fwd THEN Before(r, q) ELSE Before(q, r))})
  IN {q \in far : rank(q) = n}
FileEnd(F) == Pos(Len(F), IF IsEmpty(F, Len(F)) THEN 0 ELSE EndCol(F, Len(F)))

(* A word command goes to the count-th start or end of a word that way,    *)
(* or to the end of the file when there are not as many; it fails only     *)
(* when it would not move.                                                 *)
WordsLandRight ==
  file # <<>> =>
    \A key \in {"w", "W", "e", "E", "b", "B"}, n \in Counts :
      LET big == key \in {"W", "E", "B"}
          fwd == key \notin {"b", "B"}
          to == NthFrom(Edges(file, big, IF key \in {"e", "E"} THEN 1 ELSE -1),
                        cur, Times(n), fwd)
          dest == IF to # {} THEN CHOOSE p \in to : TRUE
                  ELSE IF fwd THEN FileEnd(file) ELSE Pos(1, 0)
      IN \A m \in {Motion(file, cur, key, n, "", "")} :
           IF dest = cur THEN ~m.ok ELSE m.ok /\ m.final = dest
=============================================================================
