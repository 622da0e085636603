------------------------------ MODULE ExLines ------------------------------
(***************************************************************************)
(* The ex commands that work on whole lines (ex/ex_append.c, ex_delete.c,  *)
(* ex_equal.c, ex_join.c, ex_mark.c, ex_move.c, ex_print.c, ex_put.c,      *)
(* ex_shift.c, ex_yank.c, ex_z.c) with what they use of common/: the line  *)
(* operations, the marks and the cut buffers.                              *)
(*                                                                         *)
(* x is the screen: what ExParse says of it, cuts, the cut buffers in line *)
(* mode by name, and dcb, the name of the default one ("none" is NULL,     *)
(* "unnamed" is dcb_store).  A command is a function of x and the EXCMD e; *)
(* its return value is in x.ok; x.dead says that the editor crashed.       *)
(***************************************************************************)
EXTENDS ExCommand

CONSTANTS TabStop, ShiftWidth, Window       \* the options
ASSUME OptionsAssumption == /\ TabStop \in Nat \ {0} /\ ShiftWidth \in Nat \ {0}
                            /\ Window \in Nat /\ Window > 1

Exist(x, l) == l \in 1..Len(x.file)
Fail(x) == [x EXCEPT !.ok = FALSE]

(* The first nonblank character of line l.                                 *)
Blanks == {" ", "^I"}
Nonblank(x, l) ==
  IF ~Exist(x, l) THEN 0
  ELSE LET k == Run(x.file[l], Blanks)
       IN  IF k < Len(x.file[l]) THEN k ELSE IF k = 0 THEN 0 ELSE k - 1

-----------------------------------------------------------------------------
(* db_delete(), db_insert() and db_append() with mark_insdel(): the first  *)
(* line of an empty file moves no mark.                                    *)
DeleteLine(x, l) ==
  [x EXCEPT !.file = RemoveAt(@, l),
            !.marks = [m \in DOMAIN @ |->
                         IF @[m].lno > l THEN [@[m] EXCEPT !.lno = @ - 1]
                         ELSE IF @[m].lno = l THEN [@[m] EXCEPT !.del = TRUE] ELSE @[m]]]
InsertLine(x, l, text) ==
  [x EXCEPT !.file = InsertAt(@, l, text),
            !.marks = IF x.file = <<>> THEN @
                      ELSE [m \in DOMAIN @ |->
                              IF @[m].lno >= l THEN [@[m] EXCEPT !.lno = @ + 1] ELSE @[m]]]
AppendLine(x, l, text) == InsertLine(x, l + 1, text)
SetLine(x, l, text) == [x EXCEPT !.file[l] = text]
AppendLines(x, l, lines) ==
  FoldLeft(LAMBDA y, i : AppendLine(y, l + i - 1, lines[i]), x, [i \in DOMAIN lines |-> i])

(* mark_set().                                                             *)
SetMark(x, name, at) ==
  [x EXCEPT !.marks = (name :> [lno |-> at.lno, cno |-> at.cno, del |-> FALSE]) @@ @]

(* cut() of whole lines.  It cannot cut line 0; when one of the others     *)
(* does not exist it leaves the buffer empty.                              *)
Cut(x, buf, a1, a2) ==
  LET name == IF buf = "none" THEN "unnamed" ELSE buf
  IN  IF a1.lno = 0 \/ a2.lno = 0 THEN Fail(x)
      ELSE IF \E l \in a1.lno..a2.lno : ~Exist(x, l)
        THEN [Fail(x) EXCEPT !.cuts = (name :> <<>>) @@ @, !.dcb = "none"]
      ELSE [x EXCEPT !.cuts = (name :> SubSeq(x.file, a1.lno, a2.lno)) @@ @, !.dcb = name]

(* del() of whole lines, from the last to the first.                       *)
Del(x, a1, a2) ==
  FoldLeft(LAMBDA y, i : DeleteLine(y, a2.lno + 1 - i), x, [i \in 1..(a2.lno + 1 - a1.lno) |-> i])

-----------------------------------------------------------------------------
ex_delete(x, e) ==
  LET c == Cut(x, e.buf, e.a1, e.a2)
      d == Del(c, e.a1, e.a2)
  IN  IF ~c.ok THEN c
      ELSE [d EXCEPT !.cur.lno = IF e.a1.lno > Len(d.file) THEN Len(d.file) ELSE e.a1.lno]

ex_yank(x, e) == Cut(x, e.buf, e.a1, e.a2)

(* put() of whole lines.  It follows a null pointer when the buffer has no *)
(* line, which only a cut that failed leaves: the editor is dead.          *)
ex_put(x, e) ==
  LET name == IF e.buf = "none" THEN x.dcb ELSE e.buf
      y    == AppendLines(x, IF x.file = <<>> THEN 0 ELSE e.a1.lno, x.cuts[name])
      to   == e.a1.lno + 1
  IN  IF name \notin DOMAIN x.cuts THEN Fail(x)
      ELSE IF x.cuts[name] = <<>> THEN [Fail(x) EXCEPT !.dead = TRUE]
      ELSE IF e.a1.lno = 1 /\ x.file = <<>> THEN [y EXCEPT !.cur = Pos(1, 0)]
      ELSE [y EXCEPT !.cur = Pos(to, Nonblank(y, to))]

ex_copy(x, e) ==
  LET lines == SubSeq(x.file, e.a1.lno, e.a2.lno)
  IN  [AppendLines(x, e.lineno, lines) EXCEPT !.cur = Pos(e.lineno + Len(lines), 0)]

-----------------------------------------------------------------------------
(* ex_move().  The marks but ' are moved by hand, and only when one of     *)
(* them is between the first line moved and the destination.               *)
MarksBetween(x, fl, tl) ==
  \E m \in DOMAIN x.marks \ {"'"} : x.marks[m].lno \in fl..tl

\* Mutant of MarksTo: the lines are moved, the marks are not.
MarksStay(x, reset, from, to) == x
MarksTo(x, reset, from, to) ==
  IF ~reset THEN x
  ELSE [x EXCEPT !.marks = [m \in DOMAIN @ |-> IF m # "'" /\ @[m].lno = from
                                                THEN [@[m] EXCEPT !.lno = to] ELSE @[m]]]

\* One line down, from fl to behind tl; or up, when what moves is then at fl + 1.
LineDown(x, reset, fl, tl) ==
  DeleteLine(MarksTo(AppendLine(x, tl, x.file[fl]), reset, fl, tl + 1), fl)
LineUp(x, reset, fl, tl) ==
  DeleteLine(MarksTo(AppendLine(x, tl, x.file[fl]), reset, fl, tl + 1), fl + 1)

\* Mutant of ex_move: going up, the second line is put before the first one.
MoveReversed(x, e) ==
  LET fl == e.a1.lno  tl == e.lineno
      diff == e.a2.lno - fl + 1
  IN  IF tl \in fl..e.a2.lno THEN Fail(x)
      ELSE IF tl > fl
        THEN [FoldLeft(LAMBDA y, i : LineDown(y, MarksBetween(x, fl, tl), fl, tl), x,
                       [i \in 1..diff |-> i]) EXCEPT !.cur = Pos(tl, 0)]
        ELSE [FoldLeft(LAMBDA y, i : LineUp(y, FALSE, fl + i - 1, tl), x,
                       [i \in 1..diff |-> i]) EXCEPT !.cur = Pos(tl + diff, 0)]
ex_move(x, e) ==
  LET fl    == e.a1.lno  tl == e.lineno
      diff  == e.a2.lno - fl + 1
      reset == MarksBetween(x, fl, tl)
      each  == [i \in 1..diff |-> i]
  IN  IF tl \in fl..e.a2.lno THEN Fail(x)
      ELSE IF tl > fl
        THEN [FoldLeft(LAMBDA y, i : LineDown(y, reset, fl, tl), x, each) EXCEPT
                !.cur = Pos(tl, 0)]
        ELSE [FoldLeft(LAMBDA y, i : LineUp(y, reset, fl + i - 1, tl + i - 1), x, each) EXCEPT
                !.cur = Pos(tl + diff, 0)]

-----------------------------------------------------------------------------
(* ex_join().  j: the line built so far, whether one was put in it, and    *)
(* the column of the cursor.  Empty lines go away.                         *)
Between(j, t) ==
  IF j.first \/ Last(j.text) \in Blanks \/ At(t, {")"}) THEN <<>>
  ELSE IF Last(j.text) \in {".", "?", "!"} THEN <<" ", " ">> ELSE <<" ">>

(* force: nothing is put in or left out.  A last line of blanks only ends  *)
(* the text in a blank, whatever is left of it.                            *)
JoinOne(force, j, t) ==
  LET plain == j.first \/ force
      gap   == IF plain THEN <<>> ELSE Between(j, t)
      tail  == IF plain \/ (gap = <<>> /\ Last(j.text) \notin Blanks) THEN t ELSE Skip(t, Blanks)
      at    == Len(j.text) + Len(gap)
      extra == IF Len(gap) = 2 THEN 1 ELSE 0
  IN  IF t = <<>> THEN j
      ELSE [text |-> j.text \o gap \o tail, first |-> FALSE,
            cno  |-> IF j.first THEN Len(t) - 1 ELSE at - (1 + extra)]

ex_join(x, e) ==
  LET asked == IF e.def \/ e.n = 1 THEN e.a2.lno + 1 ELSE e.a2.lno
      to    == IF asked > Len(x.file) THEN Len(x.file) ELSE asked
      lines == SubSeq(x.file, e.a1.lno, to)
      j     == FoldLeft(LAMBDA k, t : JoinOne(e.force, k, t),
                        [text |-> <<>>, first |-> TRUE, cno |-> x.cur.cno], lines)
      d     == Del(x, Pos(e.a1.lno + 1, 0), Pos(to, 0))
  IN  IF ~Exist(x, e.a1.lno + 1) THEN Fail(x)
      ELSE [IF j.first THEN d ELSE SetLine(d, e.a1.lno, j.text) EXCEPT
              !.cur = Pos(e.a1.lno, j.cno)]

-----------------------------------------------------------------------------
(* shift(), the expandtab option not set.                                  *)
Width(s) == FoldLeft(LAMBDA n, c : IF c = "^I" THEN n + (TabStop - (n % TabStop))
                                          ELSE n + 1, 0,
                     SubSeq(s, 1, Run(s, Blanks)))
Indent(n) == [i \in 1..((n \div TabStop) + (n % TabStop)) |->
                IF i <= n \div TabStop THEN "^I" ELSE " "]

NewWidth(dir, w, sw) == IF dir = ">" THEN w + sw ELSE IF w < sw THEN 0 ELSE w - sw

(* One line; k is x and curset, whether the line of the cursor was seen.   *)
ShiftLine(k, dir, sw, l) ==
  LET t    == k.x.file[l]
      old  == Run(t, Blanks)
      w    == NewWidth(dir, Width(t), sw)
      new  == Len(Indent(w))
      here == k.x.cur.lno = l
      cno  == k.x.cur.cno
  IN  IF t = <<>> \/ (dir = "<" /\ w = Width(t)) THEN [k EXCEPT !.curset = @ \/ here]
      ELSE [x |-> [SetLine(k.x, l, Indent(w) \o Rest(t, old)) EXCEPT
                     !.cur.cno = IF ~here \/ (new <= old /\ cno < old - new) THEN @
                                 ELSE @ + new - old],
            curset |-> k.curset \/ here]

ex_shift(x, e) ==
  LET c  == Cut(x, "none", e.a1, e.a2)
      sw == ShiftWidth * Len(e.argv)
      k  == FoldLeft(LAMBDA q, i : ShiftLine(q, e.cmd, sw, e.a1.lno + i - 1),
                     [x |-> c, curset |-> FALSE], [i \in 1..(e.a2.lno - e.a1.lno + 1) |-> i])
  IN  IF ~c.ok THEN c
      ELSE IF k.curset THEN k.x ELSE [k.x EXCEPT !.cur = Pos(e.a2.lno, Nonblank(k.x, e.a2.lno))]

-----------------------------------------------------------------------------
(* ex_aci().  rest: what is left on the command line; typed: what ex_txt() *)
(* reads from the terminal.                                                *)
RECURSIVE TextLines(_)
TextLines(s) ==
  LET k == SelectInSeq(s, LAMBDA c : c = "nl")
      first == IF k = 0 THEN s ELSE SubSeq(s, 1, k - 1)
  IN  IF s = <<>> THEN <<>>
      ELSE (IF first = <<>> THEN <<>> ELSE <<first>>)
           \o (IF k = Len(s) THEN <<<<>>>> ELSE IF k = 0 THEN <<>> ELSE TextLines(Rest(s, k)))

ex_aci(x, e, rest, typed) ==
  LET lno  == IF e.cmd \in {"c", "i"} /\ e.a1.lno # 0 THEN e.a1.lno - 1 ELSE e.a1.lno
      c    == IF e.cmd = "c" /\ e.a1.lno # 0 THEN Cut(x, "none", e.a1, e.a2) ELSE x
      d    == IF e.cmd = "c" /\ e.a1.lno # 0 THEN Del(c, e.a1, e.a2) ELSE c
      text == TextLines(rest) \o typed
      y    == AppendLines(d, lno, text)
      end  == lno + Len(text)
  IN  IF ~c.ok THEN [c EXCEPT !.cur.lno = e.a1.lno]
      ELSE [y EXCEPT !.cur.lno = IF end = 0 /\ Exist(y, 1) THEN 1 ELSE end]

-----------------------------------------------------------------------------
(* ex_print(): it fails on a line that does not exist.                     *)
ex_print(x, a1, a2) ==
  IF \A l \in a1.lno..a2.lno : Exist(x, l) THEN [x EXCEPT !.cur = a2] ELSE Fail(x)

ex_equal(x, e) == x
ex_mark(x, e) == SetMark(x, e.argv[1], e.a1)

(* ex_z().  Half of a count of zero is half the range of the unsigned      *)
(* type, here anything longer than the file; two flags are as good as none.*)
ex_z(x, e) ==
  LET cnt  == IF e.counted THEN e.count ELSE Window - 1
      half == IF cnt = 0 THEN Len(x.file) + 1 ELSE (cnt - 1) \div 2
      one  == Cardinality(ToSet(e.argv)) = 1
      lno  == IF ~one /\ e.def THEN e.a1.lno + 1 ELSE e.a1.lno
      flag == IF one THEN e.argv[1] ELSE "+"
      Eof(l) == Pos(IF l > Len(x.file) THEN Len(x.file) ELSE l, e.a2.cno)
      From(l) == Pos(l, e.a1.cno)
      first == CASE flag = "^" -> IF lno > cnt * 2 THEN lno - cnt * 2 + 1 ELSE 1
                 [] flag = "-" -> IF lno > cnt THEN lno - cnt + 1 ELSE 1
                 [] flag \in {".", "="} -> IF lno > half THEN lno - half ELSE 1
                 [] flag = "+" -> lno
      last  == CASE flag \in {"^", "+"} -> Eof(first + cnt - 1)
                 [] flag = "-" -> Pos(lno, e.a2.cno)
                 [] flag = "." -> Eof(lno + half)
                 [] flag = "=" -> Eof(lno + half - 1)
      y == IF flag = "." THEN SetMark(x, "'", x.cur) ELSE x
      p == ex_print(y, From(first), last)
  IN  IF flag # "=" THEN p
      ELSE LET b == ex_print(y, From(first), Pos(lno - 1, e.a2.cno))
               h == ex_print(b, From(lno), Pos(lno, e.a2.cno))
               a == ex_print(h, From(lno + 1), last)
           IN  IF b.ok /\ h.ok /\ a.ok THEN [a EXCEPT !.cur.lno = lno] ELSE Fail(h)
=============================================================================
