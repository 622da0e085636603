------------------------------ MODULE ScreenMap ------------------------------
(***************************************************************************)
(* The map of a vi screen (vi/vs_smap.c, with vs_line() of vi/vs_line.c    *)
(* and the sizes of vi/vs_relative.c): which part of which line each row   *)
(* of the window shows, and what has been painted there.                   *)
(*                                                                         *)
(* The functions take the window, a record v:                              *)
(*   text      the file: an identity and a length for each line           *)
(*   map       the slots HMAP..TMAP: lno, soff, and whether vs_line() has  *)
(*             cached the offsets sb and eb of the slot's characters       *)
(*   rows, y   what the terminal shows on each row, the last one being the *)
(*             mode line, and the row of the terminal's cursor             *)
(*   ss        the line whose size vs_screens() remembers, and the size    *)
(*   minrows   t_minrows; t_rows is the length of the map                  *)
(*   lno, cno, olno, ocno, scol, smap    the cursor, the cursor at the     *)
(*             last refresh, its screen column, and its slot (0 is NULL)   *)
(*   redraw, reformat, top, center, invalid    the flags of the same names *)
(*   odd       not in the program: a change has been made that leaves the  *)
(*             map or the remembered size wrong (Torn, Kept)               *)
(*   hit, n, err, rp    results: the row where vs_line() met the cursor, a *)
(*             count, an error return, the position a command moves to     *)
(* Every character takes one column, and a row has Cols of them.           *)
(***************************************************************************)
EXTENDS Integers, Sequences

CONSTANTS Cols,      \* columns of the screen
          MaxRows    \* t_maxrows: rows of text in a window of full size

ASSUME SizeAssumption == Cols \in Nat \ {0} /\ MaxRows \in Nat /\ MaxRows >= 2

(* What a row of the terminal shows, other than <<a line, an offset in it>>. *)
Blank == <<0, 0>>
Tilde == <<0, 1>>
ModeLine == <<0, 2>>

OOBLNO == 0
NoSize == [lno |-> OOBLNO, n |-> 0]
Slot(l, s) == [lno |-> l, soff |-> s, on |-> FALSE, sb |-> 0, eb |-> 0]
Flushed(p) == [p EXCEPT !.on = FALSE]
AllFlushed(slots) == SubSeq([i \in 1..Len(slots) |-> Flushed(slots[i])], 1, Len(slots))

Least(a, b) == IF a < b THEN a ELSE b

TRows(v) == Len(v.map)
HMap(v) == v.map[1]
TMap(v) == v.map[Len(v.map)]
IsSmall(v) == v.minrows # MaxRows
HalfText(v) == IF TRows(v) = 1 THEN 1 ELSE TRows(v) \div 2
HalfScreen == IF MaxRows = 1 THEN 1 ELSE MaxRows \div 2

-----------------------------------------------------------------------------
(* Sizes                                                                   *)

Exists(v, n) == n \in 1..Len(v.text)
LenOf(v, n) == IF Exists(v, n) THEN v.text[n].len ELSE 0
RowsOf(len) == IF len = 0 THEN 1 ELSE (len + Cols - 1) \div Cols

(* vs_screens(sp, n, NULL): the remembered size when it is that line's.    *)
vs_screens(v, n) == IF v.ss.lno = n THEN v.ss.n ELSE RowsOf(LenOf(v, n))
Sized(v, n) == [v EXCEPT !.ss = [lno |-> n, n |-> vs_screens(v, n)]]

(* vs_screens(sp, LNO, &CNO): the rows down to the cursor's column.        *)
CursorScreens(v) == IF LenOf(v, v.lno) = 0 THEN 1 ELSE (v.cno \div Cols) + 1

(* The character at column col of line n, or its last one.                 *)
vs_colpos(v, n, col) == IF LenOf(v, n) = 0 THEN 0 ELSE Least(col, LenOf(v, n) - 1)

(* The slots after and before one; the one before (1, 1) has line OOBLNO.  *)
vs_sm_next(v, p) ==
  IF vs_screens(v, p.lno) = p.soff THEN Slot(p.lno + 1, 1) ELSE Slot(p.lno, p.soff + 1)

vs_sm_prev(v, p) ==
  IF p.soff # 1 THEN Slot(p.lno, p.soff - 1) ELSE Slot(p.lno - 1, vs_screens(v, p.lno - 1))

SizedPrev(v, p) == IF p.soff # 1 THEN v ELSE Sized(v, p.lno - 1)

(* vs_sm_nlines(): rows from slot p to the start of line to, counted in    *)
(* v.n no further than max.                                                *)
RECURSIVE CountRows(_, _, _, _, _)
CountRows(v, l, step, to, max) ==
  IF (IF step = 1 THEN l >= to ELSE l < to) \/ v.n > max THEN v
  ELSE CountRows([Sized(v, l) EXCEPT !.n = v.n + vs_screens(v, l)], l + step, step, to, max)

vs_sm_nlines(v, p, to, max) ==
  IF p.lno = to THEN [v EXCEPT !.n = p.soff - 1]
  ELSE IF p.lno > to THEN CountRows([v EXCEPT !.n = p.soff - 1], p.lno - 1, -1, to, max)
  ELSE CountRows([Sized(v, p.lno) EXCEPT !.n = vs_screens(v, p.lno) - p.soff + 1],
                 p.lno + 1, 1, to, max)

-----------------------------------------------------------------------------
(* Painting a row: vs_line().  With want, it looks for the cursor too.     *)

(* Where the characters of slot i start.  Counting from the start of a     *)
(* line that is too short ends at its end, or past it when its last row is *)
(* full.                                                                   *)
HardWay(len, soff) ==
  IF (soff - 1) * Cols <= len THEN (soff - 1) * Cols
  ELSE IF len % Cols # 0 THEN len ELSE len + 1

StartOf(v, i) ==
  IF v.map[i].soff = 1 THEN 0
  ELSE IF v.map[i].on THEN v.map[i].sb
  ELSE IF i > 1 /\ v.map[i - 1].on /\ v.map[i - 1].lno = v.map[i].lno THEN v.map[i - 1].eb + 1
  ELSE HardWay(LenOf(v, v.map[i].lno), v.map[i].soff)

AtCursor(v, i, column) == [v EXCEPT !.hit = i, !.scol = column]

DrawEmpty(v, i) ==
  IF v.map[i].on THEN v
  ELSE [v EXCEPT !.map[i].sb = 0, !.map[i].eb = 0,
                 !.rows[i] = IF v.map[i].soff = 1 /\ v.map[i].lno # 1 /\ ~Exists(v, v.map[i].lno)
                             THEN Tilde ELSE Blank]

DrawText(v, i, start, len) ==
  IF v.map[i].on THEN [v EXCEPT !.map[i].sb = start]
  ELSE [v EXCEPT !.map[i].on = TRUE, !.map[i].sb = start,
                 !.map[i].eb = Least(start + Cols, len) - 1,
                 !.rows[i] = IF start < len THEN <<v.text[v.map[i].lno].id, start>> ELSE Blank]

FindInText(v, i, want, start, len) ==
  IF want /\ v.map[i].lno = v.lno /\ v.cno \in start..(Least(start + Cols, len) - 1)
  THEN AtCursor(v, i, v.cno - start) ELSE v

DrawAt(v, i, want, start, len) == DrawText(FindInText(v, i, want, start, len), i, start, len)

vs_line(v, i, want) ==
  IF ~want /\ v.map[i].on THEN v
  ELSE IF LenOf(v, v.map[i].lno) = 0
       THEN DrawEmpty(IF want /\ v.map[i].lno = v.lno THEN AtCursor(v, i, 0) ELSE v, i)
  ELSE DrawAt(v, i, want, StartOf(v, i), LenOf(v, v.map[i].lno))

RECURSIVE DrawRange(_, _, _)
DrawRange(v, i, j) == IF i > j THEN v ELSE DrawRange(vs_line(v, i, FALSE), i + 1, j)

-----------------------------------------------------------------------------
(* Scrolling the terminal: rows y, y + 1, ... of the window.               *)

vs_deleteln(v, y, k) ==
  [v EXCEPT !.y = y,
            !.rows = [r \in 1..(MaxRows + 1) |-> IF r < y THEN v.rows[r]
                                                ELSE IF r + k <= MaxRows + 1 THEN v.rows[r + k]
                                                ELSE Blank]]

vs_insertln(v, y, k) ==
  [v EXCEPT !.y = y,
            !.rows = [r \in 1..(MaxRows + 1) |-> IF r < y \/ r = MaxRows + 1 THEN v.rows[r]
                                                ELSE IF r < y + k THEN Blank
                                                ELSE v.rows[r - k]]]

(* One row up, one row down; opened says that the window has just been     *)
(* given one more row.                                                     *)
Raised(v, t) == [Sized(v, t.lno) EXCEPT !.map = Append(Tail(v.map), vs_sm_next(v, t))]
vs_sm_1up(v) == vs_line(Raised(vs_deleteln(v, 1, 1), TMap(v)), TRows(v), FALSE)

Lowered(v, h, opened) ==
  [SizedPrev(v, h) EXCEPT !.map = <<vs_sm_prev(v, h)>> \o
                                  (IF opened THEN v.map ELSE SubSeq(v.map, 1, Len(v.map) - 1))]
vs_sm_1down(v, opened) == vs_line(Lowered(vs_insertln(v, 1, 1), HMap(v), opened), 1, FALSE)

RECURSIVE UpBy(_, _)
UpBy(v, k) == IF k <= 0 THEN v ELSE UpBy(vs_sm_1up(v), k - 1)
RECURSIVE DownBy(_, _)
DownBy(v, k) == IF k <= 0 THEN v ELSE DownBy(vs_sm_1down(v, FALSE), k - 1)

(* Fill the slots after slot i, without and with painting them.            *)
WithNext(v, i) == [Sized(v, v.map[i].lno) EXCEPT !.map[i + 1] = vs_sm_next(v, v.map[i])]

RECURSIVE FillNext(_, _)
FillNext(v, i) == IF i = TRows(v) THEN v ELSE FillNext(WithNext(v, i), i + 1)

RECURSIVE ShowNext(_, _)
ShowNext(v, i) == IF i = TRows(v) THEN v ELSE ShowNext(vs_line(WithNext(v, i), i + 1, FALSE), i + 1)

(* Fill the slots before slot i; the error is the start of the file.       *)
RECURSIVE FillPrev(_, _)
FillPrev(v, i) ==
  IF i = 1 THEN [v EXCEPT !.err = FALSE]
  ELSE IF vs_sm_prev(v, v.map[i]).lno = OOBLNO THEN [SizedPrev(v, v.map[i]) EXCEPT !.err = TRUE]
  ELSE FillPrev([SizedPrev(v, v.map[i]) EXCEPT !.map[i - 1] = vs_sm_prev(v, v.map[i])], i - 1)

-----------------------------------------------------------------------------
(* vs_sm_fill(): fill the map around line n, or, when n is OOBLNO, around  *)
(* the first or the last slot as it is.  The map does not fail downwards.  *)

FillTop(v, n) == FillNext([v EXCEPT !.map[1] = Slot(n, 1)], 1)

(* Mutant of FillHead: a first slot beyond a line that has shrunk stays.   *)
FillHeadUnclipped(v) == FillNext(v, 1)
FillHead(v) ==
  FillNext([Sized(v, HMap(v).lno) EXCEPT
              !.map[1].soff = IF vs_screens(v, HMap(v).lno) < @ THEN 1 ELSE @], 1)

OrTop(v) == IF v.err THEN FillTop([v EXCEPT !.err = FALSE], 1) ELSE v
FromTail(v) == OrTop(FillPrev(v, TRows(v)))

OrMiddle(v, i) == IF v.err THEN OrTop(v) ELSE FillNext(v, i)
FromMiddle(v, i) == OrMiddle(FillPrev(v, i), i)
FillMiddle(v, n) ==
  FromMiddle([v EXCEPT !.map[(TRows(v) \div 2) + 1] = Slot(n, 1)], (TRows(v) \div 2) + 1)

FillBottom(v, n) == FromTail([Sized(v, n) EXCEPT !.map[TRows(v)] = Slot(n, vs_screens(v, n))])

NearBottom(v, n, last) ==
  IF v.n <= HalfText(v) THEN FromTail([v EXCEPT !.map[TRows(v)] = last]) ELSE FillMiddle(v, n)
FromBottom(v, n, last) == NearBottom(vs_sm_nlines(v, last, n, HalfText(v)), n, last)
NearTop(v, n) ==
  IF v.n <= HalfText(v) THEN FillTop(v, 1)
  ELSE FromBottom(Sized(v, Len(v.text)), n, Slot(Len(v.text), vs_screens(v, Len(v.text))))
FillBest(v, n) == NearTop(vs_sm_nlines(v, Slot(1, 1), n, HalfText(v)), n)

Emptied(v) == [v EXCEPT !.map = AllFlushed(v.map), !.redraw = TRUE]

vs_sm_fill(v, n, pos) ==
  CASE pos = "fill" -> FillBest(Emptied(v), n)
    [] pos = "top" /\ n # OOBLNO -> FillTop(Emptied(v), n)
    [] pos = "top" /\ n = OOBLNO -> FillHead(Emptied(v))
    [] pos = "middle" -> FillMiddle(Emptied(v), n)
    [] pos = "bottom" /\ n # OOBLNO -> FillBottom(Emptied(v), n)
    [] pos = "bottom" /\ n = OOBLNO -> FromTail(Emptied(v))

-----------------------------------------------------------------------------
(* vs_change(): line n of the file has been deleted, inserted or replaced. *)

FirstSlot(v, n) ==
  CHOOSE i \in 1..TRows(v) : v.map[i].lno = n /\ \A j \in 1..(i - 1) : v.map[j].lno # n
SlotsFrom(v, p, n) ==
  CHOOSE k \in 1..(TRows(v) + 1 - p) :
     /\ \A i \in p..(p + k - 1) : v.map[i].lno = n
     /\ p + k > TRows(v) \/ v.map[p + k].lno # n

(* A line put in at the top of a map that starts inside a line, or one     *)
(* there that has as many rows left as it showed.                          *)
Torn(v, p) == [v EXCEPT !.odd = @ \/ v.map[p].soff # 1]

(* The size remembered of a line that is not in the map stays.             *)
Kept(v) == [v EXCEPT !.odd = @ \/ (v.ss.lno # OOBLNO /\ v.ss.n # RowsOf(LenOf(v, v.ss.lno)))]

(* A line that fills the window: have the next refresh do it all.          *)
TooBig(v, k) == k >= TRows(v)
Reformat(v) == [v EXCEPT !.reformat = TRUE]

(* Slots p and up move k places, to lines by further on.                   *)
Shifted(slots, by) == SubSeq([i \in 1..Len(slots) |-> [slots[i] EXCEPT !.lno = @ + by]], 1, Len(slots))
From(v, p) == SubSeq(v.map, p, Len(v.map))
Pulled(v, p, k, by) ==
  [v EXCEPT !.map = SubSeq(v.map, 1, p - 1) \o Shifted(From(v, p + k), -by) \o From(v, Len(v.map) - k + 1)]
Pushed(v, p, k, by) ==
  [v EXCEPT !.map = SubSeq(v.map, 1, p + k - 1) \o Shifted(SubSeq(v.map, p, Len(v.map) - k), by)]

(* Slots p and up are given to the first k rows of line n.                 *)
Given(v, p, k, n) ==
  [v EXCEPT !.map = SubSeq(v.map, 1, p - 1)
                    \o [i \in 1..Least(k, Len(v.map) + 1 - p) |-> Slot(n, i)] \o From(v, p + k)]

DeleteSlots(v, p, k) ==
  IF TooBig(v, k) THEN Reformat(v)
  ELSE ShowNext(Pulled(vs_deleteln(v, p, k), p, k, 1), TRows(v) - k)
vs_sm_delete(v, n) == DeleteSlots(v, FirstSlot(v, n), SlotsFrom(v, FirstSlot(v, n), n))

InsertSlots(v, p, k, n) ==
  DrawRange(Given(Pushed(vs_insertln(Torn(v, p), p, k), p, k, 1), p, k, n), p, p + k - 1)
vs_sm_insert(v, n) ==
  IF TooBig(v, vs_screens(v, n)) THEN Reformat(Sized(v, n))
  ELSE InsertSlots(Sized(v, n), FirstSlot(v, n),
                   Least(vs_screens(v, n), TRows(v) + 1 - FirstSlot(v, n)), n)

(* Mutant of SameSize: the slots are not flushed.                          *)
SameSizeCached(v, p, k) == DrawRange(Torn(v, p), p, p + k - 1)
SameSize(v, p, k) ==
  DrawRange([Torn(v, p) EXCEPT !.map = SubSeq(v.map, 1, p - 1) \o AllFlushed(SubSeq(v.map, p, p + k - 1)) \o From(v, p + k)],
            p, p + k - 1)
Opened(v, p, k) == IF p = TRows(v) THEN v ELSE Pushed(vs_insertln(v, p, k), p, k, 0)
Longer(v, p, new, old, n) ==
  DrawRange(Given(Opened(v, p, Least(new - old, TRows(v) + 1 - p)), p, new, n),
            p, Least(p + new - 1, TRows(v)))
Shorter(v, p, new, old, n) ==
  ShowNext(DrawRange(Given(Pulled(vs_deleteln(v, p, old - new), p, old - new, 0), p, new, n),
                     p, p + new - 1), TRows(v) - (old - new))

ResetSlots(v, p, new, old, n) ==
  IF TooBig(v, old) THEN Reformat(v)
  ELSE IF old = new THEN SameSize(v, p, old)
  ELSE IF old < new THEN Longer(v, p, new, old, n)
  ELSE Shorter(v, p, new, old, n)
vs_sm_reset(v, n) ==
  ResetSlots(Sized(v, n), FirstSlot(v, n), vs_screens(v, n), SlotsFrom(v, FirstSlot(v, n), n), n)

(* A line above the map: renumber it, and the cursor with it.              *)
Renumbered(v, n, by) ==
  [v EXCEPT !.map = Shifted(v.map, by),
            !.lno = IF v.lno >= n THEN @ + by ELSE @]

Touched(v, n) == [v EXCEPT !.ss = NoSize, !.invalid = @ \/ v.lno = n]
Restored(v, y) == [v EXCEPT !.y = y]

ChangeAt(v, n, op) ==
  CASE n > TMap(v).lno -> Kept(v)
    [] n < HMap(v).lno -> IF op = "reset" THEN Kept(v)
                          ELSE Renumbered(Kept(v), n, IF op = "delete" THEN -1 ELSE 1)
    [] OTHER -> Restored(CASE op = "delete" -> vs_sm_delete(Touched(v, n), n)
                           [] op = "insert" -> vs_sm_insert(Touched(v, n), n)
                           [] op = "reset" -> vs_sm_reset(Touched(v, n), n), v.y)

(* The first line of a file without a second one is painted over the line  *)
(* an empty file shows; an append is an insert one line further.           *)
FirstOfFile(v, n, op) == ~Exists(v, 2) /\ <<op, n>> \in {<<"append", 0>>, <<"insert", 1>>}
vs_change(v, n, op) ==
  IF FirstOfFile(v, n, op) THEN ChangeAt(v, 1, "reset")
  ELSE IF op = "append" THEN ChangeAt(v, n + 1, "insert")
  ELSE ChangeAt(v, n, op)

-----------------------------------------------------------------------------
(* Positions.  v.rp is the position found, v.err that there is none.       *)

(* vs_sm_cursor(): the slot of the cursor in v.n, 0 when it has none.      *)
RECURSIVE CursorSlot(_, _)
CursorSlot(v, i) ==
  IF i > TRows(v) THEN [v EXCEPT !.n = 0]
  ELSE IF i < TRows(v) /\ v.map[i + 1].lno # v.map[i].lno THEN [v EXCEPT !.n = i]
  ELSE IF vs_line(v, i, FALSE).map[i].eb >= v.cno THEN [vs_line(v, i, FALSE) EXCEPT !.n = i]
  ELSE CursorSlot(vs_line(v, i, FALSE), i + 1)

vs_sm_cursor(v) ==
  IF v.lno < HMap(v).lno \/ v.lno > TMap(v).lno THEN [v EXCEPT !.n = 0]
  ELSE CursorSlot(v, FirstSlot(v, v.lno))

Failed(v) == [v EXCEPT !.err = TRUE]
To(v, i) == [v EXCEPT !.rp = [lno |-> v.map[i].lno, cno |-> v.map[i].sb], !.err = FALSE]
ToSlot(v, i) == To(vs_line(v, i, FALSE), i)

(* The last slot, from slot i back, whose line exists, or the first slot.  *)
RECURSIVE LastReal(_, _)
LastReal(v, i) == IF i > 1 /\ v.map[i].lno > Len(v.text) THEN LastReal(v, i - 1) ELSE i

MiddleSlot(v, i) == IF Exists(v, TMap(v).lno) THEN 1 + ((TRows(v) - 1) \div 2) ELSE i - ((i - 1) \div 2)
BottomSlot(v, cnt) ==
  LET i == TRows(v) - cnt
  IN  IF Exists(v, v.map[i].lno) THEN i ELSE LastReal(v, i) - cnt
vs_sm_position(v, cnt, pos) ==
  CASE pos = "top" /\ cnt < TRows(v) /\ (cnt = 0 \/ Exists(v, v.map[1 + cnt].lno)) -> ToSlot(v, 1 + cnt)
    [] pos = "middle" -> ToSlot(v, MiddleSlot(v, LastReal(v, TRows(v))))
    [] pos = "bottom" /\ cnt < TRows(v) /\ BottomSlot(v, cnt) > 0 -> ToSlot(v, BottomSlot(v, cnt))
    [] OTHER -> Failed(v)
=============================================================================
