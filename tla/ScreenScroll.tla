----------------------------- MODULE ScreenScroll -----------------------------
(***************************************************************************)
(* Scrolling a window (vs_sm_scroll() and below in vi/vs_smap.c, vi/v_z.c) *)
(* and bringing it up to date (vs_paint() of vi/vs_refresh.c).             *)
(***************************************************************************)
EXTENDS ScreenMap

AtStart(v) == HMap(v).lno = 1 /\ HMap(v).soff = 1

(* The slot p after slot q is past the end of the file.                    *)
PastEnd(v, q, p) == p.lno # q.lno /\ ~Exists(v, p.lno)
NextPast(v, q) == PastEnd(v, q, vs_sm_next(v, q))
TailPast(v) == NextPast(v, TMap(v))

(* vs_sm_erase(): a small window goes back to its smallest size.           *)
vs_sm_erase(v) ==
  [v EXCEPT !.map = SubSeq(v.map, 1, v.minrows),
            !.rows = [r \in 1..(MaxRows + 1) |-> IF r \in (v.minrows + 1)..TRows(v) \/ r = MaxRows + 1
                                                THEN Blank ELSE v.rows[r]]]

-----------------------------------------------------------------------------
(* Forward: vs_sm_up().  w is a record of the window v, the count that is  *)
(* left, the slot smp the cursor goes to, and whether smp had to change    *)
(* line (^E) or has been set (z+).                                         *)

Later(w, v, i) == [w EXCEPT !.v = v, !.smp = i, !.count = @ - 1]

UpSmp(w, scmd) ==
  CASE scmd = "^E" -> IF w.smp > 1 THEN [w EXCEPT !.smp = @ - 1] ELSE [w EXCEPT !.set = TRUE]
    [] scmd = "z+" -> IF ~w.set THEN [w EXCEPT !.smp = TRows(w.v), !.set = TRUE]
                      ELSE IF w.smp > 1 THEN [w EXCEPT !.smp = @ - 1] ELSE w
    [] OTHER -> w

RECURSIVE UpLoop(_, _)
UpLoop(w, scmd) ==
  IF w.count = 0 THEN w
  ELSE IF TailPast(w.v) THEN [w EXCEPT !.v = Sized(w.v, TMap(w.v).lno)]
  ELSE UpLoop(UpSmp([w EXCEPT !.v = vs_sm_1up(w.v), !.count = @ - 1], scmd), scmd)

(* A small window has room: show more of the file below what it shows.     *)
Grown(v) == vs_line([Sized(v, TMap(v).lno) EXCEPT !.map = Append(v.map, vs_sm_next(v, TMap(v)))],
                    TRows(v) + 1, FALSE)
RECURSIVE GrowDown(_)
GrowDown(w) ==
  IF w.count = 0 \/ TRows(w.v) = MaxRows THEN w
  ELSE IF TailPast(w.v) THEN [w EXCEPT !.v = Sized(w.v, TMap(w.v).lno)]
  ELSE GrowDown(Later(w, Grown(w.v), w.smp + 1))

(* The cursor keeps moving towards the end of the file.                    *)
RECURSIVE Onward(_, _, _)
Onward(v, i, count) ==
  IF count = 0 \/ i = TRows(v) \/ ~Exists(v, v.map[i + 1].lno) THEN i
  ELSE Onward(v, i + 1, count - 1)

(* ^E and ^Y keep the column when they had to change lines.                *)
KeepColumn(w, rcm) ==
  IF w.set
  THEN [w.v EXCEPT !.rp = [lno |-> w.v.map[w.smp].lno,
                           cno |-> vs_colpos(w.v, w.v.map[w.smp].lno,
                                             (w.v.map[w.smp].soff - 1) * Cols + rcm)]]
  ELSE w.v

UpEnd(w, scmd, rcm) ==
  CASE scmd = "^E" -> KeepColumn(w, rcm)
    [] scmd = "^F" /\ w.count = 0 -> ToSlot(w.v, 1)
    [] scmd = "z+" -> ToSlot(w.v, w.smp)
    [] OTHER -> ToSlot(w.v, Onward(w.v, w.smp, w.count))

UpRest(w, scmd, rcm) == UpEnd(UpLoop(w, scmd), scmd, rcm)

(* More than a window of rows, or ^F: repaint the smallest window, with    *)
(* the row count rows on, or the one past the end of the file, at its      *)
(* bottom.                                                                 *)
RECURSIVE RowAfter(_, _, _)
RowAfter(v, p, count) ==
  IF count = 0 THEN [v EXCEPT !.map[TRows(v)] = p]
  ELSE IF NextPast(v, p) THEN [Sized(v, p.lno) EXCEPT !.map[TRows(v)] = vs_sm_next(v, p)]
  ELSE RowAfter(Sized(v, p.lno), vs_sm_next(v, p), count - 1)

UpAfar(v, count) ==
  vs_sm_position(vs_sm_fill(RowAfter(vs_sm_erase(v), TMap(v), count), OOBLNO, "bottom"), 0, "top")

(* ^E in a small window returns once the window has scrolled, without a    *)
(* new position.                                                           *)
UpGrown(w, scmd, rcm) ==
  IF scmd = "^E" THEN (IF w.count = 0 THEN w.v ELSE UpLoop(w, scmd).v)
  ELSE IF w.count = 0 THEN To(w.v, w.smp) ELSE UpRest(w, scmd, rcm)

(* Rows the window has gained move the cursor on, rows it scrolls do not:  *)
(* these go from the slot it had.                                          *)
Regained(g, smp, scmd, rcm) ==
  UpGrown(IF g.count = 0 THEN g ELSE [g EXCEPT !.smp = smp], scmd, rcm)

UpSmall(w, scmd, rcm) ==
  IF w.count >= MaxRows \/ scmd = "^F" THEN UpAfar(w.v, w.count)
  ELSE Regained(GrowDown(w), w.smp, scmd, rcm)

(* Nothing to show below the map: the cursor may still go down in it.      *)
Bound(v, smp, scmd) == TailPast(v) /\ (scmd \in {"^E", "z+"} \/ smp = TRows(v))
SizedAt(v, smp) == IF TailPast(v) THEN Sized(v, v.map[smp].lno) ELSE v

UpFrom(v, count, scmd, smp, rcm) ==
  IF Bound(v, smp, scmd) \/ (TailPast(v) /\ NextPast(v, v.map[smp])) THEN Failed(v)
  ELSE IF IsSmall(v)
       THEN UpSmall([v |-> SizedAt(v, smp), count |-> count, smp |-> smp, set |-> FALSE], scmd, rcm)
  ELSE UpRest([v |-> SizedAt(v, smp), count |-> count, smp |-> smp, set |-> FALSE], scmd, rcm)
vs_sm_up(v, count, scmd, smp, rcm) == UpFrom(Sized(v, TMap(v).lno), count, scmd, smp, rcm)

-----------------------------------------------------------------------------
(* Backward: vs_sm_down()                                                  *)

DownSmp(w, scmd) ==
  CASE scmd = "^Y" -> IF w.smp < TRows(w.v) THEN [w EXCEPT !.smp = @ + 1] ELSE [w EXCEPT !.set = TRUE]
    [] scmd = "z^" -> IF ~w.set THEN [w EXCEPT !.smp = 1, !.set = TRUE]
                      ELSE IF w.smp < TRows(w.v) THEN [w EXCEPT !.smp = @ + 1] ELSE w
    [] OTHER -> w

RECURSIVE DownLoop(_, _)
DownLoop(w, scmd) ==
  IF w.count = 0 \/ AtStart(w.v) THEN w
  ELSE DownLoop(DownSmp([w EXCEPT !.v = vs_sm_1down(w.v, FALSE), !.count = @ - 1], scmd), scmd)

RECURSIVE GrowUp(_)
GrowUp(w) ==
  IF w.count = 0 \/ TRows(w.v) = MaxRows \/ AtStart(w.v) THEN w
  ELSE GrowUp(Later(w, vs_sm_1down(w.v, TRUE), w.smp))

RECURSIVE LastShown(_, _)
LastShown(v, i) == IF i = 1 \/ Exists(v, v.map[i].lno) THEN i ELSE LastShown(v, i - 1)

DownEnd(w, scmd, rcm) ==
  CASE scmd = "^Y" -> KeepColumn(w, rcm)
    [] scmd = "^B" /\ w.count = 0 -> ToSlot(w.v, LastShown(w.v, TRows(w.v)))
    [] scmd = "z^" -> ToSlot(w.v, w.smp)
    [] OTHER -> ToSlot(w.v, IF w.count < w.smp - 1 THEN w.smp - w.count ELSE 1)

DownRest(w, scmd, rcm) == DownEnd(DownLoop(w, scmd), scmd, rcm)

RECURSIVE RowBefore(_, _, _)
RowBefore(v, p, count) ==
  IF vs_sm_prev(v, p).lno = OOBLNO THEN Failed(v)
  ELSE IF count = 1 \/ vs_sm_prev(v, p) = Slot(1, 1)
       THEN [SizedPrev(v, p) EXCEPT !.map[1] = vs_sm_prev(v, p), !.err = FALSE]
  ELSE RowBefore(SizedPrev(v, p), vs_sm_prev(v, p), count - 1)

DownFill(v) == IF v.err THEN v ELSE vs_sm_position(vs_sm_fill(v, OOBLNO, "top"), 0, "bottom")
DownAfar(v, count) == DownFill(RowBefore(vs_sm_erase(v), HMap(v), count))

DownGrown(w, scmd, rcm) ==
  IF w.count > 0 THEN DownRest(w, scmd, rcm)
  ELSE IF scmd = "^Y" THEN w.v ELSE To(w.v, w.smp)

DownSmall(w, scmd, rcm) ==
  IF w.count >= MaxRows \/ scmd = "^B" THEN DownAfar(w.v, w.count)
  ELSE DownGrown(GrowUp(w), scmd, rcm)

vs_sm_down(v, count, scmd, smp, rcm) ==
  IF AtStart(v) /\ (scmd \in {"^Y", "z^"} \/ smp = 1) THEN Failed(v)
  ELSE IF IsSmall(v)
       THEN DownSmall([v |-> v, count |-> count, smp |-> smp, set |-> FALSE], scmd, rcm)
  ELSE DownRest([v |-> v, count |-> count, smp |-> smp, set |-> FALSE], scmd, rcm)

(* vs_sm_scroll(): smp is the slot of the cursor, rcm its column.          *)
ScrollFrom(v, count, scmd, rcm) ==
  IF v.n = 0 THEN Failed(v)
  ELSE IF scmd \in {"^B", "^U", "^Y", "z^"} THEN vs_sm_down(v, count, scmd, v.n, rcm)
  ELSE vs_sm_up(v, count, scmd, v.n, rcm)
vs_sm_scroll(v, count, scmd, rcm) ==
  ScrollFrom(vs_sm_cursor([v EXCEPT !.invalid = TRUE, !.rp = [lno |-> v.lno, cno |-> v.cno], !.err = FALSE]),
             count, scmd, rcm)

-----------------------------------------------------------------------------
(* v_z() and vs_crel()                                                     *)

(* The window gets count rows: slots that it had not are whatever its      *)
(* array holds, until the map is filled.                                   *)
vs_crel(v, count) ==
  [v EXCEPT !.minrows = count, !.redraw = TRUE,
            !.map = SubSeq(v.map \o [i \in 1..count |-> Slot(OOBLNO, 1)], 1, count)]

AtLine(v, n) == [v EXCEPT !.rp = [lno |-> n, cno |-> 0], !.err = FALSE]
BeforeTop(v) == IF v.err THEN v ELSE vs_sm_fill(v, v.rp.lno, "bottom")

(* given says that a line was given: z+ and z^ scroll otherwise.           *)
v_z(v, n, given, character) ==
  CASE character = "-" -> vs_sm_fill(AtLine(v, n), n, "bottom")
    [] character = "." -> vs_sm_fill(AtLine(v, n), n, "middle")
    [] character = "cr" -> vs_sm_fill(AtLine(v, n), n, "top")
    [] character = "+" /\ given -> vs_sm_position(vs_sm_fill(AtLine(v, n), n, "top"), 0, "top")
    [] character = "^" /\ given -> BeforeTop(vs_sm_position(vs_sm_fill(AtLine(v, n), n, "bottom"), 0, "top"))
    [] character = "+" /\ ~given -> vs_sm_scroll(v, TRows(v), "z+", 0)
    [] character = "^" /\ ~given -> vs_sm_scroll(v, TRows(v), "z^", 0)
=============================================================================
