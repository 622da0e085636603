------------------------------- MODULE Display -------------------------------
(***************************************************************************)
(* A window under the editor loop of vi/vi.c: a command moves the cursor,  *)
(* scrolls, or changes lines of the file, and the loop then refreshes the  *)
(* window (vs_refresh() and vs_paint() of vi/vs_refresh.c).                *)
(*                                                                         *)
(* A command that changes lines calls vs_change() for each of them and     *)
(* leaves the cursor anywhere.  A vi command starts with the cursor's own  *)
(* line; one from the colon line takes any, once v_txt() has declared the  *)
(* cursor and the remembered size unknown; an undo puts back any line.     *)
(***************************************************************************)
EXTENDS ScreenScroll

CONSTANTS Files,        \* the lengths of the lines of each file the window may open
          Lens,         \* lengths of the lines that commands put in
          Sizes,        \* counts given to z for the size of the window
          Counts,       \* counts given to the other commands
          MaxChanges,   \* bound: lines changed
          Undoes        \* an undo may change lines too

ASSUME DisplayAssumption ==
  /\ Files \subseteq Seq(Nat)
  /\ Lens \subseteq Nat
  /\ Sizes \subseteq 2..MaxRows
  /\ Counts \subseteq Nat \ {0}
  /\ MaxChanges \in Nat
  /\ Undoes \in BOOLEAN

(* win: the window and its file, a record as ScreenMap describes it; step:  *)
(* what the editor loop does next: read a command ("idle"), go on with one *)
(* that changes lines ("change"), or refresh ("refresh"); changed: lines   *)
(* changed so far, which name the new ones.                                *)
VARIABLES win,
          step,
          changed

displayvars == <<win, step, changed>>

-----------------------------------------------------------------------------
(* vs_paint()                                                              *)

(* 5: reformat the lines.                                                  *)
Shown5(v, cnt) ==
  [v EXCEPT !.map[1].soff = IF v.lno = HMap(v).lno /\ cnt < @ THEN cnt ELSE @,
            !.map[TRows(v)].soff = IF v.lno = TMap(v).lno /\ cnt > @ THEN cnt ELSE @]

Reformatted(v) ==
  IF ~v.reformat THEN v
  ELSE IF v.top THEN vs_sm_fill([v EXCEPT !.ss = NoSize], v.lno, "top")
  ELSE IF v.center THEN vs_sm_fill([v EXCEPT !.ss = NoSize], v.lno, "middle")
  ELSE vs_sm_fill(Shown5([v EXCEPT !.ss = NoSize], CursorScreens(v)), OOBLNO, "top")

(* 6a: a small window opens up for a line that is near, and goes back to   *)
(* its smallest size for one that is not.                                  *)
SmallFill(v) == vs_sm_fill(vs_sm_erase(v), v.lno, "fill")

RECURSIVE OpenAbove(_)
OpenAbove(v) ==
  IF v.n = 0 \/ TRows(v) = MaxRows THEN v ELSE OpenAbove([vs_sm_1down(v, TRUE) EXCEPT !.n = v.n - 1])
RECURSIVE OpenBelow(_)
OpenBelow(v) ==
  IF v.n = 0 \/ TRows(v) = MaxRows THEN v ELSE OpenBelow([Grown(v) EXCEPT !.n = v.n - 1])

Above(v) == v.lno < HMap(v).lno
Below(v) == v.lno > TMap(v).lno
Afar(v) == v.n > HalfScreen
Counted(v) == vs_sm_nlines(v, IF Above(v) THEN HMap(v) ELSE TMap(v), v.lno, MaxRows)

(* 6b to 6d: bring the line of the cursor into the map.                    *)
ToMiddle(v) == vs_sm_fill(v, v.lno, "middle")
Bottom(v) ==
  IF vs_sm_nlines(v, Slot(v.lno, 1), Len(v.text), TRows(v)).n < HalfText(v)
  THEN vs_sm_fill(vs_sm_nlines(v, Slot(v.lno, 1), Len(v.text), TRows(v)), Len(v.text), "bottom")
  ELSE ToMiddle(vs_sm_nlines(v, Slot(v.lno, 1), Len(v.text), TRows(v)))

LineDown(v) == IF v.n < HalfText(v) THEN UpBy(v, v.n) ELSE Bottom(v)

FromTop(v) == IF v.n < HalfText(v) THEN vs_sm_fill(v, 1, "top") ELSE ToMiddle(v)
LineUp(v) ==
  IF v.n >= HalfText(v) THEN FromTop(vs_sm_nlines(v, Slot(1, 1), v.lno, HalfText(v)))
  ELSE IF Exists(v, HMap(v).lno) THEN DownBy(v, v.n)
  ELSE Bottom(v)

Moved(v) ==
  IF ~Above(v) /\ ~Below(v) THEN v
  ELSE IF v.top THEN vs_sm_fill(v, v.lno, "top")
  ELSE IF v.center THEN ToMiddle(v)
  ELSE IF Below(v) THEN LineDown(vs_sm_nlines(v, TMap(v), v.lno, HalfText(v)))
  ELSE LineUp(vs_sm_nlines(v, HMap(v), v.lno, HalfText(v)))

SmallMoved(v) ==
  IF Afar(v) THEN SmallFill(v)
  ELSE Moved(IF Above(v) THEN OpenAbove(v) ELSE OpenBelow(v))

Placed(v) == IF IsSmall(v) /\ (Above(v) \/ Below(v)) THEN SmallMoved(Counted(v)) ELSE Moved(v)

(* The row of the cursor may still be above or below the map.              *)
RaiseHead(v, cnt) ==
  IF v.lno # HMap(v).lno \/ cnt >= HMap(v).soff THEN v
  ELSE IF HMap(v).soff - cnt > HalfText(v) THEN vs_sm_fill([v EXCEPT !.map[1].soff = cnt], OOBLNO, "top")
  ELSE DownBy(v, HMap(v).soff - cnt)
LowerTail(v, cnt) ==
  IF v.lno # TMap(v).lno \/ cnt <= TMap(v).soff THEN v
  ELSE IF cnt - TMap(v).soff > HalfText(v)
       THEN vs_sm_fill([v EXCEPT !.map[TRows(v)].soff = cnt], OOBLNO, "bottom")
  ELSE UpBy(v, cnt - TMap(v).soff)
Adjusted(v) == LowerTail(RaiseHead(v, CursorScreens(v)), CursorScreens(v))

(* 7: the cursor alone.  Within a row the column follows from the one it   *)
(* had, and the row is where the terminal's cursor is (fast); otherwise    *)
(* the row is looked for (slow).                                           *)
RECURSIVE Searched(_, _)
Searched(v, i) ==
  IF v.hit # 0 \/ i > TRows(v) \/ v.map[i].lno # v.lno THEN v ELSE Searched(vs_line(v, i, TRUE), i + 1)
Found(v) == [v EXCEPT !.smap = v.hit, !.y = IF v.hit # 0 THEN v.hit ELSE @]
Slow(v) == Found(Searched(v, FirstSlot(v, v.lno)))

Leftwards(v) == v.ocno < LenOf(v, v.lno) /\ v.scol >= v.ocno - v.cno
(* Mutant of Rightwards: one column too far.                               *)
RightwardsTooFar(v) == v.scol + v.cno - v.ocno <= Cols
Rightwards(v) == v.scol + v.cno - v.ocno < Cols
IsFast(v) ==
  /\ ~v.invalid
  /\ v.lno = v.olno
  /\ \/ v.cno = v.ocno
     \/ /\ Exists(v, v.lno)
        /\ IF v.cno < v.ocno THEN Leftwards(v) ELSE Rightwards(v)

Cursor(v) == IF IsFast(v) THEN [v EXCEPT !.scol = @ + v.cno - v.ocno] ELSE Slow(v)

(* 8: repaint everything.  The slot of the cursor is the first that shows  *)
(* it, the row is the last.                                                *)
FirstHit(v, w) == [w EXCEPT !.smap = IF v.smap = 0 THEN w.hit ELSE v.smap]
RECURSIVE Painted(_, _)
Painted(v, i) ==
  IF i > TRows(v) THEN v ELSE Painted(FirstHit(v, vs_line(v, i, TRUE)), i + 1)
Cleared(v) ==
  IF IsSmall(v) THEN [v EXCEPT !.rows = [r \in 1..(MaxRows + 1) |-> IF r > TRows(v) THEN Blank ELSE v.rows[r]]]
  ELSE v
LastHit(v) == IF v.hit = 0 THEN v ELSE [v EXCEPT !.y = v.hit]
Repaint(v) ==
  LastHit(Cleared(Painted([v EXCEPT !.map = AllFlushed(v.map), !.smap = 0], 1)))

(* 9 to 12: what is remembered, the mode line, and the flags.              *)
Done(v) ==
  [v EXCEPT !.olno = v.lno, !.ocno = v.cno, !.rows[MaxRows + 1] = ModeLine,
            !.center = FALSE, !.redraw = FALSE, !.reformat = FALSE, !.top = FALSE, !.invalid = FALSE]

CursorOrAll(v) == IF v.redraw THEN Repaint(v) ELSE Cursor(v)
PaintOnce(v) == CursorOrAll(Adjusted(Placed(Reformatted([v EXCEPT !.hit = 0]))))

(* The cursor is nowhere in the map: start from scratch, once.             *)
Again(v) == IF v.smap # 0 THEN Done(v) ELSE v
Retry(v) == IF v.smap # 0 THEN Done(v) ELSE IF v.reformat THEN v ELSE Again(PaintOnce(Reformat(v)))
Settled(v) == [v EXCEPT !.hit = 0, !.n = 0, !.err = FALSE, !.rp = [lno |-> 1, cno |-> 0]]
vs_paint(v) == Settled(Retry(PaintOnce(v)))

-----------------------------------------------------------------------------
(* The window when the editor starts, v_init(), or in a new screen, where  *)
(* a file not seen before has its line at the top.                         *)

TextOf(lens) == [i \in 1..Len(lens) |-> [id |-> i, len |-> lens[i]]]
LinesOf(lens) == IF lens = <<>> THEN {1} ELSE 1..Len(lens)

OpenWindow(lens, n, top) ==
  [text |-> TextOf(lens),
   map |-> <<Slot(n, 1)>> \o [i \in 1..(MaxRows - 1) |-> Slot(OOBLNO, 0)],
   rows |-> [i \in 1..(MaxRows + 1) |-> Blank], y |-> 1,
   ss |-> NoSize, minrows |-> MaxRows,
   lno |-> n, cno |-> 0, olno |-> OOBLNO, ocno |-> 0, scol |-> 0, smap |-> 0,
   redraw |-> FALSE, reformat |-> TRUE, top |-> top, center |-> ~top, invalid |-> TRUE, odd |-> FALSE,
   hit |-> 0, n |-> 0, err |-> FALSE, rp |-> [lno |-> 1, cno |-> 0]]

Lines(v) == LinesOf(v.text)
Columns(v, n) == IF LenOf(v, n) = 0 THEN {0} ELSE 0..(LenOf(v, n) - 1)

Init ==
  /\ \E lens \in Files, top \in BOOLEAN : \E n \in LinesOf(lens) : win = OpenWindow(lens, n, top)
  /\ step = "refresh"
  /\ changed = 0

-----------------------------------------------------------------------------
(* Commands.  One that fails leaves the cursor, not what it has painted.   *)

Ends(v) ==
  /\ win' = [v EXCEPT !.lno = IF v.err THEN win.lno ELSE v.rp.lno,
                      !.cno = IF v.err THEN win.cno ELSE v.rp.cno,
                      !.n = 0, !.err = FALSE, !.rp = [lno |-> 1, cno |-> 0]]
  /\ step' = "refresh"
  /\ UNCHANGED changed

(* goto_adjust() leaves the column to the loop, which takes column 0 of a  *)
(* line for G, and for H, M and L the column found, or 0 past the end.     *)
NextNonblank(v) ==
  IF v.rp.cno < LenOf(v, v.rp.lno) THEN v ELSE [v EXCEPT !.rp.cno = 0]

Position(cnt, pos) == step = "idle" /\ Ends(NextNonblank(vs_sm_position(win, cnt, pos)))
v_home == \E cnt \in {0} \cup Counts : Position(cnt, "top")
v_middle == Position(0, "middle")
v_bottom == \E cnt \in {0} \cup Counts : Position(cnt, "bottom")

v_lgoto == step = "idle" /\ \E n \in Lines(win) : Ends(AtLine(win, n))

(* Up and down go to the column rcm, or the last one of the line.          *)
ByLines(n) ==
  /\ step = "idle"
  /\ n \in 1..Len(win.text)
  /\ \E rcm \in {0, Cols, 2 * Cols} :
       Ends([win EXCEPT !.rp = [lno |-> n, cno |-> vs_colpos(win, n, rcm)]])
v_up == \E k \in Counts : ByLines(win.lno - k)
v_down == \E k \in Counts : ByLines(win.lno + k)

(* A motion inside the line.                                               *)
Along ==
  /\ step = "idle"
  /\ \E c \in Columns(win, win.lno) : Ends([win EXCEPT !.rp = [lno |-> win.lno, cno |-> c]])

(* A tag, :edit or ^^ puts another file in the window: the map is for the  *)
(* old one, and the loop asks for the new line in the middle.              *)
FileSwitch ==
  /\ step = "idle"
  /\ \E lens \in Files : \E n \in LinesOf(lens) :
       Ends([AtLine(Reformat(win), n) EXCEPT !.text = TextOf(lens), !.top = FALSE, !.center = TRUE])

Scroll(count, scmd) ==
  /\ step = "idle"
  /\ \E rcm \in IF scmd \in {"^E", "^Y"} THEN {0, Cols - 1} ELSE {0} :
        Ends(vs_sm_scroll(win, count, scmd, rcm))

v_linedown == \E count \in Counts : Scroll(count, "^E")
v_lineup == \E count \in Counts : Scroll(count, "^Y")
v_hpagedown == \E count \in Counts : Scroll(count, "^D")
v_hpageup == \E count \in Counts : Scroll(count, "^U")

(* A page is the window option, the full size, for each count, but 2 rows. *)
PageRows(count) == IF count * MaxRows <= 2 THEN 1 ELSE count * MaxRows - 2
v_pagedown == \E count \in Counts : Scroll(PageRows(count), "^F")
v_pageup == \E count \in Counts : Scroll(PageRows(count), "^B")

(* The cursor goes to the first column.                                    *)
EndsAtStart(v) == Ends([v EXCEPT !.rp.cno = 0])
ZLine(character) ==
  /\ step = "idle"
  /\ \E n \in Lines(win) : EndsAtStart(v_z(AtLine(win, n), n, TRUE, character))
ZResize(character) ==
  /\ step = "idle"
  /\ \E size \in Sizes : EndsAtStart(v_z(vs_crel(win, size), win.lno, FALSE, character))
ZLines == \E character \in {"cr", "-", ".", "+", "^"} : ZLine(character)
ZSizes == \E character \in {"cr", "-", "."} : ZResize(character)
ZScrolls ==
  /\ step = "idle"
  /\ \E character \in {"+", "^"} : EndsAtStart(v_z(win, win.lno, FALSE, character))

v_redraw == step = "idle" /\ Ends([Reformat(win) EXCEPT !.rp = [lno |-> win.lno, cno |-> win.cno]])

-----------------------------------------------------------------------------
(* A command that changes lines, one call of vs_change() each.             *)

FromColon(v) == [v EXCEPT !.ss = NoSize, !.invalid = TRUE]

Change(text, n, op) ==
  /\ step \in {"idle", "change"}
  /\ changed < MaxChanges
  /\ ~win.odd
  /\ \E v \in (IF step = "change" \/ Undoes \/ n = win.lno THEN {win} ELSE {})
               \cup (IF step = "idle" THEN {FromColon(win)} ELSE {}) :
        win' = Settled(vs_change([v EXCEPT !.text = text], n, op))
  /\ changed' = changed + 1
  /\ step' = "change"

NewLine(len) == [id |-> 20 + changed, len |-> len]

db_delete ==
  \E n \in 1..Len(win.text) :
     Change(SubSeq(win.text, 1, n - 1) \o SubSeq(win.text, n + 1, Len(win.text)), n, "delete")
PutAfter(n, len) == SubSeq(win.text, 1, n) \o <<NewLine(len)>> \o SubSeq(win.text, n + 1, Len(win.text))
db_append == \E n \in 0..Len(win.text), len \in Lens : Change(PutAfter(n, len), n, "append")
db_insert == \E n \in 1..Len(win.text), len \in Lens : Change(PutAfter(n - 1, len), n, "insert")
db_set == \E n \in 1..Len(win.text), len \in Lens : Change([win.text EXCEPT ![n] = NewLine(len)], n, "reset")

EndChange ==
  /\ step = "change"
  /\ \E n \in Lines(win) : \E c \in Columns(win, n) :
        win' = [win EXCEPT !.lno = n, !.cno = c]
  /\ step' = "refresh"
  /\ UNCHANGED changed

Refresh ==
  /\ step = "refresh"
  /\ ~win.odd
  /\ win' = vs_paint(win)
  /\ step' = "idle"
  /\ UNCHANGED changed

Next ==
  \/ Refresh
  \/ v_home \/ v_middle \/ v_bottom \/ v_lgoto \/ v_up \/ v_down \/ Along \/ FileSwitch
  \/ v_linedown \/ v_lineup \/ v_hpagedown \/ v_hpageup \/ v_pagedown \/ v_pageup
  \/ ZLines \/ ZSizes \/ ZScrolls \/ v_redraw
  \/ db_delete \/ db_append \/ db_insert \/ db_set \/ EndChange

Spec == Init /\ [][Next]_displayvars

-----------------------------------------------------------------------------
(***************************************************************************)
(* What a window shows when the editor waits for a command.  Each is said  *)
(* from the text alone, not from what the screen code remembers.           *)
(***************************************************************************)
Idle == step = "idle"

(* The slot that follows p, from the text alone.                           *)
TrueNext(p) == IF p.soff = RowsOf(LenOf(win, p.lno)) THEN <<p.lno + 1, 1>> ELSE <<p.lno, p.soff + 1>>

(* The rows of the window are consecutive rows of the file, starting with  *)
(* one that exists: no line is skipped, shown twice or shown in part after *)
(* any sequence of scrolls, refills, splices and resizes (vi/vs_smap.c).   *)
MapContiguous ==
  Idle => /\ \A i \in 1..(TRows(win) - 1) : <<win.map[i + 1].lno, win.map[i + 1].soff>> = TrueNext(win.map[i])
          /\ HMap(win).lno >= 1
          /\ HMap(win).soff \in 1..RowsOf(LenOf(win, HMap(win).lno))

Image(p) ==
  IF LenOf(win, p.lno) > 0 THEN <<win.text[p.lno].id, (p.soff - 1) * Cols>>
  ELSE IF Exists(win, p.lno) \/ p.lno = 1 THEN Blank ELSE Tilde

(* What is painted on each row of the window is that row of the present    *)
(* text, whatever was scrolled or left painted from before and whatever    *)
(* the slots had cached (vi/vs_line.c), and the mode line is at the bottom.*)
ScreenShowsMap ==
  Idle => /\ \A r \in 1..TRows(win) : win.rows[r] = Image(win.map[r])
          /\ win.rows[MaxRows + 1] = ModeLine

(* The terminal's cursor is on the row and the column where the character  *)
(* of the file's cursor is, found afresh or computed from where it was     *)
(* (vi/vs_refresh.c, section 7).                                           *)
CursorShown ==
  Idle => /\ win.smap = win.y
          /\ win.map[win.y].lno = win.lno
          /\ (win.map[win.y].soff - 1) * Cols + win.scol = win.cno

(* The size remembered of a line is the size the line has now              *)
(* (vs_screens() of vi/vs_relative.c).                                     *)
SizeTrue == Idle /\ win.ss.lno # OOBLNO => win.ss.n = RowsOf(LenOf(win, win.ss.lno))

(* The map: its rows follow each other in the text, and the size it keeps  *)
(* of the last line asked for is that line's (vi/vs_smap.c:78).            *)
MapTrue == MapContiguous /\ SizeTrue
=============================================================================
