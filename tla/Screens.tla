------------------------------ MODULE Screens ------------------------------
(***************************************************************************)
(* The screens of one terminal: the displayed queue gp->dq, from the top   *)
(* of the terminal down, the hidden queue gp->hq, and the geometry of each *)
(* screen (vi/vs_split.c, with the parts of vi/vi.c, vi/v_init.c,          *)
(* vi/v_z.c, ex/ex.c and common/screen.c that move screens between the     *)
(* queues).  The text of a screen is not here: its map is only allocated   *)
(* or not, and the cursor is at any displayed row.                         *)
(*                                                                         *)
(* A row count is a size_t: t_rows wraps below zero, modulo SizeMod.  The  *)
(* rows and offsets of a screen are integers: they stay in the terminal    *)
(* with RegularOnly, and without it nothing is said of them.               *)
(***************************************************************************)
EXTENDS Integers, Sequences, SequencesExt, FiniteSets, TLC

CONSTANTS Screen,       \* the SCR structures there may be
          Lines,        \* rows of the terminal (the option lines)
          Windows,      \* values given to the option window, or to z
          Counts,       \* counts given to :resize
          NoScreen,     \* NULL
          SizeMod,      \* stands for 2^64
          RegularOnly   \* leave out the commands that Regular() tells apart

(* The geometry of one screen.                                             *)
Geometry == [rows : Int, woff : Int, trows : Int, tmin : Int, tmax : Int,
             window : Int, map : BOOLEAN, ccl : BOOLEAN]

ASSUME ScreensAssumption ==
  /\ NoScreen \notin Screen \cup Geometry
  /\ Lines \in Nat /\ Lines >= 2
  /\ Windows \subseteq 1..(Lines - 1)
  /\ Counts \subseteq Int
  /\ SizeMod \in Nat /\ SizeMod > 2 * Lines
  /\ RegularOnly \in BOOLEAN

(* scr: geometry of each screen, or NoScreen; dq, hq: the displayed and the  *)
(* hidden screens in order; cur: the current screen, NoScreen when the       *)
(* editor ends; vi: whether the editor loop is in vi().                      *)
VARIABLES scr,
          dq,
          hq,
          cur,
          vi

scrvars == <<scr, dq, hq, cur, vi>>

Wrap(n) == n % SizeMod

(* The code loses track of two things: vs_swap() keeps the t_maxrows that a *)
(* small hidden screen had when it was hidden, and vs_resize() and         *)
(* vs_split() take rows from t_rows that a small screen does not show, or  *)
(* more of them than t_minrows allows.                                     *)
(* Regular(ok) leaves such a command out of a run that asks what holds     *)
(* without them.                                                           *)
Regular(ok) == RegularOnly => ok
KeepsText(s, count) ==
  scr[s].trows - count >= IF scr[s].tmin < scr[s].tmax - count THEN scr[s].tmin ELSE scr[s].tmax - count

Lesser(a, b) == IF a < b THEN a ELSE b

-----------------------------------------------------------------------------
(* Geometry                                                                *)

IsSmall(s) == scr[s].tmin # scr[s].tmax

(* A screen as v_init() sets it up: the whole terminal.                    *)
WholeTerminal(window) ==
  LET t == Lesser(window, Lines - 1)
  IN  [rows |-> Lines, woff |-> 0, trows |-> t, tmin |-> t, tmax |-> Lines - 1,
       window |-> window, map |-> TRUE, ccl |-> FALSE]

(* Where the rows of a split go: half to the old screen if the new one     *)
(* goes above it, half to the new one if it goes below.                    *)
HalfOf(s, ccl) ==
  IF ccl /\ scr[s].rows \div 2 > 6 THEN 6 ELSE scr[s].rows \div 2

SplitUp(s, ccl, smp) == ~ccl /\ smp >= HalfOf(s, ccl)

SplitOld(s, ccl, smp) ==
  LET half  == HalfOf(s, ccl)
      up    == SplitUp(s, ccl, smp)
      rows  == IF up THEN half ELSE scr[s].rows - half
      gone  == scr[s].rows - rows
      shown == IF up THEN Wrap(scr[s].trows - gone) ELSE scr[s].trows
  IN  [scr[s] EXCEPT
         !.rows = rows,
         !.woff = IF up THEN @ + gone ELSE @,
         !.tmax = rows - 1,
         !.trows = IF IsSmall(s) THEN Lesser(shown, rows - 1) ELSE rows - 1,
         !.tmin = IF IsSmall(s) THEN Lesser(@, rows - 1) ELSE rows - 1]

SplitNew(s, ccl, smp, window) ==
  LET half  == HalfOf(s, ccl)
      up    == SplitUp(s, ccl, smp)
      rows  == IF up THEN scr[s].rows - half ELSE half
      t     == Lesser(window, rows - 1)
  IN  [rows |-> rows,
       woff |-> scr[s].woff + IF up THEN 0 ELSE scr[s].rows - half,
       trows |-> t, tmin |-> t, tmax |-> rows - 1, window |-> window, map |-> TRUE, ccl |-> ccl]

At(q, s) == CHOOSE i \in DOMAIN q : q[i] = s

(* vs_discard(): the rows of s go to the screen above, or else below.      *)
Heir(q, s) ==
  IF At(q, s) > 1 THEN q[At(q, s) - 1]
  ELSE IF At(q, s) < Len(q) THEN q[At(q, s) + 1]
  ELSE NoScreen

(* Mutant of Folded: the heir keeps its offset.                            *)
FoldedInPlace(q, g, s) ==
  LET h == Heir(q, s)
  IN  IF h = NoScreen THEN g
      ELSE [g EXCEPT ![h].rows = @ + g[s].rows,
                     ![h].trows = @ + g[s].rows, ![h].tmin = @ + g[s].rows,
                     ![h].tmax = @ + g[s].rows]

(* The geometry g of the displayed screens q once s is folded into its heir. *)
Folded(q, g, s) ==
  LET h    == Heir(q, s)
      rows == g[h].rows + g[s].rows
      kept == g[h].tmin # g[h].tmax
      heir == [g[h] EXCEPT !.rows = rows,
                           !.woff = IF At(q, h) < At(q, s) THEN @ ELSE g[s].woff,
                           !.trows = IF kept THEN @ ELSE rows - 1,
                           !.tmin = IF kept THEN @ ELSE rows - 1,
                           !.tmax = rows - 1]
  IN  IF h = NoScreen THEN g ELSE [g EXCEPT ![h] = heir]

(* vs_swap(): the hidden screen n takes the place of s.                    *)
Replacing(n, s) ==
  LET rows == scr[s].rows
      clip(t) == IF t > scr[s].tmax THEN scr[n].tmax ELSE t
  IN  [scr[n] EXCEPT
         !.rows = rows, !.woff = scr[s].woff, !.map = TRUE,
         !.trows = IF IsSmall(n) THEN clip(scr[n].window) ELSE rows - 1,
         !.tmin = IF IsSmall(n) THEN clip(scr[n].window) ELSE rows - 1,
         !.tmax = IF IsSmall(n) THEN @ ELSE rows - 1]

-----------------------------------------------------------------------------
Init ==
  \E s \in Screen :
    /\ scr = [x \in Screen |-> IF x = s THEN WholeTerminal(Lines - 1) ELSE NoScreen]
    /\ dq = <<s>> /\ hq = <<>>
    /\ cur = s /\ vi = TRUE

InVi == vi /\ cur # NoScreen
Exists(s) == scr[s] # NoScreen
Free(s) == [scr EXCEPT ![s] = NoScreen]

CanSplit == InVi /\ scr[cur].rows >= 4

(* The screens after cur is split for the screen n, and their order.       *)
SplitGeometry(n, ccl, smp, window) ==
  [scr EXCEPT ![cur] = SplitOld(cur, ccl, smp), ![n] = SplitNew(cur, ccl, smp, window)]

SplitOrder(n, ccl, smp) ==
  InsertAt(dq, At(dq, cur) + IF SplitUp(cur, ccl, smp) THEN 0 ELSE 1, n)

(* The rows of the map the cursor may be on, and 0 when it is off the map. *)
Cursors(ccl) ==
  {smp \in 0..Lesser(scr[cur].trows, scr[cur].rows - 1) :
     Regular(IsSmall(cur) /\ SplitUp(cur, ccl, smp) =>
               KeepsText(cur, scr[cur].rows - HalfOf(cur, ccl)))}

(* :E, :N and ^] in a new screen, and the window on the colon command      *)
(* line.  The file may fail to open: the new screen is discarded again.    *)
Split(n, ccl) ==
  /\ CanSplit /\ ~Exists(n)
  /\ \E smp \in Cursors(ccl), opens \in BOOLEAN :
       LET g == SplitGeometry(n, ccl, smp, scr[cur].window)
           q == SplitOrder(n, ccl, smp)
       IN  IF opens \/ ccl
           THEN /\ scr' = g /\ dq' = q /\ cur' = n
           ELSE /\ scr' = [Folded(q, g, n) EXCEPT ![n] = NoScreen]
                /\ UNCHANGED <<dq, cur>>
  /\ UNCHANGED <<hq, vi>>

(* :Fg: the hidden screen n in a split of its own.  When the screen cannot *)
(* be split n goes back to the end of the hidden queue.                    *)
FgNew(n) ==
  /\ InVi /\ Contains(hq, n)
  /\ IF scr[cur].rows < 4
     THEN hq' = Append(RemoveAt(hq, At(hq, n)), n) /\ UNCHANGED <<scr, dq, cur>>
     ELSE \E smp \in Cursors(FALSE) :
            /\ scr' = [SplitGeometry(n, FALSE, smp, scr[n].window) EXCEPT ![n].ccl = scr[n].ccl]
            /\ dq' = SplitOrder(n, FALSE, smp)
            /\ hq' = RemoveAt(hq, At(hq, n))
            /\ cur' = n
  /\ UNCHANGED vi

(* Mutant of Fg: the replaced screen is not put on the hidden queue.       *)
FgLosing(n) ==
  /\ InVi /\ Contains(hq, n)
  /\ Regular(IsSmall(n) => scr[n].tmax = scr[cur].rows - 1)
  /\ scr' = [scr EXCEPT ![n] = Replacing(n, cur)]
  /\ dq' = ReplaceAt(dq, At(dq, cur), n)
  /\ hq' = RemoveAt(hq, At(hq, n))
  /\ cur' = n
  /\ UNCHANGED vi

(* :fg: the hidden screen n replaces the current one.                      *)
Fg(n) ==
  /\ InVi /\ Contains(hq, n)
  /\ Regular(IsSmall(n) => scr[n].tmax = scr[cur].rows - 1)
  /\ scr' = [scr EXCEPT ![n] = Replacing(n, cur)]
  /\ dq' = ReplaceAt(dq, At(dq, cur), n)
  /\ hq' = Append(RemoveAt(hq, At(hq, n)), cur)
  /\ cur' = n
  /\ UNCHANGED vi

(* :bg.                                                                    *)
Bg ==
  /\ InVi /\ Heir(dq, cur) # NoScreen
  /\ scr' = [Folded(dq, scr, cur) EXCEPT ![cur].map = FALSE]
  /\ dq' = RemoveAt(dq, At(dq, cur))
  /\ hq' = Append(hq, cur)
  /\ cur' = Heir(dq, cur)
  /\ UNCHANGED vi

(* ^W.                                                                     *)
NextScreen ==
  /\ InVi /\ ~scr[cur].ccl /\ Len(dq) > 1
  /\ cur' = dq[(At(dq, cur) % Len(dq)) + 1]
  /\ UNCHANGED <<scr, dq, hq, vi>>

(* Leaving the current screen in vi(): its heir takes over, or else the    *)
(* first hidden screen takes its place, or else the editor ends.           *)
Quit ==
  /\ InVi
  /\ IF Heir(dq, cur) # NoScreen
     THEN /\ scr' = [Folded(dq, scr, cur) EXCEPT ![cur] = NoScreen]
          /\ dq' = RemoveAt(dq, At(dq, cur)) /\ hq' = hq
          /\ cur' = Heir(dq, cur)
     ELSE IF hq # <<>>
     THEN /\ Regular(IsSmall(hq[1]) => scr[hq[1]].tmax = scr[cur].rows - 1)
          /\ scr' = [scr EXCEPT ![hq[1]] = Replacing(hq[1], cur), ![cur] = NoScreen]
          /\ dq' = <<hq[1]>> /\ hq' = Tail(hq)
          /\ cur' = hq[1]
     ELSE scr' = Free(cur) /\ dq' = <<>> /\ hq' = hq /\ cur' = NoScreen
  /\ UNCHANGED vi

(* vs_resize(): grow g and shrink s by count rows.                         *)
Moved(g, s, count, goff, soff) ==
  LET taller  == [scr[g] EXCEPT !.rows = @ + count, !.woff = @ + goff,
                                !.trows = Wrap(@ + count),
                                !.tmin = IF IsSmall(g) THEN @ ELSE @ + count,
                                !.tmax = @ + count]
      shorter == [scr[s] EXCEPT !.rows = @ - count, !.woff = @ + soff,
                                !.trows = Wrap(@ - count),
                                !.tmin = Lesser(@, scr[s].tmax - count),
                                !.tmax = @ - count]
  IN  [scr EXCEPT ![g] = taller, ![s] = shorter]

Above(s) == IF At(dq, s) > 1 THEN dq[At(dq, s) - 1] ELSE NoScreen
Below(s) == IF At(dq, s) < Len(dq) THEN dq[At(dq, s) + 1] ELSE NoScreen

Spares(s, count) == s # NoScreen /\ scr[s].tmax >= 1 + count

Shrink(count) ==
  /\ Spares(cur, count) /\ Regular(KeepsText(cur, count))
  /\ \/ /\ Above(cur) # NoScreen
        /\ scr' = Moved(Above(cur), cur, count, 0, count)
     \/ /\ Above(cur) = NoScreen /\ Below(cur) # NoScreen
        /\ scr' = Moved(Below(cur), cur, count, -count, 0)

Grow(count) ==
  \/ /\ Spares(Below(cur), count) /\ Regular(KeepsText(Below(cur), count))
     /\ scr' = Moved(cur, Below(cur), count, 0, count)
  \/ /\ ~Spares(Below(cur), count) /\ Spares(Above(cur), count)
     /\ Regular(KeepsText(Above(cur), count))
     /\ scr' = Moved(cur, Above(cur), count, -count, 0)

(* :resize [+-]count.                                                      *)
Resize(count) ==
  /\ InVi
  /\ \/ count > 0 /\ (Grow(count) \/ Shrink(count))
     \/ count > scr[cur].tmax /\ Grow(count - scr[cur].tmax)
     \/ count < scr[cur].tmax /\ Shrink(scr[cur].tmax - count)
  /\ UNCHANGED <<dq, hq, cur, vi>>

(* vs_crel(), from :set window=n, and from z with a count.                 *)
Window(n, byz) ==
  /\ InVi
  /\ LET t == Lesser(IF byz THEN Lesser(n, scr[cur].window) ELSE n, scr[cur].rows - 1)
     IN  scr' = [scr EXCEPT ![cur].trows = t, ![cur].tmin = t,
                            ![cur].window = IF byz THEN @ ELSE n]
  /\ UNCHANGED <<dq, hq, cur, vi>>

(* Scrolling shows more rows of a small screen, up to the whole of it, and *)
(* redrawing it shows fewer.                                               *)
ShowRows ==
  /\ InVi /\ IsSmall(cur) /\ scr[cur].trows \in scr[cur].tmin..scr[cur].tmax
  /\ \E n \in {scr[cur].trows + 1, scr[cur].tmin} :
       n <= scr[cur].tmax /\ scr' = [scr EXCEPT ![cur].trows = n]
  /\ UNCHANGED <<dq, hq, cur, vi>>

(* Q: v_dtoh() hides the other screens, and ex() runs in the current one.  *)
ToEx ==
  /\ InVi
  /\ scr' = [s \in Screen |-> IF Contains(dq, s) THEN [scr[s] EXCEPT !.map = FALSE] ELSE scr[s]]
  /\ hq' = hq \o RemoveAt(dq, At(dq, cur))
  /\ dq' = <<cur>>
  /\ vi' = FALSE
  /\ UNCHANGED <<cur>>

(* :visual: v_init() gives the current screen the whole terminal.          *)
ToVi ==
  /\ ~vi /\ cur # NoScreen
  /\ scr' = [scr EXCEPT ![cur] = [WholeTerminal(@.window) EXCEPT !.ccl = scr[cur].ccl]]
  /\ vi' = TRUE
  /\ UNCHANGED <<dq, hq, cur>>

(* Leaving the current screen in ex(): screen_next() brings out the first  *)
(* hidden screen, and vi() runs in it.                                     *)
QuitEx ==
  /\ ~vi /\ cur # NoScreen
  /\ IF hq = <<>>
     THEN scr' = Free(cur) /\ dq' = <<>> /\ cur' = NoScreen /\ UNCHANGED <<hq, vi>>
     ELSE /\ scr' = [Free(cur) EXCEPT ![hq[1]] = [WholeTerminal(@.window) EXCEPT !.ccl = scr[hq[1]].ccl]]
          /\ dq' = <<hq[1]>> /\ hq' = Tail(hq) /\ cur' = hq[1]
          /\ vi' = TRUE

Next ==
  \/ \E n \in Screen : Split(n, TRUE) \/ Split(n, FALSE) \/ Fg(n) \/ FgNew(n)
  \/ Bg \/ NextScreen \/ Quit
  \/ \E c \in Counts : Resize(c)
  \/ \E n \in Windows : Window(n, TRUE) \/ Window(n, FALSE)
  \/ ShowRows
  \/ ToEx \/ ToVi \/ QuitEx

Spec == Init /\ [][Next]_scrvars

Alike == Permutations(Screen)

-----------------------------------------------------------------------------
(* Properties                                                              *)

Shown == IF vi /\ cur # NoScreen THEN {dq[i] : i \in DOMAIN dq} ELSE {}

(* The displayed screens, taken in the order of the queue, cover the       *)
(* terminal: each has a row, and begins on the row after the one above it, *)
(* the first on row 0, and the last ends on the last row.  Splitting,      *)
(* discarding, resizing and swapping each move rows between two screens    *)
(* and offsets of one of them.                                             *)
RowsTile ==
  Shown # {} =>
    /\ scr[dq[1]].woff = 0
    /\ \A i \in DOMAIN dq :
         /\ scr[dq[i]].rows >= 1
         /\ scr[dq[i]].woff + scr[dq[i]].rows =
              IF i = Len(dq) THEN Lines ELSE scr[dq[i + 1]].woff

(* Each screen is in exactly one queue, once; the current one is displayed *)
(* while there is one, and each displayed screen has a map to draw from.   *)
EachInOneQueue ==
  /\ IsInjective(dq \o hq)
  /\ {s \in Screen : Exists(s)} = {(dq \o hq)[i] : i \in DOMAIN (dq \o hq)}
  /\ cur # NoScreen => Contains(dq, cur)
  /\ \A s \in Shown : scr[s].map

(* "t_minrows is the minimum rows to display, t_maxrows is the maximum     *)
(* rows to display (rows - 1), t_rows is the rows currently being          *)
(* displayed" (v_init() in vi/vi.c), small screens included.               *)
TextRowsInScreen ==
  \A s \in Shown :
    scr[s].tmin <= scr[s].trows /\ scr[s].trows <= scr[s].tmax /\ scr[s].tmax = scr[s].rows - 1

(* Splitting, discarding, resizing and swapping keep the terminal covered  *)
(* and each screen able to show its text (vi/vs_split.c).                  *)
Layout == RowsTile /\ TextRowsInScreen

TypeOK ==
  /\ scr \in [Screen -> [rows : 1..Lines, woff : 0..Lines, trows : 0..(SizeMod - 1),
                         tmin : Int, tmax : 1..Lines, window : 1..Lines,
                         map : BOOLEAN, ccl : BOOLEAN] \cup {NoScreen}]
  /\ dq \in Seq(Screen) /\ hq \in Seq(Screen)
  /\ cur \in Screen \cup {NoScreen} /\ vi \in BOOLEAN

=============================================================================
