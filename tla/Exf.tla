-------------------------------- MODULE Exf --------------------------------
(***************************************************************************)
(* The state every screen on a file shares (struct _exf): the text, the    *)
(* one-line cache and line count in front of it, the change log that u, U  *)
(* and :undo replay, and the marks.  Every line change in the editor goes  *)
(* through the four operations of common/line.c modelled here.             *)
(*                                                                         *)
(* A vi or ex command is any sequence of the steps possible while          *)
(* pc = "cmd"; LogCursor is the call of log_cursor() with which the main   *)
(* loops begin a command.  Commands that come out of a map (and those run  *)
(* by :global) skip that call, so steps of several commands may follow one *)
(* another without it.                                                     *)
(*                                                                         *)
(* lg.snap and quirks are history variables: no guard reads them.          *)
(***************************************************************************)
EXTENDS FiniteSets, Recno

CONSTANTS
    Text,       \* line contents the model tells apart
    Blank,      \* the empty line, a member of Text
    MarkName,   \* the marks whose life is followed
    AbsMark,    \* ABSMARK1, the previous context mark; may be one of them
    InitFiles,  \* contents a file may be opened with
    MaxLines,   \* bound: lines an edit may grow the file to
    MaxLog      \* bound: records the log may hold

ASSUME TextAssumption == Blank \in Text
ASSUME FilesAssumption == InitFiles \subseteq Seq(Text)
ASSUME BoundAssumption == MaxLines \in Nat /\ MaxLog \in Nat

VARIABLES
    file,       \* the records of ep->db
    cache,      \* ep->c_lno, c_lp (text) and c_nlines; 0 is OOBLNO
    lg,         \* ep->log and l_cur, l_high, l_cursor.lno
    nolog,      \* F_NOLOG
    undone,     \* F_UNDO
    lundo,      \* ep->lundo
    marks,      \* ep->marks
    lno,        \* sp->lno
    firstmod,   \* F_FIRSTMODIFY of a file that is being recovered
    pc,         \* "cmd", or the log replay that is running
    byEx,       \* the replay was called from ex_undo()
    didop,      \* didop of log_backward() and log_forward()
    quirks      \* history: the irregular steps the session has taken

vars == <<file, cache, lg, nolog, undone, lundo, marks, lno, firstmod, pc, byEx, didop, quirks>>

OOBLNO == 0

Quirk == {
    "map",      \* a replay began in the middle of a group: no log_cursor() before it
    "setline",  \* U passed over a change it does not undo
    "empty",    \* a line was set in a file that had none
    "stale",    \* db_delete() logged a text that was not the line's
    "cursor" }  \* a group began with a cursor saved before the file shrank

Ops == {"INIT", "END", "APPEND", "INSERT", "DELETE", "RESET_B", "RESET_F", "MARK"}
Added == {"APPEND", "INSERT"}

\* One type for the three layouts of a log record.  A "MARK" record stands for
\* the run of LOG_MARK records that one deleted line leaves.
Record == [op : Ops, lno : Nat \ {0}, text : Text, names : SUBSET MarkName]
\* Mutant: the cursor's line counted from 0.
CursorRecOffByOne(op, l) == [op |-> op, lno |-> l + 1, text |-> Blank, names |-> {}]
CursorRec(op, l)  == [op |-> op, lno |-> l, text |-> Blank, names |-> {}]
LineRec(op, k, t) == [op |-> op, lno |-> k, text |-> t, names |-> {}]
MarkRec(k, ms)    == [op |-> "MARK", lno |-> k, text |-> Blank, names |-> ms]

-----------------------------------------------------------------------------
(* Reading a line.  c is the cache, f the file. *)

\* db_cache_update(): line k, with text t, is the cached one.
Holding(c, k, t) == [lno |-> k, text |-> t, nlines |-> c.nlines]

\* c_lno = OOBLNO: no line is, and the text means nothing.
Flushed(c) == Holding(c, OOBLNO, Blank)

\* db_get() with its caches: a hit answers from the cache, a miss refills it,
\* and a miss of a line that is not there empties it.
Get(c, f, k) ==
    IF k = OOBLNO
      THEN [ok |-> FALSE, text |-> Blank, cache |-> c]
    ELSE IF k = c.lno
      THEN [ok |-> TRUE, text |-> c.text, cache |-> c]
    ELSE IF k \in 1..Len(f)
      THEN [ok |-> TRUE, text |-> f[k], cache |-> Holding(c, k, f[k])]
    ELSE [ok |-> FALSE, text |-> Blank, cache |-> Flushed(c)]

\* db_get() with DBG_NOCACHE: never answers from the cache, still refills it.
GetNoCache(c, f, k) ==
    IF k \in 1..Len(f)
      THEN [ok |-> TRUE, text |-> f[k], cache |-> Holding(c, k, f[k])]
      ELSE [ok |-> FALSE, text |-> Blank, cache |-> c]

\* db_last(): the line count, which is cached together with the last line.
Last(c, f) ==
    IF c.nlines # OOBLNO THEN [n |-> c.nlines, cache |-> c]
    ELSE IF Len(f) = 0 THEN [n |-> 0, cache |-> c]
    ELSE [n |-> Len(f), cache |-> [lno |-> Len(f), text |-> f[Len(f)], nlines |-> Len(f)]]

\* db_exist(): from the cached count, else by reading the line.
Exist(c, f, k) ==
    IF c.nlines # OOBLNO THEN [yes |-> k <= c.nlines, cache |-> c]
    ELSE [yes |-> Get(c, f, k).ok, cache |-> Get(c, f, k).cache]

\* The first change of a recoverable file reads it to its end (rcv_init()).
FirstModify(c, f) == IF firstmod THEN Last(c, f).cache ELSE c

-----------------------------------------------------------------------------
(* Writing the log.  L is the log; f and g the file before and after the change. *)

\* log_init(): also what log_err() leaves.
LogInit(f) == [rec |-> <<>>, snap |-> <<f>>, cur |-> 1, high |-> 1, cursor |-> 1]

\* A record goes to l_cur, and ends the log there.
LogPut(L, r, g) ==
    [rec    |-> RecPut(L.rec, L.cur, r),
     snap   |-> [i \in 1..L.cur + 1 |-> IF i <= L.cur /\ i <= L.high THEN L.snap[i] ELSE g],
     cur    |-> L.cur + 1,
     high   |-> L.cur + 1,
     cursor |-> L.cursor]

\* Mutant: the saved cursor is not used up, and every change starts a group.
LogStartEachChange(L, f) ==
    IF L.cursor = OOBLNO THEN L ELSE LogPut(L, CursorRec("INIT", L.cursor), f)

\* log_cursor1(LOG_CURSOR_INIT), put out once per set of changes.
LogStart(L, f) ==
    IF L.cursor = OOBLNO THEN L
    ELSE [LogPut(L, CursorRec("INIT", L.cursor), f) EXCEPT !.cursor = OOBLNO]

\* log_line() and log_mark().
LogChange(L, r, f, g) == LogPut(LogStart(L, f), r, g)

\* Beginning a set of changes with a saved cursor that is not in the file.
StartQuirk == IF ~nolog /\ lg.cursor > Longer(1, Len(file)) THEN {"cursor"} ELSE {}

-----------------------------------------------------------------------------
(* Marks *)

NoMark == [st |-> "unset", lno |-> 0, user |-> FALSE]

\* mark_set(): an undo (~user) does not take a live mark from the user.
MarkSet(ms, names, k, user) ==
    [m \in MarkName |->
        IF m \in names /\ (user \/ ~(ms[m].st = "live" /\ ms[m].user))
          THEN [st |-> "live", lno |-> k, user |-> user]
          ELSE ms[m]]

\* The marks mark_insdel(LINE_DELETE) deletes and logs, deleted ones again.
MarksOn(ms, k) == {m \in MarkName : ms[m].st # "unset" /\ ms[m].lno = k}

\* Mutant: the marks after a deleted line stay where they are.
MarksDeleteOnly(ms, k) ==
    [m \in MarkName |-> IF m \in MarksOn(ms, k) THEN [ms[m] EXCEPT !.st = "deleted"] ELSE ms[m]]

\* mark_insdel(LINE_DELETE).
MarksDelete(ms, k) ==
    [m \in MarkName |->
        IF m \in MarksOn(ms, k) THEN [ms[m] EXCEPT !.st = "deleted"]
        ELSE IF ms[m].lno > k THEN [ms[m] EXCEPT !.lno = @ - 1]
        ELSE ms[m]]

\* mark_insdel(LINE_INSERT): the line that ends the file's emptiness moves no mark.
OnlyLine(c, f) ==
    LET two == Exist(c, f, 2) IN ~two.yes /\ Last(two.cache, f).n = 1
OnlyLineCache(c, f) ==
    LET two == Exist(c, f, 2) IN IF two.yes THEN two.cache ELSE Last(two.cache, f).cache
MarksInsert(ms, k) ==
    [m \in MarkName |->
        IF ms[m].st # "unset" /\ ms[m].lno >= k THEN [ms[m] EXCEPT !.lno = @ + 1] ELSE ms[m]]

-----------------------------------------------------------------------------
(* The four line operations.  L is the log position they start from. *)

\* db_delete(), of a line that is there.
DbDelete(k, L) ==
    LET dead  == MarksOn(marks, k)
        seen  == Get(cache, file, k)
        after == RecDelete(file, k)
        L1    == IF dead = {} THEN L ELSE LogChange(L, MarkRec(k, dead), file, file)
        c1    == IF nolog THEN cache ELSE seen.cache
        c2    == [(IF k <= c1.lno THEN Flushed(c1) ELSE c1)
                    EXCEPT !.nlines = IF @ = OOBLNO THEN @ ELSE @ - 1]
    IN  /\ k \in 1..Len(file)
        /\ file' = after
        /\ marks' = MarksDelete(marks, k)
        /\ lg' = IF nolog THEN L ELSE LogChange(L1, LineRec("DELETE", k, seen.text), file, after)
        /\ cache' = FirstModify(c2, after)
        /\ quirks' = quirks \cup StartQuirk
                     \cup (IF ~nolog /\ seen.text # file[k] THEN {"stale"} ELSE {})

\* The common part of db_append() and db_insert(): a new line k; `keep' is the
\* test that spares the cached line.
AddLine(op, k, t, keep, L) ==
    LET after == RecInsert(RecPad(file, k - 1, Blank), k, t)
        c1    == [(IF keep THEN cache ELSE Flushed(cache))
                    EXCEPT !.nlines = IF @ = OOBLNO THEN @ ELSE @ + 1]
        c2    == FirstModify(c1, after)
        seen  == Get(c2, after, k)
        c3    == IF nolog THEN c2 ELSE seen.cache
    IN  /\ file' = after
        /\ lg' = IF nolog THEN L ELSE LogChange(L, LineRec(op, k, seen.text), file, after)
        /\ cache' = OnlyLineCache(c3, after)
        /\ marks' = IF OnlyLine(c3, after) THEN marks ELSE MarksInsert(marks, k)
        /\ quirks' = quirks \cup StartQuirk

\* Mutant: the line after the appended one may stay in the cache.
DbAppendKeepsNext(k, t, L) == AddLine("APPEND", k + 1, t, ~(k + 1 < cache.lno), L)

\* db_append() after line k, db_insert() before line k.
DbAppend(k, t, L) == AddLine("APPEND", k + 1, t, ~(k < cache.lno), L)
DbInsert(k, t, L) == AddLine("INSERT", k, t, ~(k >= cache.lno), L)

\* db_set().
DbSet(k, t, L) ==
    LET old   == GetNoCache(cache, file, k)
        after == RecPut(RecPad(file, k - 1, Blank), k, t)
        c1    == IF nolog THEN cache ELSE old.cache
        c2    == IF c1.lno = k THEN Flushed(c1) ELSE c1
        c3    == FirstModify(c2, after)
        seen  == Get(c3, after, k)
        L1    == LogChange(L, LineRec("RESET_B", k, old.text), file, file)
    IN  /\ file' = after
        /\ lg' = IF nolog THEN L ELSE LogChange(L1, LineRec("RESET_F", k, seen.text), file, after)
        /\ cache' = IF nolog THEN c3 ELSE seen.cache
        /\ quirks' = quirks \cup StartQuirk
                     \cup (IF ~nolog /\ file = <<>> THEN {"empty"} ELSE {})
        /\ UNCHANGED marks

-----------------------------------------------------------------------------
(* The steps of commands *)

\* Bound: a change puts at most three records, and its group an end.
Room == lg.cur + 3 <= MaxLog
\* Bound: replays that an irregular step has let grow the file go no further.
\* In a regular session the file never has more than MaxLines lines.
Small == Len(file) <= MaxLines
ValidLine(f) == 1..Longer(1, Len(f))

\* Every change a command makes: log_line() clears F_UNDO.
EditDone ==
    /\ undone' = (undone /\ nolog)
    /\ firstmod' = FALSE
    /\ UNCHANGED <<nolog, lundo, lno, pc, byEx, didop>>

Delete(k) ==
    /\ pc = "cmd" /\ Room
    /\ DbDelete(k, lg)
    /\ EditDone

AppendLine(k, t) ==
    /\ pc = "cmd" /\ Room /\ Len(file) < MaxLines
    /\ k \in 0..Len(file)
    /\ DbAppend(k, t, lg)
    /\ EditDone

InsertLine(k, t) ==
    /\ pc = "cmd" /\ Room /\ Len(file) < MaxLines
    /\ k \in ValidLine(file)
    /\ DbInsert(k, t, lg)
    /\ EditDone

SetLine(k, t) ==
    /\ pc = "cmd" /\ Room
    /\ k \in ValidLine(file)
    /\ DbSet(k, t, lg)
    /\ EditDone

\* A command, or the screen a change updates (scr_update(), in a replay too),
\* reads a line (db_get()) or asks for the last one (db_last()).
ReadLine(k) ==
    /\ k \in 1..Len(file) + 1
    /\ cache' = Get(cache, file, k).cache
    /\ UNCHANGED <<file, lg, nolog, undone, lundo, marks, lno, firstmod, pc, byEx, didop, quirks>>

ReadLast ==
    /\ cache' = Last(cache, file).cache
    /\ UNCHANGED <<file, lg, nolog, undone, lundo, marks, lno, firstmod, pc, byEx, didop, quirks>>

\* m, :mark and the commands that remember the previous context.
UserMark(m) ==
    /\ pc = "cmd" /\ lno \in ValidLine(file)
    /\ marks' = MarkSet(marks, {m}, lno, TRUE)
    /\ UNCHANGED <<file, cache, lg, nolog, undone, lundo, lno, firstmod, pc, byEx, didop, quirks>>

\* A command leaves the cursor on line l.
Motion(l) ==
    /\ pc = "cmd" /\ l \in ValidLine(file)
    /\ lno' = l
    /\ UNCHANGED <<file, cache, lg, nolog, undone, lundo, marks, firstmod, pc, byEx, didop, quirks>>

\* Mutant: the group of the command before is not ended.
LogCursorNoEnd ==
    /\ pc = "cmd" /\ lno \in ValidLine(file)
    /\ lg' = IF nolog THEN lg ELSE [lg EXCEPT !.cursor = lno]
    /\ UNCHANGED <<file, cache, nolog, undone, lundo, marks, lno, firstmod, pc, byEx, didop, quirks>>

\* log_cursor() at the start of a command that is not mapped: it ends the
\* changes of the command before, or just remembers the cursor.
LogCursor ==
    /\ pc = "cmd" /\ lno \in ValidLine(file)
    /\ IF nolog THEN UNCHANGED lg
       ELSE IF lg.cursor = OOBLNO
         THEN lg.cur <= MaxLog /\ lg' = [LogPut(lg, CursorRec("END", lno), file) EXCEPT !.cursor = lno]
         ELSE lg' = [lg EXCEPT !.cursor = lno]
    /\ UNCHANGED <<file, cache, nolog, undone, lundo, marks, lno, firstmod, pc, byEx, didop, quirks>>

-----------------------------------------------------------------------------
(* Undo and redo *)

\* The refusals at the head of log_backward(), log_forward(), log_setline().
CanReplay(how) ==
    /\ ~nolog
    /\ IF how = "redo" THEN lg.cur # lg.high ELSE lg.cur # 1

\* Their first steps; a refused replay leaves the command loop where it is.
BeginReplay(how) ==
    /\ pc' = IF CanReplay(how) THEN how ELSE "cmd"
    /\ nolog' = (nolog \/ CanReplay(how))
    /\ didop' = FALSE
    /\ quirks' = quirks \cup (IF CanReplay(how) /\ lg.cursor = OOBLNO THEN {"map"} ELSE {})
    /\ UNCHANGED <<file, cache, lg, lno, firstmod>>

Opposite(d) == IF d = "BACKWARD" THEN "FORWARD" ELSE "BACKWARD"

\* v_undo(): u undoes after a change, else toggles; `.' after u repeats it.
Undo(dot) ==
    /\ pc = "cmd" /\ Small
    /\ undone' = TRUE
    /\ lundo' = IF ~undone THEN "BACKWARD" ELSE IF dot THEN lundo ELSE Opposite(lundo)
    /\ BeginReplay(IF lundo' = "BACKWARD" THEN "undo" ELSE "redo")
    /\ byEx' = FALSE
    /\ UNCHANGED marks

\* ex_undo(): lundo is the direction of the last replay, turned only when one succeeds.
ExUndo ==
    LET back == ~undone \/ lundo = "FORWARD"
        how  == IF back THEN "undo" ELSE "redo"
    IN  /\ pc = "cmd" /\ Small /\ lno \in ValidLine(file)
        /\ marks' = MarkSet(marks, {AbsMark}, lno, TRUE)
        /\ undone' = TRUE
        /\ lundo' = IF undone THEN lundo ELSE "FORWARD"
        /\ byEx' = CanReplay(how)
        /\ BeginReplay(how)

\* v_Undo().
UndoLine ==
    /\ pc = "cmd" /\ Small
    /\ undone' = TRUE
    /\ lundo' = "BACKWARD"
    /\ BeginReplay("setline")
    /\ byEx' = FALSE
    /\ UNCHANGED marks

\* log->get() failed: log_err() starts a new log.  F_NOLOG stays set.
LogFailed ==
    /\ pc' = "cmd"
    /\ lg' = LogInit(file)
    /\ byEx' = FALSE /\ didop' = FALSE
    /\ UNCHANGED <<file, cache, nolog, undone, lundo, marks, lno, firstmod, quirks>>

\* The replay returns with the log at L.
ReplayDone(L) ==
    /\ pc' = "cmd"
    /\ nolog' = FALSE
    /\ lg' = L
    /\ lundo' = IF byEx THEN Opposite(lundo) ELSE lundo
    /\ byEx' = FALSE /\ didop' = FALSE
    /\ UNCHANGED <<file, cache, undone, marks, firstmod, quirks>>

\* One more record has been dealt with.
ReplayOn == UNCHANGED <<nolog, undone, lundo, lno, pc, byEx>> /\ firstmod' = FALSE

\* A record that needs nothing done.
PassOver(L) ==
    /\ lg' = L
    /\ UNCHANGED <<file, cache, nolog, undone, lundo, marks, lno, firstmod, pc, byEx, didop, quirks>>

\* A change that log_setline() steps over without undoing it.
LeaveDone(L) ==
    /\ lg' = L
    /\ quirks' = quirks \cup {"setline"}
    /\ UNCHANGED <<file, cache, nolog, undone, lundo, marks, lno, firstmod, pc, byEx, didop>>

\* Take the line of a record out again, or back in; db_delete() of a line that
\* is not there fails, with the marks already changed, and ends the replay.
ReplayDelete(k, L) ==
    \/ /\ DbDelete(k, L)
       /\ didop' = TRUE
       /\ ReplayOn
    \/ /\ k \notin 1..Len(file)
       /\ marks' = MarksDelete(marks, k)
       /\ lg' = L
       /\ pc' = "cmd" /\ nolog' = FALSE
       /\ byEx' = FALSE /\ didop' = FALSE
       /\ UNCHANGED <<file, cache, undone, lundo, lno, firstmod, quirks>>

\* Mutant: a deleted line comes back after the place it was taken from.
ReplayInsertAfter(r, L) == DbAppend(r.lno, r.text, L) /\ didop' = TRUE /\ ReplayOn

ReplayInsert(r, L) == DbInsert(r.lno, r.text, L) /\ didop' = TRUE /\ ReplayOn
ReplaySet(r, L)    == DbSet(r.lno, r.text, L) /\ didop' = TRUE /\ ReplayOn
ReplayMark(r, L) ==
    /\ marks' = MarkSet(marks, r.names, r.lno, FALSE)
    /\ lg' = L
    /\ didop' = TRUE
    /\ UNCHANGED <<file, cache, nolog, undone, lundo, lno, firstmod, pc, byEx, quirks>>

\* One turn of the loop of log_backward().
UndoStep ==
    LET i == lg.cur - 1
        r == lg.rec[i]
        L == [lg EXCEPT !.cur = i]
    IN  /\ pc = "undo"
        /\ \/ i = 0 /\ LogFailed
           \/ /\ i > 0
              /\ \/ r.op = "INIT" /\ didop /\ ReplayDone(L) /\ lno' = r.lno
                 \/ (r.op \in {"END", "RESET_F"} \/ (r.op = "INIT" /\ ~didop)) /\ PassOver(L)
                 \/ r.op \in Added /\ ReplayDelete(r.lno, L)
                 \/ r.op = "DELETE" /\ ReplayInsert(r, L)
                 \/ r.op = "RESET_B" /\ ReplaySet(r, L)
                 \/ r.op = "MARK" /\ ReplayMark(r, L)

\* One turn of the loop of log_forward().
RedoStep ==
    LET i == lg.cur + 1
        r == lg.rec[i]
        L == [lg EXCEPT !.cur = i]
    IN  /\ pc = "redo"
        /\ \/ i > Len(lg.rec) /\ LogFailed
           \/ /\ i <= Len(lg.rec)
              /\ \/ r.op = "END" /\ didop /\ ReplayDone([L EXCEPT !.cur = i + 1]) /\ lno' = r.lno
                 \/ (r.op \in {"INIT", "RESET_B"} \/ (r.op = "END" /\ ~didop)) /\ PassOver(L)
                 \/ r.op \in Added /\ ReplayInsert(r, L)
                 \/ r.op = "DELETE" /\ ReplayDelete(r.lno, L)
                 \/ r.op = "RESET_F" /\ ReplaySet(r, L)
                 \/ r.op = "MARK" /\ ReplayMark(r, L)

\* One turn of the loop of log_setline(): only texts of this very line.  (It
\* has no didop; what ReplaySet and ReplayMark note there, nobody reads.)
SetlineStep ==
    LET i == lg.cur - 1
        r == lg.rec[i]
        L == [lg EXCEPT !.cur = i]
    IN  /\ pc = "setline"
        /\ \/ i = 0 /\ LogFailed
           \/ /\ i > 0
              /\ \/ r.op = "INIT" /\ (r.lno # lno \/ i = 1) /\ ReplayDone(L) /\ UNCHANGED lno
                 \/ r.op = "END" /\ r.lno # lno /\ ReplayDone(lg) /\ UNCHANGED lno
                 \/ /\ \/ r.op = "INIT" /\ r.lno = lno /\ i # 1
                       \/ r.op = "END" /\ r.lno = lno
                       \/ r.op = "RESET_F"
                    /\ PassOver(L)
                 \/ (r.op \in Added \cup {"DELETE"} \/ (r.op = "RESET_B" /\ r.lno # lno)) /\ LeaveDone(L)
                 \/ r.op = "RESET_B" /\ r.lno = lno /\ ReplaySet(r, L)
                 \/ r.op = "MARK" /\ ReplayMark(r, L)

-----------------------------------------------------------------------------
\* A file just opened: read by nobody yet, or counted; the previous context
\* mark is on line 1 if there is one.
Init ==
    /\ file \in InitFiles
    /\ cache = [lno |-> 0, text |-> Blank, nlines |-> 0]
    /\ lg = LogInit(file)
    /\ nolog = FALSE
    /\ undone = FALSE
    /\ lundo = "FORWARD"
    /\ marks = [m \in MarkName |->
                  IF m = AbsMark /\ file # <<>>
                    THEN [st |-> "live", lno |-> 1, user |-> FALSE] ELSE NoMark]
    /\ lno = 1
    /\ firstmod \in BOOLEAN
    /\ pc = "cmd"
    /\ byEx = FALSE
    /\ didop = FALSE
    /\ quirks = {}

Edit ==
    \/ \E k \in 1..Len(file) : Delete(k)
    \/ \E k \in 0..Len(file), t \in Text : AppendLine(k, t)
    \/ \E k \in ValidLine(file), t \in Text : InsertLine(k, t) \/ SetLine(k, t)

Look ==
    \/ \E k \in 1..Len(file) + 1 : ReadLine(k)
    \/ ReadLast
    \/ \E m \in MarkName : UserMark(m)
    \/ \E l \in ValidLine(file) : Motion(l)
    \/ LogCursor

Replay == UndoStep \/ RedoStep \/ SetlineStep

Next ==
    \/ Edit \/ Look
    \/ \E dot \in BOOLEAN : Undo(dot)
    \/ ExUndo \/ UndoLine
    \/ Replay

\* The loops of the log are plain code: nothing can keep them from going on.
Spec == Init /\ [][Next]_vars /\ WF_vars(Replay)
=============================================================================
