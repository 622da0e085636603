------------------------------ MODULE ExfProps ------------------------------
(***************************************************************************)
(* What makes the shared file state of Exf correct.                        *)
(*                                                                         *)
(* Regular: the session has taken none of the irregular steps that the     *)
(* history variable quirks names, each of which a run or the README shows  *)
(* to break one of the properties below.                                   *)
(***************************************************************************)
EXTENDS Exf

Regular == quirks = {}
Idle == pc = "cmd"

LogType == [rec : Seq(Record), snap : Seq(Seq(Text)), cur : Nat, high : Nat, cursor : Nat]

\* The log has a content for the positions 1..high, and l_cur and l_high stay
\* within one of its last record.
LogOK(L) ==
    /\ L \in LogType
    /\ Len(L.snap) = L.high
    /\ L.high \in 1..Len(L.rec) + 1
    /\ L.cur \in 1..Len(L.rec) + 1

CacheType == [lno : Nat, text : Text, nlines : Nat]
MarkType == [st : {"unset", "live", "deleted"}, lno : Nat, user : BOOLEAN]

\* Every variable has its type, and the position in the log (l_cur) never
\* leaves its records, regular session or not.
TypeOK ==
    /\ file \in Seq(Text)
    /\ cache \in CacheType
    /\ LogOK(lg)
    /\ nolog \in BOOLEAN /\ undone \in BOOLEAN /\ firstmod \in BOOLEAN
    /\ byEx \in BOOLEAN /\ didop \in BOOLEAN
    /\ lundo \in {"BACKWARD", "FORWARD"}
    /\ marks \in [MarkName -> MarkType]
    /\ lno \in Nat
    /\ pc \in {"cmd", "undo", "redo", "setline"}
    /\ quirks \in SUBSET Quirk

-----------------------------------------------------------------------------
(* The log and the file *)

\* Between commands the text is what it was when the log stood at l_cur, and
\* l_cur is the end of the log or the start of a group: every u and every redo
\* took back or redid whole commands, and exactly (log_backward, log_forward).
UndoIsExact ==
    Regular /\ Idle /\ ~nolog =>
        /\ lg.cur \in 1..lg.high
        /\ file = lg.snap[lg.cur]
        /\ lg.cur = lg.high \/ lg.rec[lg.cur].op = "INIT"

\* No replay runs off either end of the log, and so none leaves logging
\* switched off: undo stays possible (F_NOLOG, LOG_ERR in log.c).
UndoStaysPossible ==
    Regular => /\ Idle => ~nolog
               /\ pc \in {"undo", "setline"} => lg.cur > 1
               /\ pc = "redo" => lg.cur < lg.high

\* The cursor u or redo restores is on a line of the file it restores: the
\* saved position belongs to the same text (LOG_CURSOR_INIT, LOG_CURSOR_END).
CursorRestoredInFile ==
    [][Regular /\ pc \in {"undo", "redo"} /\ pc' = "cmd" => lno' \in ValidLine(file)]_vars

-----------------------------------------------------------------------------
(* The cache and the file *)

\* The cached line is the file's.
CacheCoherent == cache.lno # OOBLNO => cache.lno <= Len(file) /\ cache.text = file[cache.lno]

\* The cached line count is the file's through every edit and every replay
\* (++ and -- of c_nlines in line.c).
CountCoherent == Regular => cache.nlines \in {OOBLNO, Len(file)}

\* As long as changes are logged, no change leaves a line in the cache that is
\* no longer that line of the file (the flushes of c_lno in line.c, which for
\* db_insert() work only because log_line() reads the new line afterwards).
LoggedEditKeepsCache == [][Edit /\ ~nolog /\ CacheCoherent => CacheCoherent']_vars

-----------------------------------------------------------------------------
(* Marks *)

\* A mark that is set and not deleted is on a line of the file, after any
\* sequence of changes, undos and redos (mark_insdel, LOG_MARK).
MarksInFile ==
    Regular => \A m \in MarkName : marks[m].st = "live" => marks[m].lno \in ValidLine(file)


-----------------------------------------------------------------------------
(* The inductive invariant behind UndoIsExact and UndoStaysPossible.  *)

\* Record r leads from content s to content t, and can be taken back.
Leads(r, s, t) ==
    \/ r.op \in {"INIT", "END"} /\ r.lno \in ValidLine(s) /\ t = s
    \/ r.op = "MARK" /\ r.lno \in 1..Len(s) /\ t = s
    \/ r.op \in Added /\ r.lno \in 1..Len(s) + 1 /\ t = RecInsert(s, r.lno, r.text)
    \/ r.op = "DELETE" /\ r.lno \in 1..Len(s) /\ r.text = s[r.lno] /\ t = RecDelete(s, r.lno)
    \/ r.op = "RESET_B" /\ r.lno \in 1..Len(s) /\ r.text = s[r.lno] /\ t = s
    \/ r.op = "RESET_F" /\ r.lno \in 1..Len(s) /\ t = RecPut(s, r.lno, r.text)

\* What record i and the one before it have to do with each other: a group is
\* INIT, changes, END, and a RESET_F comes right after the RESET_B of its line.
Follows(L, i) ==
    /\ L.rec[i].op = "INIT" <=> i = 1 \/ L.rec[i - 1].op = "END"
    /\ L.rec[i].op = "END" => i > 1 /\ L.rec[i - 1].op \notin {"INIT", "RESET_B"}
    /\ L.rec[i].op = "RESET_F" =>
          i > 1 /\ L.rec[i - 1].op = "RESET_B" /\ L.rec[i - 1].lno = L.rec[i].lno

LogShape(L) ==
    \A i \in 1..L.high - 1 : Leads(L.rec[i], L.snap[i], L.snap[i + 1]) /\ Follows(L, i)

\* The last group is open exactly while the cursor of its start is used up.
GroupOpen(L) ==
    IF L.cursor = OOBLNO
      THEN /\ L.cur = L.high /\ L.high > 1
           /\ L.rec[L.high - 1].op \notin {"INIT", "END", "RESET_B"}
      ELSE L.high = 1 \/ L.rec[L.high - 1].op = "END"

\* l_cur is the end of the log or the first record of a group.
AtBoundary(L) == L.cur = L.high \/ L.rec[L.cur].op = "INIT"

\* Rolling back: what is left of the record at l_cur is its RESET_B.
BackContent(L) ==
    IF L.cur < L.high /\ L.rec[L.cur].op = "RESET_F" THEN L.snap[L.cur + 1] ELSE L.snap[L.cur]

LogInv ==
    /\ LogShape(lg)
    /\ lg.cur <= lg.high
    /\ GroupOpen(lg)
    /\ nolog = ~Idle
    /\ Idle => AtBoundary(lg) /\ file = lg.snap[lg.cur]
    /\ ~Idle => lg.cursor # OOBLNO
    /\ pc \in {"undo", "setline"} => lg.cur > 1 /\ file = BackContent(lg)
    /\ pc = "undo" =>
          IF didop THEN lg.cur < lg.high /\ lg.rec[lg.cur].op \notin {"INIT", "END"}
          ELSE \/ AtBoundary(lg)
               \/ lg.cur < lg.high /\ lg.rec[lg.cur].op \in {"END", "RESET_F"}
    /\ pc = "redo" =>
          /\ lg.cur < lg.high /\ lg.rec[lg.cur].op # "END"
          /\ file = lg.snap[lg.cur + 1]
          /\ didop \/ lg.rec[lg.cur].op \in {"INIT", "RESET_B"}

\* TypeOK, and for a regular session the shape of the log and the count.
IndInv == TypeOK /\ (Regular => LogInv) /\ CountCoherent

-----------------------------------------------------------------------------
\* Every replay ends, whatever the log holds: the loops in log.c have no exit
\* but the records themselves.
ReplayEnds == (pc # "cmd") ~> (pc = "cmd")
=============================================================================
