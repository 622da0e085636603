------------------------------ MODULE Motions ------------------------------
(***************************************************************************)
(* The vi cursor motions over character streams (vi/getc.c): words,        *)
(* sentences, matching brackets, and the ones over lines: paragraphs and   *)
(* sections.                                                               *)
(*                                                                         *)
(* A text F is a sequence of lines, a line a sequence of characters; line  *)
(* numbers start at 1 and columns at 0.  A column of -1 is the size_t that *)
(* the code wraps on purpose ("--vp->m_stop.cno") and cut() and del() add  *)
(* 1 to.  Every character is one column wide (no tabs).                    *)
(*                                                                         *)
(* A motion is an operator of the text, the cursor, the count (0 when none *)
(* was given) and op, the command it is the motion of ("" when it is a     *)
(* command itself); its value is the VICMD it leaves, or Fail.             *)
(***************************************************************************)
EXTENDS Integers, Sequences, FiniteSets

Word == {"a", "b"}              \* inword()
Blank == {" "}                  \* isblank()
Stops == {".", "?", "!"}        \* end a sentence
Closers == {")", "]"}           \* may follow the end of a sentence

Pos(l, c) == [lno |-> l, cno |-> c]
(* The order of two marks; a column of -1 is the largest size_t.           *)
Before(p, q) == \/ p.lno < q.lno
                \/ p.lno = q.lno /\ p.cno # -1 /\ (q.cno = -1 \/ p.cno < q.cno)
Least(a, b) == IF a < b THEN a ELSE b
EndCol(F, l) == IF Len(F[l]) = 0 THEN 0 ELSE Len(F[l]) - 1
Exists(F, l) == l \in 1..Len(F)
IsEmpty(F, l) == \A i \in DOMAIN F[l] : F[l][i] \in Blank

(* nonblank(): the first non-blank column at or after off, the last column *)
(* when there is none, 0 when off is not in the line.                      *)
Nonblank(F, l, off) ==
  IF ~Exists(F, l) \/ off >= Len(F[l]) THEN 0
  ELSE LET nb == {i \in off + 1 .. Len(F[l]) : F[l][i] \notin Blank}
       IN IF nb = {} THEN Len(F[l]) - 1
          ELSE (CHOOSE i \in nb : \A j \in nb : i <= j) - 1

(***************************************************************************)
(* Character streams: a place, and a flag when there is no character.      *)
(***************************************************************************)
At(F, l, c) == [lno |-> l, cno |-> IF IsEmpty(F, l) THEN 0 ELSE c,
                flag |-> IF IsEmpty(F, l) THEN "EMP" ELSE ""]
Ch(F, cs) == F[cs.lno][cs.cno + 1]
CsNext(F, cs) ==
  CASE cs.flag \in {"EMP", "EOL"} ->
         IF Exists(F, cs.lno + 1) THEN At(F, cs.lno + 1, 0)
         ELSE [cs EXCEPT !.flag = "EOF"]
    [] cs.flag = "" -> IF cs.cno = Len(F[cs.lno]) - 1
                       THEN [cs EXCEPT !.flag = "EOL"]
                       ELSE [cs EXCEPT !.cno = @ + 1]
    [] OTHER -> cs
CsPrev(F, cs) ==
  CASE cs.flag \in {"EMP", "EOL"} ->
         IF cs.lno = 1 THEN [cs EXCEPT !.flag = "SOF"]
         ELSE At(F, cs.lno - 1, EndCol(F, cs.lno - 1))
    [] cs.flag \in {"", "EOF"} ->
         IF cs.cno > 0 THEN [cs EXCEPT !.cno = @ - 1]
         ELSE [cs EXCEPT !.flag = IF cs.lno = 1 THEN "SOF" ELSE "EOL"]
    [] OTHER -> cs
CsStep(F, cs, fwd) == IF fwd THEN CsNext(F, cs) ELSE CsPrev(F, cs)

OnBlank(F, cs) == cs.flag = "" /\ Ch(F, cs) \in Blank
OnText(F, cs) == cs.flag = "" /\ Ch(F, cs) \notin Blank
Done(cs) == cs.flag \in {"EOF", "SOF"}

(* cs_fblank(), cs_bblank(): on to the next or previous non-blank.         *)
RECURSIVE EatBlanks(_, _, _)
EatBlanks(F, cs, fwd) ==
  LET n == CsStep(F, cs, fwd)
  IN IF n.flag \in {"EOL", "EMP"} \/ OnBlank(F, n) THEN EatBlanks(F, n, fwd) ELSE n

(* cs_fspace(): off the blanks under the cursor, not off the line.         *)
RECURSIVE Fspace(_, _)
Fspace(F, cs) == IF OnBlank(F, cs) THEN Fspace(F, CsNext(F, cs)) ELSE cs

(***************************************************************************)
(* VICMD                                                                   *)
(***************************************************************************)
Fail == [ok |-> FALSE]
Vicmd(start, stop, final, lmode) ==
  [ok |-> TRUE, start |-> start, stop |-> stop, final |-> final,
   lmode |-> lmode, rcm |-> ""]
Times(count) == IF count = 0 THEN 1 ELSE count
Left(p) == [p EXCEPT !.cno = @ - 1]
Place(cs) == Pos(cs.lno, cs.cno)

(***************************************************************************)
(* Words                                                                   *)
(***************************************************************************)
(* Step until the class of the characters changes; a word of W, E and B is *)
(* anything but blanks.                                                    *)
RECURSIVE WordRun(_, _, _, _, _)
WordRun(F, cs, fwd, big, inword) ==
  LET n == CsStep(F, cs, fwd)
  IN IF ~OnText(F, n) \/ (~big /\ inword # (Ch(F, n) \in Word)) THEN n
     ELSE WordRun(F, n, fwd, big, inword)
Run(F, cs, fwd, big) == WordRun(F, cs, fwd, big, cs.flag = "" /\ Ch(F, cs) \in Word)
(* Mutant of PastBlanks: the end of a line is not blank.                    *)
PastBlanksInLine(F, cs, fwd) ==
  IF OnText(F, cs) \/ Done(cs) \/ cs.flag = "EOL" THEN cs ELSE EatBlanks(F, cs, fwd)
PastBlanks(F, cs, fwd) == IF OnText(F, cs) \/ Done(cs) THEN cs ELSE EatBlanks(F, cs, fwd)

RECURSIVE FWords(_, _, _, _, _)
FWords(F, cs, cnt, big, op) ==
  IF cnt = 0 THEN cs
  ELSE LET r == Run(F, cs, TRUE, big)
       IN IF Done(r) THEN r
          ELSE IF cnt = 1 /\ op # ""
               THEN IF op \in {"d", "y"} THEN Fspace(F, r) ELSE r
          ELSE LET n == PastBlanks(F, r, TRUE)
               IN IF Done(n) THEN n ELSE FWords(F, n, cnt - 1, big, op)

FwordFrom(F, cs, cnt, big, op) ==
  IF OnText(F, cs) THEN FWords(F, cs, cnt, big, op)
  ELSE IF op \in {"d", "y"} /\ OnBlank(F, cs) /\ cnt = 1 THEN Fspace(F, cs)
  ELSE FWords(F, EatBlanks(F, cs, TRUE), cnt - 1, big, op)
(* A motion forward to stop fails when it does not move.                   *)
Forward(cur, op, stop) ==
  IF op = "" /\ stop = cur THEN Fail
  ELSE Vicmd(cur, stop, IF op # "" THEN cur ELSE stop, FALSE)
FwordTo(cur, op, cs) ==
  Forward(cur, op, IF op # "" /\ cs.flag = "" THEN Left(Place(cs)) ELSE Place(cs))
Fword(F, cur, count, op, big) ==
  LET cs0 == At(F, cur.lno, cur.cno)
  IN IF ~Exists(F, cur.lno) THEN Fail
     ELSE IF op = "c" /\ OnBlank(F, cs0) /\ Times(count) = 1
          THEN Vicmd(cur, cur, cur, FALSE)
     ELSE FwordTo(cur, op, FwordFrom(F, cs0, Times(count), big, op))

(* The loop of eword() and bword(): to the far end of the cnt-th word.     *)
RECURSIVE FarEnd(_, _, _, _, _)
FarEnd(F, cs, cnt, big, fwd) ==
  LET r == Run(F, cs, fwd, big)
  IN IF Done(r) THEN r
     ELSE IF cnt = 1 THEN IF r.flag = "" THEN CsStep(F, r, ~fwd) ELSE r
     ELSE LET n == PastBlanks(F, r, fwd)
          IN IF Done(n) THEN n ELSE FarEnd(F, n, cnt - 1, big, fwd)
OffWord(F, cs, fwd) ==
  LET n == CsStep(F, cs, fwd)
  IN IF ~OnText(F, cs) THEN EatBlanks(F, cs, fwd)
     ELSE IF OnText(F, n) THEN n ELSE EatBlanks(F, n, fwd)
FarWord(F, cur, count, big, fwd) ==
  Place(FarEnd(F, OffWord(F, At(F, cur.lno, cur.cno), fwd), Times(count), big, fwd))

Eword(F, cur, count, op, big) ==
  IF Exists(F, cur.lno) THEN Forward(cur, op, FarWord(F, cur, count, big, TRUE)) ELSE Fail
Backward(cur, op, stop) == Vicmd(IF op # "" THEN Left(cur) ELSE cur, stop, stop, FALSE)
BwordTo(cur, op, stop) == IF stop = cur THEN Fail ELSE Backward(cur, op, stop)
Bword(F, cur, count, op, big) ==
  IF Exists(F, cur.lno) THEN BwordTo(cur, op, FarWord(F, cur, count, big, FALSE)) ELSE Fail

(***************************************************************************)
(* Sentences                                                               *)
(***************************************************************************)
(* The loop of v_sentencef(): where it ends, and whether the end of the    *)
(* file stopped it.                                                        *)
RECURSIVE SentF(_, _, _, _)
SentF(F, cs, state, cnt) ==
  LET n == CsNext(F, cs)
      Found(m) == [cs |-> m, sink |-> FALSE]
      m == IF n.flag \in {"EOL", "EMP"} THEN CsNext(F, n) ELSE n
  IN CASE n.flag = "EOF" -> [cs |-> n, sink |-> TRUE]
       [] n.flag = "EOL" ->
            IF state = "NONE" THEN SentF(F, n, "NONE", cnt)
            ELSE IF cnt > 1 THEN SentF(F, n, "NONE", cnt - 1)
            ELSE Found(IF OnBlank(F, m) THEN EatBlanks(F, m, TRUE) ELSE m)
       [] n.flag = "EMP" ->         \* an empty line is two sentences
            IF cnt = 1 THEN Found(n)
            ELSE IF cnt = 2 THEN Found(EatBlanks(F, n, TRUE))
            ELSE SentF(F, EatBlanks(F, n, TRUE), "NONE", cnt - 2)
       [] OTHER ->
            CASE Ch(F, n) \in Stops -> SentF(F, n, "PERIOD", cnt)
              [] Ch(F, n) \in Closers /\ state = "PERIOD" -> SentF(F, n, state, cnt)
              [] Ch(F, n) \in Blank /\ state = "PERIOD" -> SentF(F, n, "BLANK", cnt)
              [] Ch(F, n) \in Blank /\ state = "BLANK" ->
                   IF cnt = 1 THEN Found(EatBlanks(F, n, TRUE))
                   ELSE SentF(F, n, "NONE", cnt - 1)
              [] OTHER -> SentF(F, n, "NONE", cnt)

(* Between two sentences: the blanks end the first of them.                *)
EndsSentence(F, cs) == cs.flag = "EMP" \/ (cs.flag = "" /\ Ch(F, cs) \in Stops)
Between(F, cs) ==
  cs.flag = "EMP" \/ (OnBlank(F, cs) /\ EndsSentence(F, EatBlanks(F, cs, FALSE)))
SentfFrom(F, cs, cnt) ==
  IF ~Between(F, cs) THEN SentF(F, cs, "NONE", cnt)
  ELSE IF cnt = 1 THEN [cs |-> EatBlanks(F, cs, TRUE), sink |-> FALSE]
  ELSE SentF(F, EatBlanks(F, cs, TRUE), "NONE", cnt - 1)

SentfTo(F, cur, op, r) ==
  LET stop == Place(r.cs)
      lines == cur.cno = 0 /\ (r.cs.flag # "" \/ stop.cno = 0)
      opstop == IF ~lines THEN Left(stop)
                ELSE IF cur.lno < stop.lno THEN Pos(stop.lno - 1, EndCol(F, stop.lno - 1))
                ELSE stop
  IN IF r.sink /\ stop = cur /\ op = "" THEN Fail
     ELSE IF op = "" THEN Vicmd(cur, stop, stop, FALSE)
     ELSE Vicmd(cur, opstop, cur, lines)
Sentencef(F, cur, count, op) ==
  IF Exists(F, cur.lno)
  THEN SentfTo(F, cur, op, SentfFrom(F, At(F, cur.lno, cur.cno), Times(count)))
  ELSE Fail

(* v_sentenceb(): past the text under the cursor.                          *)
RECURSIVE OffText(_, _)
OffText(F, cs) == LET n == CsPrev(F, cs) IN IF OnText(F, n) THEN OffText(F, n) ELSE n
RECURSIVE OffLine(_, _)
OffLine(F, cs) == LET n == CsPrev(F, cs) IN IF n.flag = "EOL" THEN OffLine(F, n) ELSE n
RECURSIVE SkipClosers(_, _)
SkipClosers(F, cs) ==
  LET n == CsNext(F, cs)
  IN IF n.flag = "" /\ Ch(F, n) \in Closers THEN SkipClosers(F, n) ELSE n
RECURSIVE BackOver(_, _)
BackOver(F, cs) ==
  LET n == CsPrev(F, cs)
  IN IF n.flag = "EOL" \/ OnBlank(F, n) THEN BackOver(F, n) ELSE n

(* A blank never sets last: the character before it, next, is not kept.    *)
RECURSIVE SentB(_, _, _, _, _)
SentB(F, cur, cs, last, cnt) ==
  LET n == CsPrev(F, cs)
      s == SkipClosers(F, n)
      start == IF OnText(F, s) THEN s ELSE EatBlanks(F, s, TRUE)
      real == BackOver(F, start)
      Ret == IF cur.lno # start.lno \/ cur.cno > start.cno THEN start
             ELSE IF real.flag = "EMP" THEN real
             ELSE SentB(F, cur, [n EXCEPT !.flag = real.flag], FALSE, 1)
  IN CASE n.flag = "SOF" -> n
       [] n.flag = "EOL" -> SentB(F, cur, n, TRUE, cnt)
       [] n.flag = "EMP" ->
            IF cnt = 1 THEN Ret ELSE SentB(F, cur, EatBlanks(F, n, FALSE), FALSE, cnt - 1)
       [] OTHER ->
            IF Ch(F, n) \in Stops
            THEN IF ~last THEN SentB(F, cur, n, FALSE, cnt)
                 ELSE IF cnt > 1 THEN SentB(F, cur, n, FALSE, cnt - 1) ELSE Ret
            ELSE SentB(F, cur, n, Ch(F, n) \in Closers, cnt)

SentbFrom(F, cs) ==
  IF cs.flag = "EMP" THEN OffLine(F, EatBlanks(F, cs, FALSE))
  ELSE IF OnText(F, cs) THEN OffText(F, cs) ELSE cs
SentbTo(F, cur, op, cs) ==
  LET stop == Place(cs)
      lines == cur.cno = 0 /\ (cs.flag # "" \/ stop.cno = 0)
      start == IF op = "" THEN cur
               ELSE IF lines THEN Pos(cur.lno - 1, EndCol(F, cur.lno - 1))
               ELSE Left(cur)
  IN Vicmd(start, stop, stop, op # "" /\ lines)
Sentenceb(F, cur, count, op) ==
  LET cs == SentbFrom(F, At(F, cur.lno, cur.cno))
  IN IF cur = Pos(1, 0) THEN Vicmd(cur, cur, cur, FALSE)
     ELSE IF ~Exists(F, cur.lno) THEN Fail
     ELSE SentbTo(F, cur, op, SentB(F, cur, cs, FALSE, Times(count)))

(***************************************************************************)
(* Paragraphs and sections                                                 *)
(***************************************************************************)
(* A line that starts a paragraph or a section by its macro, ".P".         *)
IsMacro(F, l) == Len(F[l]) >= 2 /\ F[l][1] = "." /\ F[l][2] = "P"
                 /\ (Len(F[l]) = 2 \/ F[l][3] = " ")
IsSection(F, l) == Len(F[l]) > 0 /\ (F[l][1] = "{" \/ IsMacro(F, l))

(* The loops over the lines, up or down: the line where cnt reaches 0, or  *)
(* the first line that is not there.                                       *)
RECURSIVE ParaLine(_, _, _, _, _)
ParaLine(F, lno, intext, cnt, d) ==
  LET l == lno + d
      hits == IF IsEmpty(F, l) THEN 1 ELSE IF IsMacro(F, l) THEN 2 ELSE 0
  IN IF ~Exists(F, l) THEN l
     ELSE IF intext
     THEN IF cnt <= hits THEN l
          ELSE ParaLine(F, l, ~IsEmpty(F, l), cnt - hits, d)
     ELSE IF IsEmpty(F, l) THEN ParaLine(F, l, FALSE, cnt, d)
     ELSE IF cnt = 1 THEN l
     ELSE ParaLine(F, l, TRUE, cnt - 1, d)

(* A motion by whole lines when all the text of the line is cut.           *)
AllText(F, cur) == cur.cno = 0 \/ cur.cno <= Nonblank(F, cur.lno, 0)

Paragraphf(F, cur, count, op) ==
  LET lm == op # "" /\ AllText(F, cur)
      stop0 == IF op # "" /\ cur.cno > 0 THEN Pos(cur.lno, Nonblank(F, cur.lno, 0))
               ELSE cur
      text == ~IsEmpty(F, cur.lno)
      lno == ParaLine(F, cur.lno, text, 2 * Times(count) - (IF text THEN 1 ELSE 0), 1)
      near == cur.lno = lno - 1
      len == IF near THEN EndCol(F, cur.lno) ELSE 0   \* db_get() left it 0
      stop == IF Exists(F, lno)
              THEN IF op # "" THEN Pos(lno - 1, EndCol(F, lno - 1)) ELSE Pos(lno, 0)
              ELSE Pos(lno - 1, len)
      v == Vicmd(cur, stop, IF op # "" THEN cur ELSE stop, lm)
  IN IF ~Exists(F, cur.lno) THEN Vicmd(Pos(cur.lno, 0), stop0, cur, lm)
     ELSE IF Exists(F, lno) THEN v
     ELSE IF near /\ stop0 = cur THEN Fail
     ELSE [v EXCEPT !.rcm = IF op = "d" THEN "FNB" ELSE ""]

Paragraphb(F, cur, count, op) ==
  LET lm == op # "" /\ cur.cno = 0
      start == IF op = "" THEN cur
               ELSE IF lm THEN [cur EXCEPT !.lno = @ - 1] ELSE Left(cur)
      text == ~IsEmpty(F, cur.lno)
      from == IF text /\ start.cno > 0 THEN cur.lno + 1 ELSE cur.lno
      lno == ParaLine(F, from, text, 2 * Times(count) - (IF text THEN 1 ELSE 0), -1)
      stop == Pos(IF start.lno <= 1 \/ ~Exists(F, cur.lno) \/ lno = 0 THEN 1 ELSE lno, 0)
  IN IF lm /\ cur.lno = 1 THEN Fail ELSE Vicmd(start, stop, stop, lm)

(* The cnt-th of the lines ls from the first or from the last.             *)
NthLine(ls, cnt, fwd) ==
  CHOOSE l \in ls : Cardinality({k \in ls : IF fwd THEN k <= l ELSE k >= l}) = cnt

Sectionf(F, cur, count, op) ==
  LET lm == op # "" /\ AllText(F, cur)
      ls == {l \in cur.lno + 1 .. Len(F) :
               \/ IsSection(F, l)
               \/ op # "" /\ Len(F[l]) > 0 /\ F[l][1] = "}"}
      found == Cardinality(ls) >= Times(count)
      lno == IF found THEN NthLine(ls, Times(count), TRUE) ELSE Len(F) + 1
      stop == IF found /\ (op = "" \/ F[lno][1] = "}") THEN Pos(lno, 0)
              ELSE Pos(lno - 1, EndCol(F, lno - 1))
  IN IF ~found /\ cur.lno >= Len(F) THEN Fail
     ELSE Vicmd(cur, stop, IF op = "" THEN stop
                           ELSE IF lm THEN Pos(cur.lno, 0) ELSE cur, lm)

Sectionb(F, cur, count, op) ==
  LET ls == {l \in 1..cur.lno - 1 : IsSection(F, l)}
      stop == Pos(IF Cardinality(ls) >= Times(count)
                  THEN NthLine(ls, Times(count), FALSE) ELSE 1, 0)
      start == IF cur.cno = 0 THEN [cur EXCEPT !.lno = @ - 1] ELSE Left(cur)
  IN IF cur.lno <= 1 THEN Fail
     ELSE [Vicmd(start, stop, stop, cur.cno = 0)
             EXCEPT !.rcm = IF cur.cno = 0 THEN "FNB" ELSE ""]

(***************************************************************************)
(* In the line                                                             *)
(***************************************************************************)
Leftc(F, cur, count, op) ==
  LET stop == [cur EXCEPT !.cno = IF @ > Times(count) THEN @ - Times(count) ELSE 0]
  IN IF cur.cno = 0 THEN Fail
     ELSE Vicmd(IF op # "" THEN Left(cur) ELSE cur, stop, stop, FALSE)

Rightc(F, cur, count, op) ==
  LET past == cur.cno + Times(count) > EndCol(F, cur.lno)
      stop == [cur EXCEPT !.cno = IF past THEN EndCol(F, cur.lno)
                                  ELSE @ + Times(count) - (IF op # "" THEN 1 ELSE 0)]
  IN IF ~Exists(F, cur.lno) \/ Len(F[cur.lno]) = 0 THEN Fail
     ELSE IF op = "" /\ cur.cno = EndCol(F, cur.lno) THEN Fail
     ELSE Vicmd(cur, stop, IF op # "" THEN cur ELSE stop, FALSE)

(* v_zero(), v_first() and v_ncol(): to a column of this line.             *)
ToColumn(cur, col, op) ==
  LET stop == [cur EXCEPT !.cno = col]
  IN IF op = "" THEN Vicmd(cur, stop, stop, FALSE)
     ELSE IF cur.cno = col THEN Fail
     ELSE IF cur.cno < col THEN Vicmd(cur, Left(stop), cur, FALSE)
     ELSE Vicmd(Left(cur), stop, stop, FALSE)
Zero(F, cur, count, op) == ToColumn(cur, 0, op)
First(F, cur, count, op) == ToColumn(cur, Nonblank(F, cur.lno, 0), op)
(* vs_colpos(), every character being one column wide.                     *)
ColPos(F, l, col) == IF Exists(F, l) THEN Least(col, EndCol(F, l)) ELSE 0
Ncol(F, cur, count, op) ==
  ToColumn(cur, IF count > 1 THEN ColPos(F, cur.lno, count - 1) ELSE 0, op)

(***************************************************************************)
(* By lines                                                                *)
(***************************************************************************)
Down(F, cur, count, op) ==
  LET stop == [cur EXCEPT !.lno = @ + Times(count)]
  IN IF ~Exists(F, stop.lno) THEN Fail
     ELSE Vicmd(cur, stop, IF op # "" THEN cur ELSE stop, TRUE)
Up(F, cur, count, op) ==
  LET stop == [cur EXCEPT !.lno = @ - Times(count)]
  IN IF cur.lno <= Times(count) THEN Fail ELSE Vicmd(cur, stop, stop, TRUE)

Goto(F, cur, count, op) ==
  LET stop == [cur EXCEPT !.lno = IF count > 0 THEN count
                                  ELSE IF F = <<>> THEN 1 ELSE Len(F)]
      v == Vicmd(cur, stop, IF op = "" \/ Before(stop, cur) THEN stop ELSE cur, TRUE)
  IN IF F = <<>> /\ count = 1 THEN Vicmd(cur, cur, cur, TRUE)
     ELSE IF count > 0 /\ ~Exists(F, count) THEN Fail
     ELSE [v EXCEPT !.rcm = IF op # "" THEN "FNB" ELSE ""]

(* A count moves down by count - 1 lines.                                  *)
Cfirst(F, cur, count, op) ==
  LET stop == Pos(cur.lno, Nonblank(F, cur.lno, 0))
  IN IF Times(count) # 1
     THEN LET d == Down(F, cur, count - 1, op)
          IN IF d.ok THEN [d EXCEPT !.lmode = op # ""] ELSE Fail
     ELSE IF stop = Pos(1, 0) /\ op = "d" /\ F = <<>> THEN Fail
     ELSE Vicmd(cur, stop, IF op = "y" THEN cur ELSE stop, op # "")

Dollar(F, cur, count, op) ==
  LET many == Times(count) # 1
      nb == Nonblank(F, cur.lno, 0)
      d == Down(F, cur, count - 1, op)
      l == IF many THEN cur.lno + count - 1 ELSE cur.lno
      lm == many /\ op # "" /\ cur.cno <= nb
      stop == Pos(l, IF Exists(F, l) THEN EndCol(F, l) ELSE 0)
      none == Pos(l, IF many THEN nb ELSE cur.cno)
  IN IF many /\ ~d.ok THEN Fail
     ELSE IF ~Exists(F, l) \/ Len(F[l]) = 0
     THEN IF op \notin {"", "c"} THEN Fail
          ELSE Vicmd(cur, none, IF many /\ op = "" THEN none ELSE cur, lm)
     ELSE Vicmd(cur, stop, IF op # "" THEN cur ELSE stop, lm)

(***************************************************************************)
(* To a character, a match, a mark                                         *)
(***************************************************************************)
(* v_chf(), v_cht(): to the count-th c in the line; v_chF(), v_chT() back. *)
Nth(cols, cnt, fwd) == NthLine(cols, cnt, fwd)
Chf(F, cur, count, op, c) ==
  LET cols == {i \in cur.cno + 1 .. Len(F[cur.lno]) - 1 : F[cur.lno][i + 1] = c}
      stop == [cur EXCEPT !.cno = Nth(cols, Times(count), TRUE)]
  IN IF ~Exists(F, cur.lno) \/ Cardinality(cols) < Times(count) THEN Fail
     ELSE Vicmd(cur, stop, IF op # "" THEN cur ELSE stop, FALSE)
Cht(F, cur, count, op, c) ==
  LET v == Chf(F, cur, count, op, c)
      stop == Left(v.stop)
  IN IF ~v.ok THEN Fail
     ELSE [v EXCEPT !.stop = stop, !.final = IF op = "" THEN stop ELSE @]
ChF(F, cur, count, op, c) ==
  LET cols == {i \in 0..cur.cno - 1 : F[cur.lno][i + 1] = c}
      stop == [cur EXCEPT !.cno = Nth(cols, Times(count), FALSE)]
  IN IF ~Exists(F, cur.lno) \/ Cardinality(cols) < Times(count) THEN Fail
     ELSE Vicmd(IF op # "" THEN Left(cur) ELSE cur, stop, stop, FALSE)
ChT(F, cur, count, op, c) ==
  LET v == ChF(F, cur, count, op, c)
      stop == [v.stop EXCEPT !.cno = @ + 1]
  IN IF ~v.ok THEN Fail ELSE [v EXCEPT !.stop = stop, !.final = stop]

Bracket == [ b \in {"(", ")", "{", "}"} |->
               CASE b = "(" -> ")" [] b = ")" -> "(" [] b = "{" -> "}" [] b = "}" -> "{" ]
RECURSIVE MatchFrom(_, _, _, _, _)
MatchFrom(F, cs, startc, fwd, depth) ==
  LET n == CsStep(F, cs, fwd)
      d == IF n.flag # "" THEN depth
           ELSE IF Ch(F, n) = startc THEN depth + 1
           ELSE IF Ch(F, n) = Bracket[startc] THEN depth - 1 ELSE depth
  IN IF Done(n) \/ d = 0 THEN n ELSE MatchFrom(F, n, startc, fwd, d)
MatchTo(F, cur, op, stop) ==
  LET lo == IF cur.lno < stop.lno THEN cur ELSE stop
      hi == IF cur.lno < stop.lno THEN stop ELSE cur
      lm == /\ op # "" /\ cur.lno # stop.lno
            /\ lo.cno # 0 => lo.cno <= Nonblank(F, lo.lno, 0)
            /\ \A i \in hi.cno + 2 .. Len(F[hi.lno]) : F[hi.lno][i] \in Blank
  IN Vicmd(cur, stop, IF op # "" /\ Before(cur, stop) THEN cur ELSE stop, lm)
MatchOf(F, cs) == MatchFrom(F, cs, Ch(F, cs), Ch(F, cs) \in {"(", "{"}, 1)
Match(F, cur, count, op) ==
  LET l == cur.lno
      offs == {i \in cur.cno .. Len(F[l]) - 1 : F[l][i + 1] \in DOMAIN Bracket}
      cs == MatchOf(F, At(F, l, Nth(offs, 1, TRUE)))
  IN IF ~Exists(F, l) \/ offs = {} THEN Fail
     ELSE IF cs.flag # "" THEN Fail
     ELSE MatchTo(F, cur, op, Place(cs))

(* mark(): to a mark that mark_get() found; byline is the ' command.       *)
Mark(F, cur, op, m, byline) ==
  LET gone == ~(m.cno < Len(F[m.lno]) \/ (m.cno = 0 /\ Len(F[m.lno]) = 0))
      fq == byline \/ gone
      to == IF fq THEN Pos(m.lno, Nonblank(F, m.lno, 0)) ELSE m
      lo == IF Before(to, cur) THEN to ELSE cur
      hi == IF Before(to, cur) THEN cur ELSE to
      col0 == lo.lno < hi.lno /\ hi.cno = 0
      back == Pos(hi.lno - 1, EndCol(F, hi.lno - 1))
  IN IF op = "" THEN Vicmd(cur, to, to, byline)
     ELSE IF fq THEN Vicmd(lo, hi, lo, TRUE)
     ELSE IF to = cur THEN Fail
     ELSE IF col0 THEN Vicmd(lo, back, lo, lo.cno <= Nonblank(F, lo.lno, 0))
     ELSE Vicmd(lo, Left(hi), lo, FALSE)

(***************************************************************************)
(* The keys                                                                *)
(***************************************************************************)
Keys == {"w", "W", "e", "E", "b", "B", "(", ")", "{", "}", "[[", "]]", "h", "l",
         "0", "^", "|", "j", "k", "G", "_", "$", "f", "F", "t", "T", "%"}
CutReq == {"(", ")", "{", "}", "%"}     \* always cut to a numbered buffer

(* c: the character of f, F, t and T.                                      *)
Motion(F, cur, key, count, op, c) ==
  CASE key = "w" -> Fword(F, cur, count, op, FALSE)
    [] key = "W" -> Fword(F, cur, count, op, TRUE)
    [] key = "e" -> Eword(F, cur, count, op, FALSE)
    [] key = "E" -> Eword(F, cur, count, op, TRUE)
    [] key = "b" -> Bword(F, cur, count, op, FALSE)
    [] key = "B" -> Bword(F, cur, count, op, TRUE)
    [] key = ")" -> Sentencef(F, cur, count, op)
    [] key = "(" -> Sentenceb(F, cur, count, op)
    [] key = "}" -> Paragraphf(F, cur, count, op)
    [] key = "{" -> Paragraphb(F, cur, count, op)
    [] key = "]]" -> Sectionf(F, cur, count, op)
    [] key = "[[" -> Sectionb(F, cur, count, op)
    [] key = "h" -> Leftc(F, cur, count, op)
    [] key = "l" -> Rightc(F, cur, count, op)
    [] key = "0" -> Zero(F, cur, count, op)
    [] key = "^" -> First(F, cur, count, op)
    [] key = "|" -> Ncol(F, cur, count, op)
    [] key = "j" -> Down(F, cur, count, op)
    [] key = "k" -> Up(F, cur, count, op)
    [] key = "G" -> Goto(F, cur, count, op)
    [] key = "_" -> Cfirst(F, cur, count, op)
    [] key = "$" -> Dollar(F, cur, count, op)
    [] key = "f" -> Chf(F, cur, count, op, c)
    [] key = "F" -> ChF(F, cur, count, op, c)
    [] key = "t" -> Cht(F, cur, count, op, c)
    [] key = "T" -> ChT(F, cur, count, op, c)
    [] key = "%" -> Match(F, cur, count, op)

=============================================================================
