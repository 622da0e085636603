------------------------------- MODULE Search -------------------------------
(***************************************************************************)
(* Searching a file for a pattern (common/search.c), and a matcher for the *)
(* few patterns that the ex modules give it.  Regex has the real one.      *)
(* A text is a sequence of characters; a position is [lno, cno].           *)
(***************************************************************************)
EXTENDS Integers, FiniteSets, SequencesExt

Pos(l, c) == [lno |-> l, cno |-> c]
Rest(s, n) == SubSeq(s, n + 1, Len(s))

\* How many characters of s come before the first that is not in C.
Run(s, C) == LET k == SelectInSeq(s, LAMBDA c : c \notin C) IN IF k = 0 THEN Len(s) ELSE k - 1
Skip(s, C) == Rest(s, Run(s, C))
At(s, C) == s # <<>> /\ s[1] \in C

-----------------------------------------------------------------------------
(* Matching.  A pattern is made of characters, ".", "*" after one of them, *)
(* "\" before one, ^ at its start and $ at its end.                        *)

Bol(re) == IF At(re, {"^"}) THEN 1 ELSE 0
Eol(re) == IF re # <<>> /\ Last(re) = "$" THEN 1 ELSE 0
Body(re) == SubSeq(re, 1 + Bol(re), Len(re) - Eol(re))
Fits(c, d) == c = "." \/ c = d

\* Where body may stop in text when it starts at one of the places of S.
RECURSIVE Stops(_, _, _)
Stops(body, text, S) ==
  IF body = <<>> THEN S
  ELSE LET n    == IF body[1] = "\\" THEN 2 ELSE 1
           Step(i, j) == \A k \in i + 1..j : IF n = 2 THEN body[2] = text[k]
                                                      ELSE Fits(body[1], text[k])
           star == At(Rest(body, n), {"*"})
       IN  Stops(Rest(body, IF star THEN n + 1 ELSE n), text,
                 {j \in 0..Len(text) : \E i \in S : /\ i <= j /\ (star \/ j = i + 1)
                                                    /\ Step(i, j)})

(* regexec() with REG_STARTEND: {} or the leftmost and then longest match *)
(* that starts at from or later.                                          *)
Spans(re, text, from, notbol, noteol) ==
  {[so |-> so, eo |-> eo] : <<so, eo>> \in
     {<<so, eo>> \in (from..Len(text)) \X (from..Len(text)) :
        /\ eo \in Stops(Body(re), text, {so})
        /\ Bol(re) = 1 => so = from /\ ~notbol
        /\ Eol(re) = 1 => eo = Len(text) /\ ~noteol}}

Exec(re, text, from, notbol, noteol) ==
  LET all == Spans(re, text, from, notbol, noteol)
  IN  {m \in all : \A n \in all : m.so < n.so \/ (m.so = n.so /\ m.eo >= n.eo)}

-----------------------------------------------------------------------------
(* The string between delimiters, and what follows: an escape is tossed if *)
(* it escapes the delimiter.                                               *)
RECURSIVE Delimited(_, _)
Delimited(s, d) ==
  IF s = <<>> \/ At(s, {d})
    THEN [str |-> <<>>, rest |-> Rest(s, 1)]
    ELSE LET esc == s[1] = "\\" /\ Len(s) > 1 /\ s[2] \in {d, "\\"}
             put == IF ~esc THEN <<s[1]>> ELSE IF s[2] = d THEN <<d>> ELSE <<"\\", "\\">>
         IN  \* what the string starts with, put before what the rest gives
             [Delimited(Rest(s, IF esc THEN 2 ELSE 1), d) EXCEPT !.str = put \o @]

(* re_conv() with the magic option: ~ stands for the last replacement.     *)
RECURSIVE Conv(_, _)
Conv(s, repl) ==
  IF s = <<>> THEN <<>>
  ELSE IF s[1] = "~" THEN repl \o Conv(Tail(s), repl)
  ELSE IF s[1] = "\\" /\ Len(s) > 1
         THEN (IF s[2] = "~" THEN <<"~">> ELSE SubSeq(s, 1, 2)) \o Conv(Rest(s, 2), repl)
         ELSE <<s[1]>> \o Conv(Tail(s), repl)

(* search_init(): the pattern to search for, and what follows it.  x has   *)
(* the file, the cursor, sp->re (<<>> is NULL) and sp->repl.               *)
SearchInit(x, s) ==
  LET given == Len(s) > 1 /\ s[2] # s[1]
      d     == Delimited(Tail(s), s[1])
  IN  [re   |-> IF given THEN Conv(d.str, x.repl) ELSE x.re,
       rest |-> IF given THEN d.rest ELSE Rest(s, 2)]
SearchFails(x, S) == x.file = <<>> \/ S.re = <<>>

-----------------------------------------------------------------------------
(* Where f_search() and b_search() look: lines and first columns, in the   *)
(* order of the search, the wrapscan option set.                           *)
FromTo(a, b) == [i \in 1..(b - a + 1) |-> Pos(a + i - 1, 0)]

Forward(x) ==
  LET here == IF x.cur.cno + 1 >= Len(x.file[x.cur.lno]) THEN <<>>
                                                          ELSE <<Pos(x.cur.lno, x.cur.cno + 1)>>
  IN  here \o FromTo(x.cur.lno + 1, Len(x.file)) \o FromTo(1, x.cur.lno)
Backward(x) ==
  LET here == IF x.cur.cno = 0 THEN <<>> ELSE <<x.cur>>
  IN  here \o Reverse(FromTo(1, x.cur.lno - 1)) \o Reverse(FromTo(x.cur.lno, Len(x.file)))

OnLine(text, c) == IF c < Len(text) \/ c = 0 THEN c ELSE Len(text) - 1

\* The first of a sequence of sets that is not empty.
FirstOf(hits) ==
  LET k == SelectInSeq(hits, LAMBDA h : h # {}) IN IF k = 0 THEN {} ELSE hits[k]
Places(ps, Hit(_)) == FirstOf([i \in DOMAIN ps |-> Hit(ps[i])])

f_search(x, re) ==
  Places(Forward(x), LAMBDA p : {Pos(p.lno, OnLine(x.file[p.lno], m.so)) :
                                   m \in Exec(re, x.file[p.lno], p.cno, p.cno # 0, FALSE)})

(* b_search() steps through a line to the last match before column coff.   *)
RECURSIVE LastBefore(_, _, _, _)
LastBefore(re, text, coff, at) ==
  LET next == {m \in Exec(re, text, at + 1, TRUE, FALSE) : coff # 0 => m.so < coff}
  IN  IF at + 1 >= Len(text) \/ next = {} THEN at
      ELSE LastBefore(re, text, coff, (CHOOSE m \in next : TRUE).so)

b_search(x, re) ==
  Places(Backward(x), LAMBDA p :
           {Pos(p.lno, OnLine(x.file[p.lno], LastBefore(re, x.file[p.lno], p.cno, m.so))) :
              m \in {n \in Exec(re, x.file[p.lno], 0, FALSE, FALSE) : p.cno # 0 => n.so < p.cno}})

(* What a search address gives: {} when nothing is found, or the search    *)
(* starts on a line that does not exist.                                   *)
Search(x, re, dir) ==
  LET first == IF dir = "?" /\ x.cur.cno = 0 /\ x.cur.lno > 1 THEN x.cur.lno - 1 ELSE x.cur.lno
  IN  IF first \notin 1..Len(x.file) THEN {}
      ELSE IF dir = "/" THEN f_search(x, re) ELSE b_search(x, re)
=============================================================================
