------------------------------ MODULE ExSubst ------------------------------
(***************************************************************************)
(* The substitute commands (ex/ex_subst.c) with the magic option set and   *)
(* edcompatible not.  x is the screen as in ExLines, with x.re, x.repl and *)
(* x.subre: the last pattern, replacement and substitute pattern (<<>> is  *)
(* none).  "^M" is a carriage return.                                      *)
(***************************************************************************)
EXTENDS ExLines

(* The replacement, up to the delimiter d: ~ is the last one.              *)
RECURSIVE Replacement(_, _, _)
Replacement(s, d, repl) ==
  IF s = <<>> \/ At(s, {d}) THEN [str |-> <<>>, rest |-> Rest(s, 1)]
  ELSE LET two == s[1] = "\\" /\ Len(s) > 1
           put == CASE s[1] = "~"                       -> repl
                    [] two /\ s[2] \in {d, "~"}         -> <<s[2]>>
                    [] two /\ s[2] \notin {d, "~"}      -> SubSeq(s, 1, 2)
                    [] OTHER                            -> <<s[1]>>
       IN  [Replacement(Rest(s, IF two THEN 2 ELSE 1), d, repl) EXCEPT !.str = put \o @]

(* re_sub(): what a match m of text is replaced with.  b: what is built so *)
(* far and the case conversion.  BREAK is where the line will be broken.   *)
Lower == <<"a", "b", "c">>
Upper == <<"A", "B", "C">>
Change(c, from, to) == IF c \in ToSet(from) THEN to[CHOOSE i \in DOMAIN from : from[i] = c] ELSE c

OutCh(b, c, nl) ==
  IF nl /\ c = "^M" THEN [b EXCEPT !.lb = Append(@, "BREAK")]
  ELSE [lb   |-> Append(b.lb, CASE b.conv \in {"l", "L"} -> Change(c, Upper, Lower)
                                [] b.conv \in {"u", "U"} -> Change(c, Lower, Upper)
                                [] b.conv = "none"       -> c),
        conv |-> IF b.conv \in {"l", "u"} THEN "none" ELSE b.conv]

(* The patterns have no groups: \1 to \9 stand for nothing that matched,   *)
(* and the digit is put instead.                                           *)
RECURSIVE ReSub(_, _, _)
ReSub(b, repl, match) ==
  LET two == Len(repl) > 1 /\ repl[1] = "\\"
      c   == IF two THEN repl[2] ELSE repl[1]
      whole == IF two THEN c = "0" ELSE c = "&"
      next == CASE whole                        -> FoldLeft(LAMBDA q, d : OutCh(q, d, FALSE), b, match)
                [] two /\ c \in {"e", "E"}      -> [b EXCEPT !.conv = "none"]
                [] two /\ c \in {"l", "L", "u", "U"} -> [b EXCEPT !.conv = c]
                [] OTHER                        -> OutCh(b, c, TRUE)
  IN  IF repl = <<>> THEN b.lb
      ELSE ReSub(next, Rest(repl, IF two THEN 2 ELSE 1), match)
re_sub(lb, text, repl, m) ==
  ReSub([lb |-> lb, conv |-> "none"], repl, SubSeq(text, m.so + 1, m.eo))

-----------------------------------------------------------------------------
(* The options of s, in any order.  o: c and g, the suffixes; print; r;    *)
(* n, whether a count was given; ok; and the EXCMD e.                      *)
Options0(e) == [c |-> FALSE, g |-> FALSE, print |-> FALSE, r |-> FALSE, n |-> FALSE,
                ok |-> TRUE, e |-> e]

(* A count of zero takes one from the second address; the address of the   *)
(* last line replaces one that does not exist.                             *)
OptionCount(x, o, n) ==
  LET to == o.e.a2.lno + n - 1
  IN  [o EXCEPT !.n = n # 0, !.ok = ~o.n, !.e.a1.lno = o.e.a2.lno,
                !.e.a2.lno = IF Exist(x, to) THEN to ELSE Len(x.file)]

Option(o, ch, sub_first, re) ==
  CASE ch = " " -> o
    [] ch = "+" -> [o EXCEPT !.e.flagoff = @ + 1]
    [] ch = "-" -> [o EXCEPT !.e.flagoff = @ - 1]
    [] ch = "c" -> [o EXCEPT !.c = ~@]
    [] ch = "g" -> [o EXCEPT !.g = ~@]
    [] ch \in {"#", "l", "p"} -> [o EXCEPT !.print = TRUE]
    [] ch = "r" -> [o EXCEPT !.r = TRUE, !.ok = ~sub_first /\ re # <<>>]
    [] OTHER    -> [o EXCEPT !.ok = FALSE]

(* What follows a count is skipped by the increment of the loop.           *)
RECURSIVE Options(_, _, _, _)
Options(x, o, s, sub_first) ==
  IF s = <<>> \/ ~o.ok THEN o
  ELSE IF At(s, Digits)
    THEN Options(x, OptionCount(x, o, Number(s)), Rest(Skip(s, Digits), 1), sub_first)
    ELSE Options(x, Option(o, s[1], sub_first, x.re), Tail(s), sub_first)

-----------------------------------------------------------------------------
(* One line of s().  k: x, the screen; text and at, the line and the       *)
(* offset the search starts at; lb, what is built; nempty; eol,            *)
(* do_eol_match; first, no REG_NOTBOL yet; changed; lno and elno; matched; *)
(* answers, those not yet given; quit.                                     *)

\* What is built, line by line.
Pieces(lb) ==
  LET breaks == {i \in DOMAIN lb : lb[i] = "BREAK"}
      From(i) == SubSeq(lb, i + 1, IF \E j \in breaks : j > i
                                     THEN (CHOOSE j \in breaks : j > i /\ \A b \in breaks : b > i => j <= b) - 1
                                     ELSE Len(lb))
  IN  [i \in 1..(Cardinality(breaks) + 1) |->
         From(IF i = 1 THEN 0
              ELSE CHOOSE j \in breaks : Cardinality({b \in breaks : b <= j}) = i - 1)]

(* Store the lines that were broken off and the last one.                  *)
\* Mutant of Store: elno stays, so that as many lines at the end are not seen.
StoreKeepsElno(k, p) ==
  LET n == Len(p) - 1
      y == FoldLeft(LAMBDA z, i : InsertLine(z, k.lno + i - 1, p[i]), k.x, [i \in 1..n |-> i])
  IN  [k EXCEPT !.x = SetLine(y, k.lno + n, Last(p)), !.lno = @ + n]
Store(k, p) ==
  LET n == Len(p) - 1
      y == FoldLeft(LAMBDA z, i : InsertLine(z, k.lno + i - 1, p[i]), k.x, [i \in 1..n |-> i])
  IN  [k EXCEPT !.x = SetLine(y, k.lno + n, Last(p)), !.lno = @ + n, !.elno = @ + n]

EndMatch(k) ==
  IF k.changed THEN Store(k, Pieces(k.lb \o Rest(k.text, k.at))) ELSE k

(* After a confirmed change of a global: store it and start again after it.*)
Restart(k) ==
  LET p  == Pieces(k.lb \o Rest(k.text, k.at))
      at == Len(Last(Pieces(k.lb)))
  IN  [Store(k, p) EXCEPT !.text = Last(p), !.at = at, !.lb = SubSeq(Last(p), 1, at),
                          !.eol = k.eol /\ at # Len(Last(p)) - at]

\* Past the match m, what was built being lb.
Past(k, m, lb) == [k EXCEPT !.at = m.eo, !.nempty = m.eo, !.lb = lb, !.first = FALSE,
                            !.matched = TRUE]
Upto(k, n) == k.lb \o SubSeq(k.text, k.at + 1, n)

\* The cursor of vi, which may not be past the end of the line.
Asked(k, m) ==
  IF k.x.vi THEN [k EXCEPT !.x.cur = Pos(k.lno, IF m.so >= Len(k.text) /\ k.text # <<>>
                                                  THEN Len(k.text) - 1 ELSE m.so)]
  ELSE k

Change1(k, m) ==
  [Past(k, m, re_sub(Upto(k, m.so), k.text, k.x.repl, m)) EXCEPT
     !.changed = TRUE, !.x.cur = Pos(k.lno, m.so)]
\* An empty match right after another one: a character is skipped.
SkipOne(k) == [k EXCEPT !.nempty = -1, !.first = FALSE, !.lb = Upto(k, k.at + 1), !.at = @ + 1]

RECURSIVE NextMatch(_, _, _)
\* A global goes on once more after the end of the line was seen: NOTEOL is set then.
Continue(eol, k, o, re) ==
  IF o.g /\ eol THEN NextMatch(k, o, re) ELSE EndMatch(k)
AtEnd(k) == [k EXCEPT !.eol = k.eol /\ Len(k.text) # k.at]
Answer(k, o) == IF ~o.c THEN "y" ELSE IF k.answers = <<>> THEN "q" ELSE k.answers[1]

\* The match m is to be replaced: a is what the user was shown, ask the answer.
Answered(a, o, re, m, ask) ==
  CASE ask = "n" -> Continue(a.eol, AtEnd(Past(a, m, Upto(a, m.eo))), o, re)
    [] ask = "q" -> [EndMatch([a EXCEPT !.matched = TRUE]) EXCEPT !.quit = TRUE]
    [] ask = "y" /\ o.c /\ o.g    -> Continue(a.eol, Restart(Change1(a, m)), o, re)
    [] ask = "y" /\ ~(o.c /\ o.g) -> Continue(a.eol, AtEnd(Change1(a, m)), o, re)

Shown(k, o, m) ==
  IF o.c THEN [Asked(k, m) EXCEPT !.answers = IF @ = <<>> THEN @ ELSE Tail(@)] ELSE k
Matched(k, o, re, ms) ==
  IF ms = {} THEN EndMatch(k)
  ELSE LET m == CHOOSE n \in ms : TRUE
       IN  IF m.so = k.nempty /\ m.eo = k.nempty
             THEN IF k.at = Len(k.text) THEN EndMatch(k) ELSE NextMatch(SkipOne(k), o, re)
             ELSE Answered(Shown(k, o, m), o, re, m, Answer(k, o))
NextMatch(k, o, re) == Matched(k, o, re, Exec(re, k.text, k.at, ~k.first, ~k.eol))

RECURSIVE EachLine(_, _, _)
EachLine(k, o, re) ==
  IF k.quit \/ k.lno > k.elno THEN k
  ELSE LET j == NextMatch([k EXCEPT !.text = k.x.file[k.lno], !.at = 0, !.lb = <<>>, !.nempty = -1,
                                    !.eol = TRUE, !.first = TRUE, !.changed = FALSE], o, re)
       IN  EachLine([j EXCEPT !.lno = @ + 1], o, re)

(* s(): it is an error when nothing matched; a quit sets the interrupted   *)
(* flag, which ex_cmd() takes for an error.                                *)
Substitute(x, o, re, answers) ==
  LET k == EachLine([x |-> x, text |-> <<>>, at |-> 0, lb |-> <<>>, nempty |-> -1, eol |-> TRUE,
                     first |-> TRUE, changed |-> FALSE, lno |-> o.e.a1.lno, elno |-> o.e.a2.lno,
                     matched |-> FALSE, answers |-> answers, quit |-> FALSE], o, re)
      moved == ~o.c /\ k.x.cur # x.cur
      y == IF moved THEN [k.x EXCEPT !.cur.cno = Nonblank(k.x, k.x.cur.lno)] ELSE k.x
  IN  IF ~o.ok \/ (x.vi /\ o.c /\ o.print) THEN [x |-> Fail(x), e |-> o.e]
      ELSE [x |-> IF k.matched /\ ~k.quit THEN y ELSE Fail(y), e |-> o.e]

-----------------------------------------------------------------------------
(* ex_s(), ex_subagain() and ex_subtilde(): the screen and the EXCMD.      *)
(* The option r takes the last pattern instead of re.                      *)
Again(x, e, s, re, answers) ==
  LET o == Options(x, Options0(e), s, FALSE)
  IN  IF re = <<>> THEN [x |-> Fail(x), e |-> e]
      ELSE Substitute(x, o, IF o.r THEN x.re ELSE re, answers)

MustSetR(x, e, s, answers) ==
  LET o == Options(x, Options0(e), s, FALSE)
  IN  Substitute(x, IF o.r THEN o ELSE [o EXCEPT !.ok = FALSE], x.re, answers)

(* A pattern, a replacement and options.  "%" alone is the last one.       *)
NewRepl(x, r, d) ==
  CASE r = <<>> \/ At(r, {d})                    -> [str |-> <<>>, rest |-> Rest(r, 1)]
    [] At(r, {"%"}) /\ (Len(r) = 1 \/ r[2] = d) -> [str |-> x.repl, rest |-> Rest(r, 2)]
    [] OTHER                                    -> Replacement(r, d, x.repl)
SubstRest(x, e, found, rest, answers) ==
  Substitute(x, Options(x, Options0(e), rest, found), x.re, answers)
SubstRepl(x, e, found, repl, answers) ==
  SubstRest([x EXCEPT !.repl = repl.str], e, found, repl.rest, answers)
SubstPat(x, e, d, found, pat, answers) ==
  IF x.re = <<>> THEN [x |-> Fail(x), e |-> e]
  ELSE SubstRepl(x, e, found, NewRepl(x, pat.rest, d), answers)
NewPat(x, re) == IF re = <<>> THEN x ELSE [x EXCEPT !.re = re, !.subre = re]
Full(x, e, d, pat, answers) ==
  SubstPat(NewPat(x, Conv(pat.str, x.repl)), e, d, pat.str # <<>>, pat, answers)

ex_s(x, e, answers) ==
  LET s == Skip(e.argv, Blank)
  IN  CASE e.fn = "~" -> Again(x, e, e.argv, x.re, answers)
        [] e.fn = "&" \/ (e.fn = "s" /\ s = <<>>) -> Again(x, e, e.argv, x.subre, answers)
        [] e.fn = "s" /\ s # <<>> /\ s[1] \in Alnum \cup {"\\"} -> MustSetR(x, e, Tail(s), answers)
        [] OTHER                  -> Full(x, e, s[1], Delimited(Tail(s), s[1]), answers)
=============================================================================
