------------------------------ MODULE ExParse ------------------------------
(***************************************************************************)
(* The parser of ex command lines: ex_cmd() up to the call of the command, *)
(* ex_range() and ex_line() (ex/ex.c), and the table of the commands that  *)
(* work on the lines of a file (ex/ex_cmd.c).                              *)
(*                                                                         *)
(* A command line is a sequence of characters.  A command name is one of   *)
(* them, so that abbreviations are left out; "nl" is the newline, "dq" the *)
(* double quote that starts a comment and "^V" the literal-next character. *)
(* x is what the parser reads of the screen: the file, cur, marks, re and  *)
(* repl as in Search, and vi, whether the line was typed in vi mode.       *)
(***************************************************************************)
EXTENDS Search, TLC

Blank == {" "}
Digits == {"0", "1", "2", "3", "4", "5", "6", "7", "8", "9"}
Letters == {"a", "b", "c", "d", "g", "i", "j", "k", "l", "p", "r", "s", "x", "y", "z",
            "co", "ma", "mo", "nu", "pu"}
Single == {"#", "&", "<", "=", ">", "~", "^D"}          \* SINGLE_CHAR_COMMANDS
Flags == {"+", "-", "^", "#", "l", "p"}
Ends == {"|", "nl"}

DigitVal(c) == CHOOSE n \in 0..9 : ToString(n) = c
Number(s) == FoldLeft(LAMBDA n, c : 10 * n + DigitVal(c), 0, SubSeq(s, 1, Run(s, Digits)))

-----------------------------------------------------------------------------
(* The table.  addr: how many addresses a command takes; zero: E_ADDR_ZERO *)
(* and E_ADDR_ZERODEF; syn: its syntax script.                             *)
Entry(addr, syn) == [addr |-> addr, zero |-> FALSE, zerodef |-> FALSE, syn |-> syn]
Zero(e) == [e EXCEPT !.zero = TRUE, !.zerodef = TRUE]

Lines1 == ("=" :> Zero(Entry(1, <<"1">>))) @@ ("a" :> Zero(Entry(1, <<"!">>)))
          @@ ("i" :> Zero(Entry(1, <<"!">>))) @@ ("pu" :> Zero(Entry(1, <<"b">>)))
          @@ ("k" :> Entry(1, <<"w1r">>)) @@ ("ma" :> Entry(1, <<"w1r">>))
          @@ ("z" :> Entry(1, <<"3", "c0", "1">>))
Lines2 == ("c" :> [Entry(2, <<"!", "ca">>) EXCEPT !.zerodef = TRUE])
          @@ ("co" :> Entry(2, <<"l", "1">>)) @@ ("d" :> Entry(2, <<"b", "ca", "1">>))
          @@ ("j" :> Entry(2, <<"!", "ca", "1">>)) @@ ("mo" :> Entry(2, <<"l">>))
          @@ ("y" :> Entry(2, <<"b", "ca">>))
Shows2 == ("p" :> Entry(2, <<"ca", "1">>)) @@ ("l" :> Entry(2, <<"ca", "1">>))
          @@ ("nu" :> Entry(2, <<"ca", "1">>)) @@ ("#" :> Entry(2, <<"ca", "1">>))
          @@ ("^D" :> Entry(2, <<>>))
Subst2 == ("s" :> Entry(2, <<"s">>)) @@ ("&" :> Entry(2, <<"s">>)) @@ ("~" :> Entry(2, <<"s">>))
Shift2 == (">" :> Entry(2, <<"ca", "1">>)) @@ ("<" :> Entry(2, <<"ca", "1">>))
cmds == Lines1 @@ Lines2 @@ Shows2 @@ Subst2 @@ Shift2

-----------------------------------------------------------------------------
(* ex_line().  Of what it returns: is, an address was there; ok, it is     *)
(* legal; at, the position; abs, E_ABSMARK; re, sp->re; rest, what follows.*)

NoLine(x, s) == [is |-> FALSE, ok |-> TRUE, at |-> x.cur, abs |-> FALSE, re |-> x.re, rest |-> s]
Line(x, at, abs, rest) == [NoLine(x, rest) EXCEPT !.is = TRUE, !.at = at, !.abs = abs]
BadLine(x) == [NoLine(x, <<>>) EXCEPT !.ok = FALSE]

(* mark_get().                                                             *)
MarkAt(x, m) == IF m \in DOMAIN x.marks THEN x.marks[m] ELSE [lno |-> 0, cno |-> 0, del |-> FALSE]
MarkThere(x, m) == /\ MarkAt(x, m).lno # 0 /\ ~MarkAt(x, m).del
                   /\ \/ MarkAt(x, m).lno <= Len(x.file)
                      \/ MarkAt(x, m).lno = 1 /\ MarkAt(x, m).cno = 0
AddrMark(x, s) ==
  IF Len(s) = 1 \/ ~MarkThere(x, s[2]) THEN BadLine(x)
  ELSE Line(x, Pos(MarkAt(x, s[2]).lno, MarkAt(x, s[2]).cno), TRUE, Rest(s, 2))

Sought(x, S, hit) ==
  IF hit = {} THEN [BadLine(x) EXCEPT !.re = S.re]
  ELSE [Line(x, CHOOSE p \in hit : TRUE, TRUE, S.rest) EXCEPT !.re = S.re]
Seeking(x, dir, S) ==
  IF SearchFails(x, S) THEN BadLine(x) ELSE Sought(x, S, Search(x, S.re, dir[1]))
AddrSearch(x, s) ==
  LET dir == IF s[1] = "\\" THEN Tail(s) ELSE s
  IN  IF At(dir, {"/", "?"}) THEN Seeking(x, dir, SearchInit(x, dir)) ELSE BadLine(x)

(* "." is line 0 of an empty file; ".3" is ".+3".                          *)
AddrDot(x, s) ==
  Line(x, IF x.cur.lno = 1 /\ x.file = <<>> THEN Pos(0, x.cur.cno) ELSE x.cur, FALSE,
       IF At(Tail(s), Digits) THEN <<"+">> \o Tail(s) ELSE Tail(s))

Base(x, s) ==
  CASE At(s, {"$"})           -> Line(x, Pos(Len(x.file), 0), TRUE, Tail(s))
    [] At(s, Digits)          -> Line(x, Pos(Number(s), 0), TRUE, Skip(s, Digits))
    [] At(s, {"'"})           -> AddrMark(x, s)
    [] At(s, {"\\", "/", "?"}) -> AddrSearch(x, s)
    [] At(s, {"."})           -> AddrDot(x, s)
    [] OTHER                  -> NoLine(x, s)

(* Any number of signs and numbers, which add up.                          *)
Signs == {"+", "-", "^"}
RECURSIVE Offset(_, _)
Offset(total, t) ==
  LET s    == Skip(t, Blank)
      lone == At(s, Signs) /\ ~At(Tail(s), Digits)
      num  == IF At(s, Signs) THEN Tail(s) ELSE s
  IN  IF ~At(s, Digits \cup Signs) THEN [total |-> total, rest |-> s]
      ELSE IF lone THEN Offset(total + (IF s[1] = "+" THEN 1 ELSE -1), Tail(s))
      ELSE Offset(total + (IF At(s, {"-", "^"}) THEN -Number(num) ELSE Number(num)),
                  Skip(num, Digits))

(* b is what Base() gives, o the offset that follows.                      *)
AddOffset(x, b, o) ==
  IF ~b.ok \/ -o.total > b.at.lno THEN [b EXCEPT !.ok = FALSE]
  ELSE [b EXCEPT !.at.lno = @ + o.total, !.rest = o.rest]

WithOffset(x, b) ==
  AddOffset(x, IF b.ok /\ At(Skip(b.rest, Blank), Digits \cup Signs) THEN [b EXCEPT !.is = TRUE]
               ELSE b, Offset(0, b.rest))
ExLine(x, s) == WithOffset(x, Base(x, s))

-----------------------------------------------------------------------------
(* ex_range().  r: the addresses so far, the last one a2 if n is 2; st:    *)
(* whether one was FOUND, is NEEDed after a separator, or NONE; cur moves  *)
(* at a semicolon.                                                         *)

\* Mutant of Push: with two addresses already there, the first one stays.
PushKeepsFirst(r, at) ==
  CASE r.n = 0 -> [r EXCEPT !.n = 1, !.a1 = at]
    [] r.n = 1 -> [r EXCEPT !.n = 2, !.a2 = at]
    [] r.n = 2 -> [r EXCEPT !.a2 = at]
Push(r, at) ==
  CASE r.n = 0 -> [r EXCEPT !.n = 1, !.a1 = at]
    [] r.n = 1 -> [r EXCEPT !.n = 2, !.a2 = at]
    [] r.n = 2 -> [r EXCEPT !.a1 = r.a2, !.a2 = at]

\* A missing address is the current line.
Missing(r) == IF r.st # "FOUND" THEN Push(r, r.x.cur) ELSE r
Latest(r) == IF r.n = 2 THEN r.a2 ELSE r.a1

Separator(r, c) ==
  LET m == Missing(r)
  IN  [m EXCEPT !.st = "NEED", !.x.cur = IF c = ";" THEN Latest(m) ELSE @]

Percent(r) ==
  IF r.st = "FOUND" THEN [r EXCEPT !.ok = FALSE]
  ELSE [r EXCEPT !.a1 = Pos(IF r.x.file = <<>> THEN 0 ELSE 1, 0), !.a2 = Pos(Len(r.x.file), 0),
                 !.n = 2, !.st = "FOUND"]

TakeLine(r, l) ==
  IF ~l.ok \/ r.st = "FOUND" THEN [r EXCEPT !.ok = FALSE, !.x.re = l.re]
  ELSE [Push(r, l.at) EXCEPT !.st = "FOUND", !.x.re = l.re, !.abs = @ \/ l.abs]

(* The end of the addresses.                                               *)
EndRange(r) ==
  LET e == IF r.st = "NEED" THEN Push(r, r.x.cur) ELSE r
  IN  IF e.n = 2 /\ e.a2.lno < e.a1.lno THEN [e EXCEPT !.ok = FALSE] ELSE e

RECURSIVE RangeFrom(_, _)
AfterLine(r, l) ==
  IF l.ok /\ ~l.is THEN [EndRange(r) EXCEPT !.rest = l.rest]
  ELSE RangeFrom(TakeLine(r, l), l.rest)
RangeFrom(r, s) ==
  IF ~r.ok THEN r
  ELSE IF s = <<>> THEN [EndRange(r) EXCEPT !.rest = s]
  ELSE IF s[1] = "%" THEN RangeFrom(Percent(r), Tail(s))
  ELSE IF s[1] \in {",", ";"} THEN RangeFrom(Separator(r, s[1]), Tail(s))
  ELSE IF s[1] \in Blank THEN RangeFrom(r, Tail(s))
  ELSE AfterLine(r, ExLine(r.x, s))

ex_range(x, s) ==
  RangeFrom([x |-> x, n |-> 0, a1 |-> Pos(0, 0), a2 |-> Pos(0, 0), st |-> "NONE", ok |-> TRUE,
             abs |-> FALSE, rest |-> <<>>], s)
=============================================================================
