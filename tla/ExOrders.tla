------------------------------ MODULE ExOrders ------------------------------
(***************************************************************************)
(* Ex commands as a user means them: what they look like when typed, and   *)
(* what they ask for.  It is said without the parser, for its properties.  *)
(*                                                                         *)
(* An address has a base, with a number, a mark or a pattern, and an       *)
(* offset; a command has addresses, separators, a name and its arguments.  *)
(***************************************************************************)
EXTENDS Ex

Addr(base, arg, off) == [base |-> base, arg |-> arg, off |-> off]
Num(n) == Addr("num", n, 0)
Dot == Addr(".", 0, 0)
Eof == Addr("$", 0, 0)
MarkOf(m) == Addr("mark", m, 0)
Seek(re) == Addr("/", re, 0)
Back(re) == Addr("?", re, 0)
Plus(a, n) == [a EXCEPT !.off = n]
Step(n) == Addr("none", 0, n)
None == Addr("none", 0, 0)

(* sub: the pattern, replacement and options of s, <<>> for no arguments.  *)
Order(addrs, seps, name) ==
  [lead |-> <<>>, addrs |-> addrs, seps |-> seps, name |-> name, force |-> FALSE, buf |-> "none",
   count |-> 0, dest |-> None, sub |-> <<>>, args |-> <<>>]
Do(addrs, name) == Order(addrs, [i \in 1..(Len(addrs) - 1) |-> ","], name)

-----------------------------------------------------------------------------
(* Typing                                                                  *)
Chars(n) == <<ToString(n)>>             \* numbers of one digit are enough
OffChars(n) == IF n = 0 THEN <<>> ELSE IF n = 1 THEN <<"+">> ELSE IF n = -1 THEN <<"-">>
               ELSE IF n > 0 THEN <<"+">> \o Chars(n) ELSE <<"-">> \o Chars(-n)
AddrChars(a) ==
  (CASE a.base = "num"       -> Chars(a.arg)
     [] a.base \in {".", "$"} -> <<a.base>>
     [] a.base = "mark"      -> <<"'", a.arg>>
     [] a.base \in {"/", "?"} -> <<a.base>> \o a.arg \o <<a.base>>
     [] a.base = "none"      -> <<>>) \o OffChars(a.off)

SubChars(s) == IF s = <<>> THEN <<>>
               ELSE <<"/">> \o s.re \o <<"/">> \o s.repl \o <<"/">> \o s.opts
OrderChars(o) ==
  o.lead \o FlattenSeq([i \in DOMAIN o.addrs |->
                          (IF i = 1 THEN <<>> ELSE <<o.seps[i - 1]>>) \o AddrChars(o.addrs[i])])
  \o (IF o.name = "" THEN <<>> ELSE <<o.name>>)
  \o (IF o.force THEN <<"!">> ELSE <<>>)
  \o (IF o.buf = "none" THEN <<>> ELSE <<" ", o.buf>>)
  \o (IF o.count = 0 THEN <<>> ELSE <<" ">> \o Chars(o.count))
  \o (IF o.dest = None THEN <<>> ELSE <<" ">> \o AddrChars(o.dest))
  \o SubChars(o.sub) \o o.args
LineChars(os) == FlattenSeq([i \in DOMAIN os |->
                               (IF i = 1 THEN <<>> ELSE <<"|">>) \o OrderChars(os[i])])

-----------------------------------------------------------------------------
(* Meaning.  Hits(x, re): where a match of re starts; a search takes the   *)
(* next one after the cursor, or the last one before it, round the file.   *)
Before(p, q) == p.lno < q.lno \/ (p.lno = q.lno /\ p.cno < q.cno)
Hits(x, re) == {Pos(l, m.so) : <<l, m>> \in
                  UNION {{l} \X Spans(re, x.file[l], 0, FALSE, FALSE) : l \in DOMAIN x.file}}
Nearest(x, re, dir) ==
  LET H      == Hits(x, re)
      ahead  == {h \in H : IF dir = "/" THEN Before(x.cur, h) ELSE Before(h, x.cur)}
      among  == IF ahead # {} THEN ahead ELSE H
  IN  {h \in among : \A g \in among : g = h \/ (IF dir = "/" THEN Before(h, g) ELSE Before(g, h))}

\* The lines an address may stand for: one or none.
ValueOf(x, a) ==
  LET base == CASE a.base = "num"  -> {a.arg}
                [] a.base = "."    -> {IF x.file = <<>> /\ x.cur.lno = 1 THEN 0 ELSE x.cur.lno}
                [] a.base = "none" -> {x.cur.lno}
                [] a.base = "$"    -> {Len(x.file)}
                [] a.base = "mark" -> IF MarkThere(x, a.arg) THEN {x.marks[a.arg].lno} ELSE {}
                [] a.base \in {"/", "?"} ->
                     IF x.cur.lno \in DOMAIN x.file THEN {h.lno : h \in Nearest(x, a.arg, a.base)}
                     ELSE {}
  IN  {l + a.off : l \in {b \in base : b + a.off >= 0}}

(* The lines of the addresses.  A semicolon moves the cursor to the line   *)
(* before it; c is where a search starts, so its column matters.           *)
At1(x, a) == IF a.base \in {"/", "?"} /\ x.cur.lno \in DOMAIN x.file
               THEN {Pos(h.lno + a.off, OnLine(x.file[h.lno], h.cno)) : h \in Nearest(x, a.arg, a.base)}
             ELSE {Pos(l, IF a.base = "mark" THEN x.marks[a.arg].cno
                          ELSE IF a.base \in {".", "none"} THEN x.cur.cno ELSE 0) : l \in ValueOf(x, a)}
RECURSIVE LinesOf(_, _, _)
LinesOf(x, addrs, seps) ==
  IF addrs = <<>> THEN {<<>>}
  ELSE UNION {LET y == IF seps # <<>> /\ seps[1] = ";" THEN [x EXCEPT !.cur = p] ELSE x
              IN  {<<p.lno>> \o ls : ls \in LinesOf(y, Tail(addrs), IF seps = <<>> THEN seps ELSE Tail(seps))}
              : p \in {q \in At1(x, addrs[1]) : ValueOf(x, addrs[1]) # {}}}

One == {"=", "a", "i", "pu", "k", "ma", "z"}        \* these take one address
Zeros == {"=", "a", "i", "pu"}                      \* and these a line 0
WithCount == {"c", "d", "j", "y", "p", "l", "nu", "#", ">", "<"}

(* What an order asks for: {} if it is not a legal one, or the one meaning.*)
Meaning(x, o) ==
  LET last == Len(x.file)
      name == IF o.name = "" THEN "p" ELSE o.name
      dflt == IF o.name = "" THEN x.cur.lno + 1
              ELSE IF last = 0 /\ name \in Zeros \cup {"c"} THEN 0 ELSE x.cur.lno
      down == IF x.cur.lno + Scroll > last THEN last ELSE x.cur.lno + Scroll
      Both(ls) == CASE name = "^D" -> <<x.cur.lno + 1, down>>
                    [] name # "^D" /\ ls = <<>> -> <<dflt, dflt>>
                    [] name # "^D" /\ (Len(ls) = 1 \/ (ls # <<>> /\ name \in One)) -> <<Last(ls), Last(ls)>>
                    [] OTHER -> <<ls[Len(ls) - 1], Last(ls)>>
      Counted(r) == IF o.count = 0 \/ name \notin WithCount THEN r
                    ELSE <<r[2], IF r[2] + o.count - 1 > last THEN last ELSE r[2] + o.count - 1>>
      Good(ls) == /\ Len(ls) > 1 => ls[Len(ls) - 1] <= Last(ls)
                  /\ \A l \in ToSet(Both(ls)) :
                       l \in 1..last \/ (l = 0 /\ (name \in Zeros \/ (ls = <<>> /\ name = "c" /\ last = 0)
                                                   \/ (x.vi /\ o.name = "" /\ ls # <<>>)))
      To == ValueOf(x, o.dest)
  IN  {[name |-> name, from |-> r[1], to |-> r[2], dest |-> d] :
         <<r, d>> \in {Counted(Both(ls)) : ls \in {l \in LinesOf(x, o.addrs, o.seps) : Good(l)}}
                      \X (IF o.dest = None THEN {0} ELSE {l \in To : l <= last})}
=============================================================================
