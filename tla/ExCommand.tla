----------------------------- MODULE ExCommand -----------------------------
(***************************************************************************)
(* The rest of the parser of ex_cmd() (ex/ex.c): the name of a command,    *)
(* where it ends, its default addresses and arguments, and whether the     *)
(* lines it names exist.  An EXCMD is the record e:                        *)
(*   x         what ex_range() left of the screen;                         *)
(*   cmd, syn  the command and its syntax script; fn, the function called; *)
(*   n, a1, a2, abs, def, zero  the addresses, E_ABSMARK, E_ADDR_DEF and   *)
(*             E_ADDR_ZERO;                                                *)
(*   cp, save  what is left to parse of it, and of the line after it;      *)
(*   uselast   E_USELASTCMD; bare, nothing follows the addresses;          *)
(*   flagoff, count, counted, buf, force, lineno, argv  its arguments.     *)
(***************************************************************************)
EXTENDS ExParse

-----------------------------------------------------------------------------
(* Before the addresses: blanks, empty lines, colons and comments.         *)
RECURSIVE Start(_)
Start(s) ==
  LET t == Skip(s, Blank \cup {"nl"})
      c == Skip(t, {":"})
      k == SelectInSeq(c, LAMBDA d : d = "nl")
  IN  IF At(c, {"dq"}) THEN Start(IF k = 0 THEN <<>> ELSE Rest(c, k)) ELSE Skip(c, Blank)

\* Whether anything but newlines was skipped: then ex runs the default command.
RECURSIVE NotEmpty(_)
NotEmpty(s) ==
  LET t == Skip(s, Blank \cup {"nl"})
      c == Skip(t, {":"})
      k == SelectInSeq(c, LAMBDA d : d = "nl")
  IN  IF At(c, {"dq"}) THEN k # 0 /\ NotEmpty(Rest(c, k))
      ELSE c # t \/ \E i \in 1..Run(s, Blank \cup {"nl"}) : s[i] \in Blank
Nothing(x, s) == Start(s) = <<>> /\ (~NotEmpty(s) \/ x.vi)

-----------------------------------------------------------------------------
(* The name.  d and k may be followed at once by their arguments, s by the *)
(* flags that repeat it, < and > by more of themselves.                    *)

Cmd(cmd, cp) == [ok |-> TRUE, cmd |-> cmd, fn |-> cmd, syn |-> cmds[cmd].syn, cp |-> cp,
                 argv |-> <<>>, uselast |-> FALSE]
Unknown == [Cmd("p", <<>>) EXCEPT !.ok = FALSE]

Default(s) == [Cmd("p", s) EXCEPT !.uselast = TRUE]
DeleteFlags(s) == [Cmd("d", Tail(s)) EXCEPT !.syn = <<"1", "b", "ca", "1">>]
SubAgain(cp) == [Cmd("s", cp) EXCEPT !.fn = "&"]
Shifts(s) == [Cmd(s[1], Skip(s, {s[1]})) EXCEPT !.argv = SubSeq(s, 1, Run(s, {s[1]}))]

Name(s) ==
  LET n == Run(s, Letters)
  IN  CASE s = <<>> \/ At(s, Ends)                            -> Default(s)
        [] At(s, {"<", ">"})                                  -> Shifts(s)
        [] At(s, Single \ {"<", ">"})                         -> Cmd(s[1], Tail(s))
        [] At(s, {"d"}) /\ At(Tail(s), Flags)                 -> DeleteFlags(s)
        [] n = 1 /\ s[1] \in DOMAIN cmds
             /\ ~(s[1] = "d" /\ At(Tail(s), Flags))           -> Cmd(s[1], Tail(s))
        [] n = 2 /\ s[1] = "k"                                -> Cmd("k", Tail(s))
        [] n > 1 /\ s[1] = "s" /\ \A i \in 2..n : s[i] \in {"c", "g", "r"}
                                                              -> SubAgain(Tail(s))
        [] OTHER                                              -> Unknown

(* The special argument of s: the delimited strings, or none.              *)
Alnum == Digits \cup Letters
RECURSIVE PastDelimiters(_, _, _)
PastDelimiters(s, d, cnt) ==
  IF s = <<>> \/ cnt = 0 THEN s
  ELSE IF s[1] = "\\" /\ Len(s) > 1 THEN PastDelimiters(Rest(s, 2), d, cnt)
  ELSE PastDelimiters(Tail(s), d, IF s[1] = d THEN cnt - 1 ELSE cnt)

SpecialArg(c) ==
  LET s == Skip(c.cp, Blank)
  IN  IF c.cmd # "s" \/ c.fn = "&" THEN 0
      ELSE IF s = <<>> \/ At(s, Alnum \cup {"|"}) THEN Len(c.cp) - Len(s)
      ELSE Len(c.cp) - Len(PastDelimiters(Tail(s), s[1], 2))
SpecialFn(c) ==
  IF c.cmd = "s" /\ At(Skip(c.cp, Blank), Alnum \cup {"|"}) THEN "&" ELSE c.fn

(* The end of the command: a newline or | that is not escaped.  arg is     *)
(* what comes before, rest what comes after.                               *)
RECURSIVE Terminated(_)
Terminated(s) ==
  LET esc == s # <<>> /\ s[1] = "^V" /\ Len(s) > 1 /\ s[2] \in Ends
  IN  IF s = <<>> THEN [arg |-> <<>>, rest |-> <<>>]
      ELSE IF At(s, Ends) THEN [arg |-> <<>>, rest |-> Tail(s)]
      ELSE [Terminated(Rest(s, IF esc THEN 2 ELSE 1)) EXCEPT
              !.arg = <<s[IF esc THEN 2 ELSE 1]>> \o @]

(* The EXCMD with its name and its end known; r is what ex_range() gave.   *)
Command(r, c) ==
  LET k == SpecialArg(c)
      t == Terminated(Rest(c.cp, k))
  IN  [x |-> r.x, ok |-> r.ok /\ c.ok, cmd |-> c.cmd, fn |-> SpecialFn(c), syn |-> c.syn,
       n |-> r.n, a1 |-> r.a1, a2 |-> r.a2, abs |-> r.abs, def |-> FALSE, zero |-> FALSE,
       cp |-> SubSeq(c.cp, 1, k) \o t.arg, save |-> t.rest, uselast |-> c.uselast,
       bare |-> c.cp = <<>> \/ At(c.cp, {"nl"}), flagoff |-> 0, count |-> 0, counted |-> FALSE,
       buf |-> "none", force |-> FALSE, lineno |-> 0, argv |-> c.argv, done |-> FALSE,
       left |-> c.syn]

-----------------------------------------------------------------------------
(* Default addresses.  The default command is on the next line.            *)
NextLine(e) ==
  IF e.uselast /\ e.n = 0 THEN [e EXCEPT !.n = 1, !.a1 = Pos(e.x.cur.lno + 1, e.x.cur.cno)] ELSE e

Here(e) == IF cmds[e.cmd].zerodef /\ e.x.file = <<>> /\ (cmds[e.cmd].addr = 1 \/ e.x.cur.lno = 1)
             THEN Pos(0, e.x.cur.cno) ELSE e.x.cur
DefaultAddr(e) ==
  CASE cmds[e.cmd].addr = 1 /\ e.n = 0 ->
         [e EXCEPT !.n = 1, !.def = TRUE, !.a1 = Here(e), !.zero = @ \/ Here(e).lno = 0]
    [] cmds[e.cmd].addr = 1 /\ e.n = 2 -> [e EXCEPT !.n = 1, !.a1 = e.a2]
    [] cmds[e.cmd].addr = 2 /\ e.n = 0 ->
         [e EXCEPT !.n = 2, !.def = TRUE, !.a1 = Here(e), !.a2 = Here(e),
                   !.zero = @ \/ (Here(e).lno = 0 /\ cmds[e.cmd].zerodef)]
    [] cmds[e.cmd].addr = 2 /\ e.n = 1 -> [e EXCEPT !.a2 = e.a1]
    [] OTHER -> e

(* ^D scrolls by the scroll option from the next line.                     *)
ScrollAddr(e, scroll) ==
  LET to == e.x.cur.lno + scroll
      n  == Len(e.x.file)
  IN  IF e.cmd # "^D" THEN e
      ELSE [e EXCEPT !.n = 2, !.a1 = Pos(e.x.cur.lno + 1, e.x.cur.cno),
                     !.a2 = Pos(IF n > e.x.cur.lno /\ to > n THEN n ELSE to, e.x.cur.cno)]

-----------------------------------------------------------------------------
(* Arguments, one item of the syntax script at a time.                     *)
Count(s, c) == Cardinality({i \in DOMAIN s : s[i] = c})

Force(e) == IF At(e.cp, {"!"}) THEN [e EXCEPT !.force = TRUE, !.cp = Tail(@)] ELSE e

FlagArgs(e) ==
  LET f == SubSeq(e.cp, 1, Run(e.cp, Flags))
  IN  [e EXCEPT !.flagoff = @ + Count(f, "+") - Count(f, "-") - Count(f, "^"),
                !.cp = Skip(@, Flags)]

(* -, ., +, ^ and = of z: they are or'ed, the last ones do not win.        *)
ZFlags(e) == LET Z == {"-", ".", "+", "^", "="}
             IN  [e EXCEPT !.argv = SubSeq(e.cp, 1, Run(e.cp, Z)), !.cp = Skip(@, Z)]

BufferArg(e) ==
  IF At(e.cp, Digits) \/ (At(e.cp, {"+", "-", "^", "#"}) /\ "1" \in ToSet(e.left)) THEN e
  ELSE [e EXCEPT !.buf = e.cp[1], !.cp = Tail(@)]

(* A count is an offset from the second address.                           *)
CountArg(e) ==
  IF ~At(e.cp, Digits) THEN e
  ELSE LET n == Number(e.cp)
       IN  [e EXCEPT !.ok = n # 0, !.counted = TRUE, !.cp = Skip(@, Digits),
                     !.a1 = e.a2, !.a2 = Pos(e.a2.lno + n - 1, e.a2.cno)]

\* The count of z may be zero and is no address.
PlainCount(e) ==
  IF ~At(e.cp, Digits) THEN e
  ELSE [e EXCEPT !.count = Number(e.cp), !.counted = TRUE, !.cp = Skip(@, Digits)]

LineIs(e, l) ==
  IF ~l.ok \/ ~l.is \/ l.at.lno > Len(e.x.file) THEN [e EXCEPT !.ok = FALSE, !.x.re = l.re]
  ELSE [e EXCEPT !.lineno = l.at.lno, !.cp = l.rest, !.abs = @ \/ l.abs, !.x.re = l.re]
LineArg(e) == LineIs(e, ExLine(e.x, e.cp))

StringArg(e) == [e EXCEPT !.argv = e.cp, !.cp = <<>>, !.done = TRUE]

(* One word, the name of a mark.                                           *)
WordArg(e) ==
  LET s == Skip(e.cp, Blank)
  IN  [e EXCEPT !.ok = \A i \in DOMAIN s : i > 1 => s[i] \in Blank,
                !.argv = SubSeq(s, 1, 1), !.cp = <<>>, !.done = TRUE]

(* e.left keeps the items that were not reached because the text ran out.  *)
Arg(e, item) ==
  LET s == [e EXCEPT !.cp = Skip(@, Blank)]
  IN  IF ~e.ok \/ e.done THEN e
      ELSE
        CASE item = "!"               -> [Force(e) EXCEPT !.left = Tail(e.left)]
        [] item # "!" /\ s.cp = <<>> -> [s EXCEPT !.done = TRUE]
        [] OTHER                      ->
             LET a == CASE item = "1"   -> FlagArgs(s)
                        [] item = "3"   -> ZFlags(s)
                        [] item = "b"   -> BufferArg(s)
                        [] item = "ca"  -> CountArg(s)
                        [] item = "c0"  -> PlainCount(s)
                        [] item = "l"   -> LineArg(s)
                        [] item = "s"   -> StringArg(s)
                        [] item = "w1r" -> WordArg(s)
             IN  [a EXCEPT !.left = Tail(e.left)]

(* Nothing may be left over, and no required argument missing.             *)
NoneMissing(a) ==
  [a EXCEPT !.ok = @ /\ Skip(a.cp, Blank) = <<>> /\ ToSet(a.left) \cap {"l", "w1r"} = {}]
Arguments(e) == NoneMissing(FoldLeft(Arg, e, e.syn))

-----------------------------------------------------------------------------
(* addr_verify: a count may go past the end of the file, an address not.   *)
ZeroOk(e) == cmds[e.cmd].zero \/ e.zero \/ (e.x.vi /\ e.uselast)
Clamp(e) == IF e.n = 2 /\ e.counted /\ e.a2.lno > Len(e.x.file)
              THEN [e EXCEPT !.a2.lno = Len(e.x.file)] ELSE e
Exists(e, a) == IF a.lno = 0 THEN ZeroOk(e) ELSE a.lno <= Len(e.x.file)

BothThere(c) == [c EXCEPT !.ok = @ /\ Exists(c, c.a1) /\ (c.n = 2 => Exists(c, c.a2))]
Verify(e) == BothThere(Clamp(e))

(* The default command of vi moves to the line, if nothing follows it.     *)
JustMoves(e) == e.x.vi /\ e.uselast /\ e.bare

(* All of it, from the text s; scroll is the scroll option.                *)
AfterName(e, scroll) ==
  IF ~e.ok THEN e ELSE Verify(Arguments(ScrollAddr(DefaultAddr(NextLine(e)), scroll)))
WithName(r, scroll) == AfterName(Command(r, Name(Skip(r.rest, Blank \cup {":"}))), scroll)
Parse(x, s, scroll) == WithName(ex_range(x, Start(s)), scroll)
=============================================================================
