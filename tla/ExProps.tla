------------------------------- MODULE ExProps -------------------------------
(***************************************************************************)
(* What ex commands promise: they are understood as they were meant, and   *)
(* lines, marks and substitutions end where the command says.              *)
(***************************************************************************)
EXTENDS ExOrders

said1 == said[1]
Named(names) == pc = "call" /\ ecp.cmd \in names
(* The last step called the command, and it worked.                        *)
Worked == pc = "call" /\ pc' = "after"
From == ecp.a1.lno
To == ecp.a2.lno

(* The editor does not understand a count that goes past the end of the    *)
(* file after one address: see CountsStayInFile.                           *)
CountPastEnd(x, o) ==
  /\ o.count > 0 /\ o.name \in WithCount
  /\ \E l \in LinesOf(x, o.addrs, o.seps) : Len(l) = 1 /\ l[1] + o.count - 1 > Len(x.file)

-----------------------------------------------------------------------------
(* A command is called with the lines, the buffer, the destination and the *)
(* flags that were meant, and it is refused only if it asks for lines that *)
(* do not exist; with the next command of the line it has nothing to do    *)
(* (ex_cmd() and ex_range(), ex.c).                                        *)
CommandsMeant ==
  pc = "parse" /\ said # <<>> /\ ~Nothing(sp, line) /\ ~CountPastEnd(sp, said1) =>
    \E e \in {Parsed} : \E want \in {Meaning(sp, said1)} :
      /\ e.ok <=> want # {}
      /\ \A m \in want :
           /\ e.cmd = m.name /\ e.a1.lno = m.from
           /\ cmds[e.cmd].addr = 2 => e.a2.lno = m.to
           /\ e.lineno = m.dest /\ e.buf = said1.buf /\ e.force = said1.force
           /\ e.cmd = "z" /\ said1.args = <<>> => e.count = said1.count
           /\ e.save = LineChars(Tail(said))

(* Functions may rely on their addresses: the lines exist and are in order *)
(* whatever came before on the line ("Since we don't want to have to make  *)
(* all of the underlying commands handle random line numbers, fix it       *)
(* here", ex.c:1250).                                                      *)
LinesExist == pc = "call" =>
  /\ From <= Len(sp.file) /\ (cmds[ecp.cmd].addr = 2 => From <= To /\ To <= Len(sp.file))
  /\ From = 0 => cmds[ecp.cmd].zero \/ sp.file = <<>> \/ (sp.vi /\ ecp.uselast)
CountsStayInFile == LinesExist
AddressesExist == pc = "call" => CountPastEnd(sp, said1) \/ LinesExist

(* Parsing: what is called is what was meant, on lines that exist.         *)
CalledAsMeant == CommandsMeant /\ AddressesExist

-----------------------------------------------------------------------------
(* Where the lines go.                                                     *)
Lines(f, i, j) == SubSeq(f, i, j)
Head_ == Lines(sp.file, 1, From - 1)
Range_ == Lines(sp.file, From, To)
Tail_ == Lines(sp.file, To + 1, Len(sp.file))
Upto_(l) == Lines(sp.file, 1, l)
After_(l) == Lines(sp.file, l + 1, Len(sp.file))

\* A count at the end of the options of s changes its range.
Opts == IF said1.sub = <<>> THEN said1.args ELSE said1.sub.opts
SubFrom == IF Opts # <<>> /\ Last(Opts) \in Digits THEN To ELSE From
SubTo == IF Opts # <<>> /\ Last(Opts) \in Digits
           THEN IF To + DigitVal(Last(Opts)) - 1 > Len(sp.file) THEN Len(sp.file)
                ELSE To + DigitVal(Last(Opts)) - 1
           ELSE To
Moved_(to) == IF to < From THEN Upto_(to) \o Range_ \o Lines(sp.file, to + 1, From - 1) \o Tail_
              ELSE Head_ \o Lines(sp.file, To + 1, to) \o Range_ \o After_(to)
Ink(t) == SelectSeq(t, LAMBDA c : c \notin Blanks)
Joined(last) ==
  \E t \in {sp'.file[From]} :
    /\ sp'.file = Head_ \o <<t>> \o After_(last)
    /\ Ink(t) = Ink(FlattenSeq(Lines(sp.file, From, last)))
Shifted(t, u) ==
  LET w == Width(t) + (IF ecp.cmd = ">" THEN 1 ELSE -1) * ShiftWidth * Len(ecp.argv)
  IN  IF t = <<>> THEN u = t ELSE /\ Width(u) = IF w < 0 THEN 0 ELSE w
                                  /\ Skip(u, Blanks) = Skip(t, Blanks)
Inserted(f, l) ==           \* lines are put behind line l of f, and nothing else
  \E n \in 0..Len(sp'.file) : sp'.file = Lines(f, 1, l) \o Lines(sp'.file, l + 1, l + n)
                                         \o Lines(f, l + 1, Len(f))

(* Every command leaves the lines it is not about alone and in order, and  *)
(* does to the others what its name says (ex_delete.c, ex_move.c,          *)
(* ex_join.c, ex_shift.c, ex_append.c, ex_put.c).                          *)
LinesGoWhereTold == [][Worked =>
  CASE ecp.cmd = "d" -> sp'.file = Head_ \o Tail_
    [] ecp.cmd = "mo" -> sp'.file = Moved_(ecp.lineno) /\ sp'.cur.lno =
                           IF ecp.lineno > To THEN ecp.lineno ELSE ecp.lineno + To - From + 1
    [] ecp.cmd = "co" -> sp'.file = Upto_(ecp.lineno) \o Range_ \o After_(ecp.lineno)
    [] ecp.cmd = "pu" -> sp'.file = Upto_(From) \o sp.cuts[IF ecp.buf = "none" THEN sp.dcb ELSE ecp.buf]
                                    \o After_(From)
    [] ecp.cmd = "j" -> \E last \in {IF ecp.def \/ ecp.n = 1 THEN To + 1 ELSE To} :
                          Joined(IF last > Len(sp.file) THEN Len(sp.file) ELSE last)
    [] ecp.cmd \in {">", "<"} ->
         /\ Lines(sp'.file, 1, From - 1) = Head_ /\ Len(sp'.file) = Len(sp.file)
         /\ \A l \in From..To : Shifted(sp.file[l], sp'.file[l])
         /\ Lines(sp'.file, To + 1, Len(sp.file)) = Tail_
    [] ecp.cmd = "a" -> Inserted(sp.file, From)
    [] ecp.cmd = "i" -> Inserted(sp.file, IF From = 0 THEN 0 ELSE From - 1)
    [] ecp.cmd = "c" -> IF From = 0 THEN Inserted(sp.file, 0) ELSE Inserted(Head_ \o Tail_, From - 1)
    [] ecp.cmd \in {"s", "&", "~"} ->
         /\ IsPrefix(Upto_(SubFrom - 1), sp'.file) /\ IsSuffix(After_(SubTo), sp'.file)
    [] OTHER -> sp'.file = sp.file]_vars

-----------------------------------------------------------------------------
(* Where line l is after the command, 0 if it is gone.                     *)
Where(l) ==
  LET n == To - From + 1
      d == ecp.lineno
      added == Len(sp'.file) - Len(sp.file)
  IN  CASE ecp.cmd = "d" -> IF l < From THEN l ELSE IF l <= To THEN 0 ELSE l - n
        [] ecp.cmd \in {"co", "pu", "a"} ->
             IF l <= (IF ecp.cmd = "co" THEN d ELSE From) THEN l ELSE l + added
        [] ecp.cmd = "mo" /\ d < From ->
             IF l \in From..To THEN l - From + d + 1 ELSE IF l \in d + 1..From - 1 THEN l + n ELSE l
        [] ecp.cmd = "mo" /\ d > To ->
             IF l \in From..To THEN l + d - To ELSE IF l \in To + 1..d THEN l - n ELSE l
        [] OTHER -> l
Follows(m) ==
  \E w \in {Where(sp.marks[m].lno)} :
    IF w = 0 THEN sp'.marks[m].del ELSE sp'.marks[m].lno = w /\ ~sp'.marks[m].del
SetMarks == {m \in DOMAIN sp.marks \ {"'"} : ~sp.marks[m].del /\ sp.marks[m].lno <= Len(sp.file)}
MovesUp(m) == ecp.cmd = "mo" /\ ecp.lineno < From /\ sp.marks[m].lno \in From..To

(* A mark stays on its line when lines are deleted, put, copied or moved   *)
(* around it (mark_insdel(), mark.c, and ex_move()); not so the marks of   *)
(* lines that are moved up, which is what MovedMarksFollow asks for.       *)
MarksFollow == [][Worked /\ ecp.cmd \in {"d", "co", "pu", "a", "mo"} =>
                    \A m \in SetMarks : MovesUp(m) \/ Follows(m)]_vars
(* ex_move.c:104: "Then the marks end up in the right positions no matter  *)
(* which way the log is traversed".                                        *)
MovedMarksFollow == [][Worked /\ ecp.cmd = "mo" => \A m \in SetMarks : Follows(m)]_vars

-----------------------------------------------------------------------------
(* Substitution, from the matches in a line: at every place the longest    *)
(* one.  Those replaced do not overlap, and none that is empty follows     *)
(* another one directly.                                                   *)
Longest(re, t) == {m \in Spans(re, t, 0, FALSE, FALSE) :
                     \A n \in Spans(re, t, 0, FALSE, FALSE) : n.so = m.so => n.eo <= m.eo}
Covers(m, c) == m.so < c.so /\ (c.so < m.eo \/ (c.so = m.eo /\ c.eo = c.so))
All(L) == CHOOSE M \in SUBSET L : \A c \in L : c \in M <=> \A m \in M : ~Covers(m, c)
First(L) == {m \in L : \A n \in L : m.so <= n.so}
Replaced(t, M, repl) ==
  LET Then(c, i) == IF \E m \in M : m.so < i /\ i <= m.eo THEN <<>> ELSE <<c>>
      Put_(i) == IF \E m \in M : m.so = i
                   THEN re_sub(<<>>, t, repl, CHOOSE m \in M : m.so = i) ELSE <<>>
  IN  Put_(0) \o FlattenSeq([i \in DOMAIN t |-> Then(t[i], i) \o Put_(i)])

Re == CASE ecp.fn = "s" /\ said1.sub # <<>> -> sp'.re
        [] ecp.fn = "~" -> sp.re
        [] OTHER -> IF "r" \in ToSet(said1.args) THEN sp.re ELSE sp.subre
\* yes(i): whether the matches of line i are replaced.
Result(re, repl, opts, yes(_)) ==
  LET Line_(i) == LET t == sp.file[i]
                      L == Longest(re, t)
                  IN  IF ~yes(i) THEN <<t>>
                      ELSE Pieces(Replaced(t, IF "g" \in ToSet(opts) THEN All(L) ELSE First(L), repl))
  IN  Upto_(SubFrom - 1) \o FlattenSeq([i \in 1..(SubTo - SubFrom + 1) |-> Line_(SubFrom + i - 1)])
      \o After_(SubTo)

\* The user is asked about every line with a match, and answers as.
Asks == {i \in SubFrom..SubTo : Longest(Re, sp.file[i]) # {}}
SaysYes(as, i) ==
  i \in Asks => \E n \in DOMAIN as : as[n] = "y" /\ Cardinality({j \in Asks : j <= i}) = n

(* Every substitution replaces the matches of the lines it is for, each of *)
(* them once and no other, breaks lines where the replacement says, and    *)
(* leaves a line alone when the user does not say yes (s() and re_sub(),   *)
(* ex_subst.c).  Confirming a global is ConfirmedAllIsPlain.               *)
SubstituteIsReplace == [][Worked /\ Named({"s", "&", "~"}) /\ ~({"c", "g"} \subseteq ToSet(Opts)) =>
    IF "c" \in ToSet(Opts)
      THEN \E as \in Answers : sp'.file = Result(Re, sp'.repl, Opts, LAMBDA i : SaysYes(as, i))
      ELSE sp'.file = Result(Re, sp'.repl, Opts, LAMBDA i : TRUE)]_vars

(* When every change is confirmed it is the same substitution.  "Set       *)
(* REG_NOTEOL so the '$' pattern only matches once" (ex_subst.c).          *)
AllYes == \A a \in UNION {ToSet(as) : as \in Answers} : a = "y"
ConfirmedAllIsPlain == [][Worked /\ Named({"s", "&", "~"}) /\ AllYes =>
                            sp'.file = Result(Re, sp'.repl, Opts, LAMBDA i : TRUE)]_vars
=============================================================================
