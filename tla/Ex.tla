--------------------------------- MODULE Ex ---------------------------------
(***************************************************************************)
(* The ex command loop: ex_cmd() (ex/ex.c) on lines typed in ex mode or at *)
(* the colon of vi.  A line is parsed command by command: each command is  *)
(* called before the next one is looked at, and one that fails discards    *)
(* what is left of the line.                                               *)
(*                                                                         *)
(* Global commands and @ buffers, which push lines of their own, are in    *)
(* Global; autoprint and the other output of commands is left out.         *)
(***************************************************************************)
EXTENDS ExSubst

CONSTANTS
  Screens,      \* the screens to start from
  Orders,       \* the lines that may be typed: sequences of commands
  Text(_),      \* the characters of such a line
  MaxTyped,     \* bound: lines typed
  Answers,      \* what the user says when a substitution is to be confirmed
  Inputs,       \* the lines typed after an append, change or insert
  Scroll,       \* the scroll option
  MaxLines      \* bound: the lines of the file before the last line is typed

ASSUME ExAssumption == MaxTyped \in Nat /\ Scroll \in Nat /\ MaxLines \in Nat

VARIABLES sp,           \* the screen, as in ExSubst
          line,         \* what is left to parse
          ecp,          \* the EXCMD
          pc,           \* "parse", "call" or "after" the command was called
          said,         \* the commands of the line that were not finished
          typed         \* lines typed so far

vars == <<sp, line, ecp, pc, said, typed>>

NoCmd == [cmd |-> "none", flagoff |-> 0]

Init == /\ sp \in Screens
        /\ line = <<>> /\ ecp = NoCmd /\ pc = "parse" /\ said = <<>> /\ typed = 0

Type == /\ pc = "parse" /\ line = <<>> /\ ~sp.dead
        /\ typed < MaxTyped /\ Len(sp.file) <= MaxLines
        /\ \E o \in Orders : line' = Text(o) /\ said' = o
        /\ typed' = typed + 1
        /\ UNCHANGED <<sp, ecp, pc>>

(* The command failed: what is pending is discarded.                       *)
Discard(x) == /\ sp' = [x EXCEPT !.ok = TRUE]
              /\ line' = <<>> /\ said' = <<>> /\ pc' = "parse" /\ ecp' = NoCmd
              /\ UNCHANGED typed

-----------------------------------------------------------------------------
(* Parsing the next command of the line                                    *)

Parsed == Parse(sp, line, Scroll)

Ended == /\ pc = "parse" /\ line # <<>> /\ Nothing(sp, line)
         /\ line' = <<>> /\ said' = <<>>
         /\ UNCHANGED <<sp, ecp, pc, typed>>

Refused(e) == ~e.ok /\ Discard(e.x)

(* A line number and nothing else moves the cursor of vi.                  *)
MoveTo(x, l) == IF x.cur.lno = l THEN x ELSE [x EXCEPT !.cur = Pos(l, Nonblank(x, l))]
Moved(e) ==
  LET l == IF e.n = 2 THEN e.a2.lno ELSE e.a1.lno
  IN  /\ e.ok /\ JustMoves(e)
      /\ sp' = MoveTo(e.x, IF l = 0 THEN 1 ELSE l)
      /\ line' = e.save /\ said' = Tail(said)
      /\ UNCHANGED <<ecp, pc, typed>>

(* The absolute mark is set before the command is called.                  *)
Understood(e) ==
  /\ e.ok /\ ~JustMoves(e)
  /\ sp' = IF e.abs THEN SetMark(e.x, "'", e.x.cur) ELSE e.x
  /\ ecp' = e /\ line' = e.save /\ pc' = "call"
  /\ UNCHANGED <<said, typed>>

Next1 == /\ pc = "parse" /\ line # <<>> /\ ~Nothing(sp, line)
         /\ \E e \in {Parsed} : Refused(e) \/ Moved(e) \/ Understood(e)

-----------------------------------------------------------------------------
(* Calling it.  x is the screen that the command leaves.                   *)

Returns(x, e) ==
  IF x.ok THEN /\ sp' = x /\ ecp' = e /\ pc' = "after"
               /\ UNCHANGED <<line, said, typed>>
  ELSE Discard(x)

Is(names) == pc = "call" /\ ecp.cmd \in names

Delete == Is({"d"}) /\ Returns(ex_delete(sp, ecp), ecp)
Yank   == Is({"y"}) /\ Returns(ex_yank(sp, ecp), ecp)
Put    == Is({"pu"}) /\ Returns(ex_put(sp, ecp), ecp)
Copy   == Is({"co"}) /\ Returns(ex_copy(sp, ecp), ecp)
Move   == Is({"mo"}) /\ Returns(ex_move(sp, ecp), ecp)
Join   == Is({"j"}) /\ Returns(ex_join(sp, ecp), ecp)
Shift  == Is({">", "<"}) /\ Returns(ex_shift(sp, ecp), ecp)
Mark   == Is({"k", "ma"}) /\ Returns(ex_mark(sp, ecp), ecp)
Show   == Is({"p", "l", "nu", "#", "^D"}) /\ Returns(ex_print(sp, ecp.a1, ecp.a2), ecp)
ZLines == Is({"z"}) /\ Returns(ex_z(sp, ecp), ecp)
Equal  == Is({"="}) /\ Returns(ex_equal(sp, ecp), ecp)

(* The rest of the line is the first of the text.                          *)
Aci == /\ Is({"a", "c", "i"})
       /\ \E ls \in Inputs : \E x \in {ex_aci(sp, ecp, line, ls)} :
            IF x.ok THEN /\ sp' = x /\ line' = <<>> /\ said' = <<said[1]>> /\ pc' = "after"
                         /\ UNCHANGED <<ecp, typed>>
            ELSE Discard(x)

Subst == /\ Is({"s", "&", "~"})
         /\ \E as \in Answers : \E r \in {ex_s(sp, ecp, as)} : Returns(r.x, r.e)

(* The flags + and - move the cursor after the command.                    *)
Landing == sp.cur.lno + ecp.flagoff
Finish ==
  /\ pc = "after"
  /\ IF ecp.flagoff = 0 \/ (Landing > 0 /\ (ecp.flagoff > 0 => Exist(sp, Landing)))
       THEN /\ sp' = [sp EXCEPT !.cur.lno = Landing]
            /\ pc' = "parse" /\ ecp' = NoCmd /\ said' = Tail(said)
            /\ UNCHANGED <<line, typed>>
       ELSE Discard(sp)

Next == \/ Type \/ Ended \/ Next1 \/ Finish
        \/ Delete \/ Yank \/ Put \/ Copy \/ Move \/ Join \/ Shift \/ Mark \/ Show \/ ZLines
        \/ Equal \/ Aci \/ Subst

Spec == Init /\ [][Next]_vars
=============================================================================
