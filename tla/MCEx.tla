-------------------------------- MODULE MCEx --------------------------------
(***************************************************************************)
(* Two files, an empty one, in ex mode and from vi; every pair of          *)
(* addresses with a command of each kind, and lines of several commands.   *)
(***************************************************************************)
EXTENDS ExProps

Mk(l, c) == [lno |-> l, cno |-> c, del |-> FALSE]
Screen(file, cur, vi) ==
  [file |-> file, cur |-> cur, vi |-> vi, re |-> <<>>, repl |-> <<>>, subre |-> <<>>,
   marks |-> ("'" :> Mk(1, 0)) @@ (IF Len(file) > 1 THEN ("a" :> Mk(2, 1)) ELSE <<>>),
   cuts |-> <<>>, dcb |-> "none", ok |-> TRUE, dead |-> FALSE]

Three == << <<"a", "b">>, <<" ", "b", ".">>, <<"b", "a", "a", "a">> >>
Gaps == << <<"^I", "a">>, <<>>, <<" ", "^I", ")", "c">> >>
MCScreens == {Screen(Three, Pos(2, 1), FALSE), Screen(Three, Pos(3, 1), TRUE),
              Screen(Gaps, Pos(1, 1), FALSE), Screen(<<>>, Pos(1, 0), FALSE)}

-----------------------------------------------------------------------------
A == {Num(0), Num(1), Num(3), Num(4), Dot, Eof, MarkOf("a"), Seek(<<"b">>), Back(<<"a">>),
      Plus(Dot, 1), Plus(Num(2), -2), Step(-1), None}
B == {Num(1), Num(3), Dot, Eof, Seek(<<"b">>), Plus(Dot, 1), Step(-1)}
Ranges == {<<<<>>, <<>>>>} \cup {<<<<a>>, <<>>>> : a \in A \ {None}}
          \cup {<<<<a, b>>, <<s>>>> : a \in A, b \in A, s \in {",", ";"}}
Triples == {<<<<a, b, c>>, <<s, ",">>>> : a \in {Num(2), Seek(<<"b">>)}, b \in B, c \in B, s \in {",", ";"}}
Plain == {Order(r[1], r[2], "") : r \in Ranges \cup Triples}
Some == {<<<<>>, <<>>>>, <<<<Num(1)>>, <<>>>>, <<<<Num(2)>>, <<>>>>, <<<<Eof>>, <<>>>>,
         <<<<Num(1), Num(2)>>, <<",">>>>, <<<<Num(2), Eof>>, <<",">>>>, <<<<Num(0)>>, <<>>>>}
Lines_(names) == {Order(r[1], r[2], n) : r \in Some, n \in names}
Counts(S) == S \cup {[o EXCEPT !.count = n] : o \in S, n \in {1, 2}}
Bufs(S) == S \cup {[o EXCEPT !.buf = "a"] : o \in S}
Flags_(S) == S \cup {[o EXCEPT !.args = f] : o \in S, f \in {<<"+">>, <<"-">>}}
Dests(names) == {[o EXCEPT !.dest = d] : o \in Lines_(names), d \in {Num(0), Num(1), Eof, Dot, Num(2), Seek(<<"b">>)}}

Sub(re, repl, opts) == [re |-> re, repl |-> repl, opts |-> opts]
Pats == {<<"a">>, <<"a", "*">>, <<"$">>, <<"^">>, <<"b", "*", "$">>, <<".", "a">>}
Repls == {<<>>, <<"&", "c">>, <<"^M">>, <<"\\", "u", "&">>}
Subs(opts) == {[o EXCEPT !.sub = Sub(p, r, t)] : o \in {Do(<<>>, "s"), Do(<<Num(1), Eof>>, "s")},
                                                 p \in Pats, r \in Repls, t \in opts}
Odd == {[Do(<<>>, "s") EXCEPT !.sub = Sub(<<"|">>, <<"a">>, <<>>)],
        [Do(<<Num(1), Eof>>, "s") EXCEPT !.sub = Sub(<<"b">>, <<"~", "|">>, <<"g">>)]}

Singles == Plain \cup Counts(Flags_(Lines_({"j", "p", ">", "<"})))
           \cup Counts(Bufs(Lines_({"d", "y"}))) \cup Counts(Lines_({"z"}))
           \cup Lines_({"=", "^D", "nu", "pu", "a", "c", "i"}) \cup Dests({"co", "mo"})
           \cup {[o EXCEPT !.args = <<"b">>] : o \in Lines_({"k"})}
           \cup {[o EXCEPT !.args = <<" ", "b">>] : o \in Lines_({"k", "ma"})}
           \cup {[o EXCEPT !.force = TRUE] : o \in Lines_({"j"})}
           \cup {[o EXCEPT !.args = <<f>> \o n] : o \in Lines_({"z"}), f \in {"^", "-", ".", "=", "+"},
                                             n \in {<<>>, <<"2">>}}
           \cup Subs({<<>>, <<"g">>, <<"g", "2">>}) \cup Odd

Leads == {[o EXCEPT !.lead = l] : o \in {Do(<<>>, ""), Do(<<Num(1)>>, "d"), Do(<<None, Num(3)>>, "p")},
                                  l \in {<<" ">>, <<":", " ">>, <<"dq", "d", "nl", "nl">>, <<"dq", "p">>}}
F(cmd) == Do(<<>>, cmd)
MCConfirmed == {<<o>> : o \in Subs({<<"c">>, <<"g", "c">>})}
MCOrders ==
  MCConfirmed \cup {<<o>> : o \in Singles \cup Leads}
  \cup {<<p, o>> : p \in {Do(<<Num(2)>>, "d"), [Do(<<Num(1)>>, "y") EXCEPT !.buf = "a"],
                         [Do(<<Num(1)>>, "mo") EXCEPT !.dest = Eof],
                         Order(<<Num(1), None>>, <<";">>, "p")},
                  o \in Lines_({"", "d", "pu", "j", ">"})
                        \cup {[F("pu") EXCEPT !.buf = "a"], Do(<<MarkOf("a")>>, ""), F("^D")}
                        \cup {[Do(<<Num(2), Eof>>, "mo") EXCEPT !.dest = Num(0)]}}
  \cup {<<s, p, o>> : s \in {o \in Subs({<<"g">>}) : o.sub.re \in {<<"a">>, <<"b", "*", "$">>}},
                      p \in {Order(<<Seek(<<"b">>), None>>, <<";">>, "p")},
                      o \in {Do(<<Num(1), Eof>>, "&"), Do(<<Num(1), Eof>>, "~"),
                             [Do(<<Num(1), Eof>>, "s") EXCEPT !.args = <<"g", "r">>]}}

MCAnswers == {<<>>, <<"y", "n", "y">>}
MCYes == {<<"y", "y", "y", "y", "y">>}
MCUp == {<<[Do(<<Num(2)>>, "mo") EXCEPT !.dest = Num(0)]>>} \cup {<<o>> : o \in Dests({"mo"})}
MCInputs == {<<>>, <<<<"c">>, <<>>>>}
=============================================================================
