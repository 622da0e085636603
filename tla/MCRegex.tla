------------------------------- MODULE MCRegex -------------------------------
(* Constants for the runs of Regex.                                        *)
EXTENDS Regex

MCChars   == <<" ", "*", ",", "-", "0", "1", "A", "[", "\\", "]", "^", "a", "b", "{", "}">>
MCOther   == [a |-> "A"] @@ [A |-> "a"]
MCClasses == [lower |-> {"a", "b"}]
MCWord    == {"a", "b", "A", "0", "1"}

One(text, set, neg) == [k |-> "one", text |-> text, set |-> set, neg |-> neg]
At(text, op)        == [k |-> "at", text |-> text, op |-> op]

MCAtoms ==
  {One(<<"a">>, {"a"}, FALSE), One(<<"b">>, {"b"}, FALSE),
   One(<<"[", "^", "b", "]">>, {"b"}, TRUE),
   At(<<"^">>, "OBOL"), At(<<"$">>, "OEOL"),
   At(<<"[", "[", ":", "<", ":", "]", "]">>, "OBOW"),
   At(<<"[", "[", ":", ">", ":", "]", "]">>, "OEOW")}

MCBounds == {<<0, Infinity>>, <<0, 1>>, <<1, 2>>}
MCPieces ==
  {<<"a">>, <<"*">>, <<"\\", "(">>, <<"\\", ")">>, <<"\\", "{">>, <<"\\", "}">>, <<"\\", "1">>, <<"1">>}
MCFlags  == {{}, {"extended", "icase"}}
MCLines  == {<<>>, <<"b", "a">>, <<"a", " ", "b">>, <<"a", "b", "a", "b">>}

(* A pattern and a line on which dissect() goes astray.                    *)
FewAtoms  == {One(<<"a">>, {"a"}, FALSE), One(<<"b">>, {"b"}, FALSE)}
FewBounds == {<<0, Infinity>>}
FewFlags  == {{}}
FewLines  == {<<"a", "b", "a", "b">>}
==============================================================================
