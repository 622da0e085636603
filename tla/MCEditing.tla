----------------------------- MODULE MCEditing -----------------------------
(***************************************************************************)
(* Editing on every text of at most two short lines, and on some           *)
(* longer ones where paragraphs, sections, sentences and brackets meet.    *)
(***************************************************************************)
EXTENDS Editing

LinesOf(chars, n) == UNION {[1..k -> chars] : k \in 0..n}
TextsOf(chars, n, m) == UNION {[1..k -> LinesOf(chars, n)] : k \in 0..m}

MCLong == {
  << <<"a">>, <<>>, <<"b", "a">>, <<>>, <<>>, <<"a">> >>,
  << <<" ", "a">>, <<".", "P">>, <<"b">>, <<"{">>, <<"a">>, <<"}">>, <<"b">> >>,
  << <<"a", ".", ")", " ", " ", "b", "?", " ", " ", "a">>, <<"b", "!">>, <<" ", "a">> >>,
  << <<"a", "(", "b", "(", ")", ")", "{">>, <<"(", "}", "a">>, <<")">> >> }
MCFew == { << <<"a", "b">>, <<".">> >>, << <<"a">> >> }
MCTexts == TextsOf({"a", ".", " "}, 2, 2) \cup MCLong \cup MCFew
MCCounts == {0, 2}
MCKeys == Keys
=============================================================================
