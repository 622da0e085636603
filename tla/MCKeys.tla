------------------------------- MODULE MCKeys -------------------------------
(***************************************************************************)
(* A small instance of KeyQueue: <escape> is 0, 1 a digit, 2 and 3 are     *)
(* letters and 4 is punctuation.                                           *)
(***************************************************************************)
EXTENDS KeyQueue

Entry(stype, input, output) == [stype |-> stype, input |-> input, output |-> output]

MCEntries == {Entry("command", <<2>>, <<3>>), Entry("command", <<3>>, <<2>>),
              Entry("command", <<2, 4>>, <<2, 4, 2>>),
              Entry("input", <<4>>, <<2, 4>>),
              Entry("abbrev", <<2>>, <<3>>), Entry("abbrev", <<3>>, <<2>>)}
MCPushes == {<<2, 4>>}
=============================================================================
