------------------------------- MODULE MCTags -------------------------------
(***************************************************************************)
(* Tags with two files, a tag of one place that the file does not hold any *)
(* more and a tag in both files.                                           *)
(***************************************************************************)
EXTENDS Tags, TLC

CONSTANTS f1, f2
MCFile == {f1, f2}
MCTag == {"one", "both"}
MCCtags == "one" :> <<[file |-> f2, at |-> 0]>> @@
           "both" :> <<[file |-> f1, at |-> 2], [file |-> f2, at |-> 1]>>
=============================================================================
