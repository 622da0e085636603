------------------------------- MODULE Recno -------------------------------
(***************************************************************************)
(* What the record-number access method promises for a variable-length     *)
(* recno file: records are numbered from 1 without gaps.  The edited text  *)
(* (EXF.db) and the change log (EXF.log) are both such files.  These are   *)
(* the effects on the records; how db/btree lays them out in pages is not  *)
(* visible to the editor.                                                  *)
(***************************************************************************)
EXTENDS Integers, Sequences

\* The longer of two lengths.
Longer(m, n) == IF m > n THEN m ELSE n

\* A put past the end first creates the records in between, empty (`blank').
RecPad(f, n, blank) ==
    [i \in 1..Longer(Len(f), n) |-> IF i <= Len(f) THEN f[i] ELSE blank]

\* put with flags 0: overwrite record k, or create it.
RecPut(f, k, v) == [i \in 1..Longer(Len(f), k) |-> IF i = k THEN v ELSE f[i]]

\* put with R_IBEFORE: the new record gets number k, later ones move up.
\* R_IAFTER with key k is the same with number k + 1.
RecInsert(f, k, v) ==
    [i \in 1..Len(f) + 1 |-> IF i < k THEN f[i] ELSE IF i = k THEN v ELSE f[i - 1]]

\* del: later records move down.
RecDelete(f, k) == [i \in 1..Len(f) - 1 |-> IF i < k THEN f[i] ELSE f[i + 1]]

=============================================================================
