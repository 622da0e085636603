---------------------------- MODULE MCRecordTree ----------------------------
EXTENDS RecordTree

\* No lines; a leaf full of empty ones and a longer one; and lines that fill an
\* internal page, one of them on an overflow chain: two records to a leaf,
\* three children to an internal page.
MCFiles == {<<>>, <<0, 0, 0, 2>>, [i \in 1..9 |-> IF i = 3 THEN 7 ELSE 2]}

=============================================================================
