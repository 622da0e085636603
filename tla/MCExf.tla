------------------------------- MODULE MCExf -------------------------------
(* The constants of Exf for TLC. *)
EXTENDS ExfProps
CONSTANTS t0, t1

\* An empty file, and one with a line of each text.
Files == {<<>>, <<t1, t0>>}
\* An empty file, and one with one line.
Files1 == {<<>>, <<t0>>}
\* Three lines, the two last alike.
Files3 == {<<t1, t0, t0>>}

RegularOnly == Regular

\* As long as the session is regular no step reads log records from l_high on,
\* and lundo means nothing while F_UNDO is clear.
Visible ==
    <<file, cache, lg.cur, lg.high, lg.cursor, lg.snap, [i \in 1..lg.high - 1 |-> lg.rec[i]],
      nolog, undone, undone /\ lundo = "BACKWARD", marks, lno, firstmod, pc, byEx, didop, quirks>>
=============================================================================
