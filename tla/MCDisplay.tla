------------------------------- MODULE MCDisplay -------------------------------
(***************************************************************************)
(* Windows of two columns and at most four rows: an empty file, and one    *)
(* with lines of one, two and three rows, longer than the window and than  *)
(* half of it.                                                             *)
(***************************************************************************)
EXTENDS Display

MCFiles == {<<>>, <<1, 5, 1, 2, 3, 1>>}
MCLens == {0, 3}
=============================================================================
