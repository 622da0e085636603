---------------------------- MODULE RecnoProofs ----------------------------
(* Facts about the record operations of Recno, for every file and record. *)
EXTENDS Recno, TLAPS

\* A function on 1..n with values in S is a sequence of length n.
LEMMA FcnIsSeq ==
    ASSUME NEW S, NEW n \in Nat, NEW f \in [1..n -> S]
    PROVE  f \in Seq(S) /\ Len(f) = n
  OBVIOUS

\* Sequences of the same length with the same elements are the same.
LEMMA SameSeq ==
    ASSUME NEW S, NEW f \in Seq(S), NEW g \in Seq(S), Len(f) = Len(g),
           \A i \in 1..Len(f) : f[i] = g[i]
    PROVE  f = g
  OBVIOUS

\* An element of a sequence is one of its set.
LEMMA ElementOf ==
    ASSUME NEW S, NEW q \in Seq(S), NEW k \in 1..Len(q)
    PROVE  q[k] \in S
  OBVIOUS

\* Where the position before c stands when c is within the first h of n + 1.
LEMMA OneBack ==
    ASSUME NEW c \in Nat, NEW h \in Nat, NEW n \in Nat, c > 1, c <= h, h \in 1..n + 1
    PROVE  /\ c - 1 \in 1..h - 1 /\ c - 1 \in 1..n + 1 /\ c - 1 \in 1..n
           /\ c = c - 1 + 1 /\ c \in 1..h /\ c - 1 \in 1..h
  OBVIOUS

\* Padding to a length a file already has changes nothing.
LEMMA PadNothing ==
    ASSUME NEW S, NEW f \in Seq(S), NEW n \in Nat, NEW b \in S, n <= Len(f)
    PROVE  RecPad(f, n, b) = f
  BY SMT DEF RecPad, Longer

LEMMA PutType ==
    ASSUME NEW S, NEW f \in Seq(S), NEW k \in 1..Len(f) + 1, NEW v \in S
    PROVE  /\ RecPut(f, k, v) \in Seq(S)
           /\ Len(RecPut(f, k, v)) = Longer(Len(f), k)
           /\ \A i \in 1..Longer(Len(f), k) : RecPut(f, k, v)[i] = IF i = k THEN v ELSE f[i]
  BY SMT DEF RecPut, Longer

\* The record put, and those before it.
LEMMA PutAt ==
    ASSUME NEW S, NEW f \in Seq(S), NEW k \in 1..Len(f) + 1, NEW v \in S
    PROVE  RecPut(f, k, v)[k] = v /\ \A i \in 1..k - 1 : RecPut(f, k, v)[i] = f[i]
  BY SMT DEF RecPut, Longer

LEMMA InsertType ==
    ASSUME NEW S, NEW f \in Seq(S), NEW k \in 1..Len(f) + 1, NEW v \in S
    PROVE  /\ RecInsert(f, k, v) \in Seq(S)
           /\ Len(RecInsert(f, k, v)) = Len(f) + 1
           /\ RecInsert(f, k, v)[k] = v
  BY SMT DEF RecInsert

LEMMA DeleteType ==
    ASSUME NEW S, NEW f \in Seq(S), NEW k \in 1..Len(f)
    PROVE  /\ RecDelete(f, k) \in Seq(S)
           /\ Len(RecDelete(f, k)) = Len(f) - 1
  BY SMT DEF RecDelete

\* Deleting an inserted line takes the insertion back.
LEMMA DeleteInserted ==
    ASSUME NEW S, NEW f \in Seq(S), NEW k \in 1..Len(f) + 1, NEW v \in S
    PROVE  /\ RecDelete(RecInsert(f, k, v), k) = f
           /\ k \in 1..Len(RecInsert(f, k, v))
  BY SMT DEF RecDelete, RecInsert

\* Inserting a deleted line takes the deletion back.
LEMMA InsertDeleted ==
    ASSUME NEW S, NEW f \in Seq(S), NEW k \in 1..Len(f)
    PROVE  /\ RecInsert(RecDelete(f, k), k, f[k]) = f
           /\ k \in 1..Len(RecDelete(f, k)) + 1
  BY SMT DEF RecDelete, RecInsert

\* Putting the old text over the new one takes the change back.
LEMMA PutBack ==
    ASSUME NEW S, NEW f \in Seq(S), NEW k \in 1..Len(f), NEW v \in S
    PROVE  /\ RecPut(RecPut(f, k, v), k, f[k]) = f
           /\ k \in 1..Len(RecPut(f, k, v))
  BY SMT DEF RecPut, Longer

\* Putting a line's own text changes nothing.
LEMMA PutSame ==
    ASSUME NEW S, NEW f \in Seq(S), NEW k \in 1..Len(f)
    PROVE  RecPut(f, k, f[k]) = f
  BY SMT DEF RecPut, Longer
=============================================================================
