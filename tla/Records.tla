------------------------------ MODULE Records ------------------------------
(***************************************************************************)
(* What a recno file promises the editor, with nothing of how it is kept:  *)
(* a sequence of records, each call answered at once, a call that fails    *)
(* changing nothing, and after a crash the records as they were synced.    *)
(* `call' is the last call and its answer.  The detailed specification is  *)
(* RecordTree.                                                             *)
(***************************************************************************)
EXTENDS Recno

CONSTANTS
    Keys,     \* the record numbers calls name
    Vals,     \* the records calls write
    Blank,    \* the empty record
    Starts    \* the files a session may start with

VARIABLES
    recs,   \* the records of the file
    kept,   \* the records as the last sync left them, <<>> before one
    call    \* the last call: its name, its record number, its answer

recordVars == <<recs, kept, call>>

\* An answer: how the call ended, the record and the number it returns.
Answer(status, v, n) == [status |-> status, val |-> v, n |-> n]
Plain(status) == Answer(status, Blank, 0)

\* The call `op' of record k, with the record v it writes, was answered with `ans'.
Called(op, k, v, ans) ==
    /\ call'.op = op /\ call'.k = k /\ call'.v = v
    /\ call' = [op |-> op, k |-> k, v |-> v, ans |-> ans]

Init ==
    /\ recs \in Starts
    /\ kept = <<>>
    /\ call = [op |-> "open", k |-> 0, v |-> Blank, ans |-> Plain("ok")]

Get(k) ==
    /\ Called("get", k, Blank, IF k <= Len(recs) THEN Answer("ok", recs[k], 0) ELSE Plain("special"))
    /\ UNCHANGED <<recs, kept>>

Last ==
    /\ Called("last", 0, Blank, Answer("ok", Blank, Len(recs)))
    /\ UNCHANGED <<recs, kept>>

Put(k, v) ==
    /\ Called("put", k, v, Plain("ok"))
    /\ recs' = RecPut(RecPad(recs, k - 1, Blank), k, v)
    /\ UNCHANGED kept

InsertAfter(k, v) ==
    /\ Called("after", k, v, Plain("ok"))
    /\ k <= Len(recs)
    /\ recs' = RecInsert(recs, k + 1, v)
    /\ UNCHANGED kept

InsertBefore(k, v) ==
    /\ Called("before", k, v, Plain("ok"))
    /\ recs' = RecInsert(RecPad(recs, k - 1, Blank), k, v)
    /\ UNCHANGED kept

Delete(k) ==
    /\ IF k <= Len(recs)
         THEN /\ Called("delete", k, Blank, Plain("ok"))
              /\ recs' = RecDelete(recs, k)
         ELSE /\ Called("delete", k, Blank, Plain("special"))
              /\ recs' = recs
    /\ UNCHANGED kept

Fails ==
    /\ call'.ans = Plain("error")
    /\ \E op \in {"get", "put", "after", "before", "delete"}, k \in Keys, v \in Vals \cup {Blank} :
          Called(op, k, v, Plain("error"))
    /\ UNCHANGED <<recs, kept>>

Sync ==
    /\ Called("sync", 0, Blank, Plain("ok"))
    /\ kept' = recs
    /\ UNCHANGED recs

Crash ==
    /\ Called("open", 0, Blank, Plain("ok"))
    /\ recs' = kept
    /\ UNCHANGED kept

Next ==
    \/ \E k \in Keys \ {0} : Get(k) \/ Delete(k)
    \/ \E k \in Keys, v \in Vals :
          Put(k, v) \/ InsertAfter(k, v) \/ InsertBefore(k, v)
    \/ Last \/ Fails \/ Sync \/ Crash

Spec == Init /\ [][Next]_recordVars

=============================================================================
