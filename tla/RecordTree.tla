----------------------------- MODULE RecordTree -----------------------------
(***************************************************************************)
(* A recno file: db/recno over the pages of Btree.  It is opened on the    *)
(* user's file (`src', read as far as a call needs) with a backing file    *)
(* (`disk') that a crash leaves behind, or on a backing file alone when it *)
(* is recovered.  One action is one call of the editor (common/line.c,     *)
(* log.c and recover.c make no others), with the page the pool fails to    *)
(* deliver during it, if any.  Fixed-length records, record cursors,       *)
(* DB_LOCK and files written back by the access method, which the editor   *)
(* never asks for, are left out.                                           *)
(***************************************************************************)
EXTENDS Btree

CONSTANTS
    Lens,         \* the lengths of the records that are written
    Files,        \* the files to open: sequences of lengths
    MaxCalls,     \* bound: calls that change the file
    MaxSyncs,     \* bound: syncs and evictions
    Keys,         \* the record numbers that calls name
    FailAnywhere  \* a page may be missing in any function, not only in a search

VARIABLES
    t,      \* the tree and its pool (see Btree); t.src is what of the user's file is unread
    disk,   \* what the backing file holds of each page
    call,   \* the last call, its record number and its answer
    recs,   \* the records the tree and the unread rest hold now, for the properties
    kept,   \* history: the records as they were at the last sync
    clean,  \* history: nothing was changed since the last sync
    wrote,  \* history: that sync wrote pages and meta data
    failed, \* history: a call that writes has failed
    calls, syncs   \* bounds: what happened so far

vars == <<t, disk, call, recs, kept, clean, wrote, failed, calls, syncs>>

NoCur == [pg |-> Invalid, idx |-> 0]
Empty == [id |-> 0, len |-> 0]

\* An answer: how the call ended, the record and the number it returns.
Answer(status, v, n) == [status |-> status, val |-> v, n |-> n]
Plain(status) == Answer(status, Empty, 0)
Special == Plain("special")
Error == Plain("error")
Ok == Plain("ok")

-----------------------------------------------------------------------------
(* Searching.                                                              *)

\* The child record `recno' is under, when `total' records are left of the page:
\* the last one whatever its count says.
ChildIndex(ents, recno, total) ==
    LET Upto(i) == total + FoldLeft(LAMBDA n, e : n + e.n, 0, SubSeq(ents, 1, i))
    IN  Min({i \in 1..Len(ents) : i = Len(ents) \/ Upto(i) > recno})

Below(ents, i) == FoldLeft(LAMBDA n, e : n + e.n, 0, SubSeq(ents, 1, i - 1))

Step(op) == CASE op = "insert" -> 1 [] op = "delete" -> -1 [] OTHER -> 0

\* The count of entry i of page pg goes up or down.
Counted(u, pg, i, d) == [u EXCEPT !.page[pg].ent[i].n = (@ + d) % CountMod]

\* The error exit of __rec_search: the counts changed on the way are put back.
Recover(u, op) ==
    LET Undo(v, at) == mpool_put(Counted(v, at.pg, at.idx + 1, -Step(op)), at.pg, TRUE)
    IN  IF op = "search" THEN u
        ELSE [FoldRight(LAMBDA at, v : Undo(v, at), u.stack, u) EXCEPT !.stack = <<>>]

RECURSIVE Descend(_, _, _, _, _)
\* Mutant of Visit: the page whose count was changed is put back as it was gotten.
VisitClean(g, pg, total, recno, op) ==
    LET h == g.page[pg]
        i == ChildIndex(h.ent, recno, total)
    IN  IF g.err THEN Recover(g, op)
        ELSE IF h.type = "leaf" THEN [g EXCEPT !.cur = [pg |-> pg, idx |-> recno - total]]
        ELSE Descend(mpool_put(Counted([g EXCEPT !.stack = Append(@, [pg |-> pg, idx |-> i - 1])],
                                       pg, i, Step(op)), pg, FALSE),
                     h.ent[i].pg, total + Below(h.ent, i), recno, op)

\* One level down: the page is gotten (g), and the child put on the stack and counted.
Visit(g, pg, total, recno, op) ==
    LET h == g.page[pg]
        i == ChildIndex(h.ent, recno, total)
    IN  IF g.err THEN Recover(g, op)
        ELSE IF h.type = "leaf" THEN [g EXCEPT !.cur = [pg |-> pg, idx |-> recno - total]]
        ELSE Descend(mpool_put(Counted([g EXCEPT !.stack = Append(@, [pg |-> pg, idx |-> i - 1])],
                                       pg, i, Step(op)),
                               pg, op # "search"),
                     h.ent[i].pg, total + Below(h.ent, i), recno, op)
Descend(u, pg, total, recno, op) == Visit(mpool_get(u, pg), pg, total, recno, op)

__rec_search(u, recno, op) == Descend([u EXCEPT !.stack = <<>>], Root, 0, recno, op)

-----------------------------------------------------------------------------
(* Putting and deleting records.                                           *)

\* __rec_dleaf: the record at an index of a leaf goes, with its overflow chain.
LeftOut(f, pg, idx) ==
    IF f.err THEN f ELSE [f EXCEPT !.page[pg].ent = TakeOut(@, idx), !.nrecs = @ - 1]
__rec_dleaf(u, pg, idx) ==
    LET e == u.page[pg].ent[idx + 1]
    IN  LeftOut(IF e.pg = Invalid THEN [u EXCEPT !.err = FALSE] ELSE __ovfl_delete(u, e), pg, idx)

\* A record more, when nothing failed.
OneMore(u) == IF u.err THEN u ELSE [u EXCEPT !.nrecs = @ + 1]

\* The end of __rec_iput: unless the record that was there could not be taken
\* out, the entry goes on its page, or the page is split for it.
Place(u, pg, idx, e) ==
    IF u.err THEN mpool_put(u, pg, FALSE)
    ELSE IF PageRoom - Used("leaf", u.page[pg].ent) < Bytes("leaf", e)
      THEN OneMore(__bt_split(u, pg, e, idx))
      ELSE OneMore(mpool_put([u EXCEPT !.page[pg].ent = PutIn(@, idx, e),
                                       !.flags = @ \cup {"modified"}], pg, TRUE))

\* An entry for the record numbered nrec from 0, where the search ended; `how'
\* is "put", "after" or "before".  A plain put of a record that is there
\* replaces it.
PutAt(s, nrec, how, e) ==
    LET idx == s.cur.idx + (IF how = "after" THEN 1 ELSE 0)
    IN  IF s.err THEN s
        ELSE Place(IF how = "put" /\ nrec < s.nrecs THEN __rec_dleaf(s, s.cur.pg, idx) ELSE s,
                   s.cur.pg, idx, e)

\* The entry of a record too long for a page refers to its chain (o.chain).
PutEntry(o, nrec, how, v) ==
    IF o.err THEN o
    ELSE PutAt(__rec_search(o, nrec, IF nrec > o.nrecs \/ how # "put" THEN "insert" ELSE "search"),
               nrec, how,
               IF v.len <= OvflSize THEN Record(v)
               ELSE [val |-> [id |-> 0, len |-> v.len], pg |-> o.chain, n |-> 0])

__rec_iput(u, nrec, how, v) ==
    PutEntry(IF v.len <= OvflSize THEN u ELSE __ovfl_put(u, v), nrec, how, v)

\* __rec_vpipe: read records of the user's file until there are `top'.
RECURSIVE __rec_vpipe(_, _)
__rec_vpipe(u, top) ==
    IF u.err \/ u.nrecs >= top THEN u
    ELSE IF u.src = <<>> THEN [u EXCEPT !.flags = @ \cup {"eof"}]
    ELSE __rec_vpipe(__rec_iput([u EXCEPT !.src = Tail(@)], u.nrecs, "put", Head(u.src)), top)

Read(u, top) == IF "eof" \in u.flags \/ u.nrecs >= top THEN u ELSE __rec_vpipe(u, top)

\* __rec_put's empty records, up to the one before record nrec.
RECURSIVE Padded(_, _)
Padded(u, nrec) ==
    IF u.err \/ nrec <= u.nrecs + 1 THEN u
    ELSE Padded(__rec_iput(u, u.nrecs, "put", Empty), nrec)

\* Toss the page pinned across calls, with the fault this call meets.
Enter(fuel) ==
    [t EXCEPT !.pins = @ \ {t.held}, !.held = Invalid, !.fuel = fuel, !.err = FALSE]

\* What the calls leave behind of the fields they work with.
Leave(u) ==
    [u EXCEPT !.stack = <<>>, !.cur = NoCur, !.hole = NoCur, !.got = 0, !.chain = 0,
              !.l = 0, !.r = 0, !.fuel = Never, !.err = FALSE]

\* __rec_put, once R_IAFTER of record 0 is R_IBEFORE of record 1.
Padding(p, nrec, how, v) == IF p.err THEN p ELSE __rec_iput(p, nrec - 1, how, v)
PutRecord(u, nrec, how, v) == Padding(Padded(Read(u, nrec), nrec), nrec, how, v)

\* rec_rdelete: find the record, counting it out on the way, and delete it.
Deleted(d, pg) ==
    IF d.err THEN mpool_put(d, pg, FALSE)
    ELSE mpool_put([d EXCEPT !.flags = @ \cup {"modified"}], pg, TRUE)
DeleteAt(s) == IF s.err THEN s ELSE Deleted(__rec_dleaf(s, s.cur.pg, s.cur.idx), s.cur.pg)
rec_rdelete(u, nrec) == DeleteAt(__rec_search(u, nrec, "delete"))

-----------------------------------------------------------------------------
(* Opening and syncing.                                                    *)

\* __bt_open and nroot on an empty backing file: meta data not yet written, an
\* empty root, which __rec_open makes a record leaf.
NewTree(file) ==
    [page |-> (Meta :> BlankPage) @@ (Root :> [BlankPage EXCEPT !.type = "leaf"]),
     dirty |-> {Meta, Root}, pins |-> {}, npages |-> 2, free |-> Invalid, nrecs |-> 0,
     flags |-> {"metadirty"} \cup (IF file = <<>> THEN {"eof"} ELSE {}),
     held |-> Invalid, src |-> file, stack |-> <<>>, cur |-> NoCur, hole |-> NoCur,
     got |-> 0, chain |-> 0, l |-> 0, r |-> 0, fuel |-> Never, err |-> FALSE]

\* __bt_open on a backing file with pages: free list and number of records are
\* as the meta data says.  There is no user's file to read.
Reopened(d) ==
    [NewTree(<<>>) EXCEPT
        !.page = d, !.dirty = {}, !.npages = Max(DOMAIN d) + 1,
        !.free = d[Meta].ent[1].pg, !.nrecs = d[Meta].ent[1].n, !.flags = {"eof"}]

\* bt_meta: the meta data goes to its page.
bt_meta(u) ==
    mpool_put([u EXCEPT !.page[Meta] =
        [type |-> "meta", prev |-> Invalid, next |-> Invalid, ent |-> <<Child(u.free, u.nrecs)>>]],
      Meta, TRUE)

\* mpool_sync, and mpool_write of each dirty page.
Written(d, u) == [pg \in u.dirty |-> u.page[pg]] @@ d

-----------------------------------------------------------------------------
(* What the tree holds, for the properties.                                *)

\* The leaf pages from the left, no deeper than there are pages.
RECURSIVE Leaves(_, _, _)
Leaves(page, pg, depth) ==
    IF page[pg].type # "internal" \/ depth = 0 THEN <<pg>>
    ELSE FoldLeft(LAMBDA lv, e : lv \o Leaves(page, e.pg, depth - 1), <<>>, page[pg].ent)

\* The entries of the records, in order.
Entries(page) == FoldLeft(LAMBDA es, pg : es \o page[pg].ent, <<>>, Leaves(page, Root, MaxPages))

Value(page, e) == IF e.pg = Invalid THEN e.val ELSE Gathered(page, e)

ValuesOf(page, ents) == [i \in DOMAIN ents |-> Value(page, ents[i])]
RecordsOn(page) == ValuesOf(page, Entries(page))

\* The record a search ended at.
Found(s) == Value(s.page, s.page[s.cur.pg].ent[s.cur.idx + 1])

\* The records of the file: those in the tree and those still to be read.
Contents(u) == RecordsOn(u.page) \o u.src
Seen == recs' = Contents(t')

-----------------------------------------------------------------------------
(* The calls.                                                              *)

\* The height of the tree: how many pages a search gets.
RECURSIVE Height(_, _)
Height(page, pg) ==
    IF page[pg].type # "internal" THEN 1 ELSE 1 + Height(page, page[pg].ent[1].pg)

\* The faults of a call: none, or a page its search does not get, `skip' pages
\* after the first it asks for.  With FailAnywhere any of its first pages.
\* One call that writes fails.
Faults(skip) ==
    {Never} \cup (IF t.src # <<>> \/ failed THEN {}
                  ELSE IF FailAnywhere THEN 0..skip + Height(t.page, Root) + 2
                  ELSE skip..skip + Height(t.page, Root) - 1)

\* The faults of writing v as record k: none among the empty records before it.
WriteFaults(k, v) ==
    IF k > t.nrecs + 1 /\ ~FailAnywhere THEN {Never}
    ELSE Faults(IF v.len > OvflSize THEN Chained(v.len) ELSE 0)

Usable == "panic" \notin t.flags

Answered(op, k, v, ans) == call' = [op |-> op, k |-> k, v |-> v, ans |-> ans]

\* The records of a file whose lengths are f.
SourceRecords(f) == [i \in 1..Len(f) |-> [id |-> i, len |-> f[i]]]

Init ==
    /\ \E f \in Files : t = NewTree(SourceRecords(f))
    /\ recs = t.src
    /\ disk = <<>>
    /\ call = [op |-> "open", k |-> 0, v |-> Empty, ans |-> Ok]
    /\ kept = <<>> /\ clean = FALSE /\ wrote = FALSE /\ failed = FALSE
    /\ calls = 0 /\ syncs = 0

Changes(u) ==
    /\ t' = Leave(u)
    /\ Seen
    /\ clean' = FALSE
    /\ calls' = calls + 1
    /\ failed' = (failed \/ u.err)
    /\ UNCHANGED <<disk, kept, wrote, syncs>>

\* The records a call may write: new ones, told apart by their number.
Fresh == {[id |-> 100 + calls, len |-> n] : n \in Lens}

\* Bounds: records are read before the file has changed, and one of them when
\* the calls that change it have been made (those read their own way in
\* between); a sync and an eviction come before that last read.
Reading == call.op \in {"get", "last"}
MayRead == Usable /\ (calls = 0 \/ (calls = MaxCalls /\ ~Reading))
Settled == syncs < MaxSyncs /\ (calls = 0 \/ ~Reading)

\* __rec_get: the page the record is on stays pinned until the next call.
Get(k) ==
    /\ MayRead /\ k >= 1
    /\ \E f \in Faults(0) : \E u \in {Read(Enter(f), k)} :
         IF u.nrecs < k
           THEN /\ Answered("get", k, Empty, Special)
                /\ t' = Leave(u)
           ELSE \E s \in {__rec_search(u, k - 1, "search")} :
                  /\ Answered("get", k, Empty, IF s.err THEN Error ELSE Answer("ok", Found(s), 0))
                  /\ t' = Leave(IF s.err THEN s ELSE [s EXCEPT !.held = s.cur.pg])
    /\ Seen
    /\ UNCHANGED <<disk, kept, clean, wrote, failed, calls, syncs>>

\* __rec_seq with R_LAST: read everything, and stay on the last record.
Last1 ==
    /\ MayRead
    /\ \E u \in {Read(Enter(Never), MaxPages * PageRoom)} :
         /\ Answered("last", 0, Empty, Answer("ok", Empty, u.nrecs))
         /\ \E s \in {IF u.nrecs = 0 THEN u ELSE __rec_search(u, u.nrecs - 1, "search")} :
               t' = Leave([s EXCEPT !.held = s.cur.pg])
    /\ Seen
    /\ UNCHANGED <<disk, kept, clean, wrote, failed, calls, syncs>>

Write(op, k, how, nrec) ==
    /\ Usable /\ calls < MaxCalls
    /\ \E v \in Fresh : \E f \in WriteFaults(nrec, v) :
       \E u \in {PutRecord(Enter(f), nrec, how, v)} :
         /\ u.npages <= MaxPages
         /\ Answered(op, k, v, IF u.err THEN Error ELSE Ok)
         /\ Changes(u)

Put(k) == k >= 1 /\ Write("put", k, "put", k)
InsertBefore(k) == k >= 1 /\ Write("before", k, "before", k)
\* db_append names a line that is there.
InsertAfter(k) ==
    /\ k <= Len(recs)
    /\ Write("after", k, IF k = 0 THEN "before" ELSE "after", IF k = 0 THEN 1 ELSE k)

\* __rec_delete, of a record that was read: db_delete logs the line first.
Delete(k) ==
    /\ Usable /\ calls < MaxCalls /\ k >= 1
    /\ k <= t.nrecs \/ t.src = <<>>
    /\ IF k > t.nrecs
         THEN /\ Answered("delete", k, Empty, Special)
              /\ t' = Leave(Enter(Never))
              /\ Seen
              /\ UNCHANGED <<disk, kept, clean, wrote, failed, calls, syncs>>
         ELSE \E f \in Faults(0) : \E u \in {rec_rdelete(Enter(f), k - 1)} :
                /\ Answered("delete", k, Empty, IF u.err THEN Error ELSE Ok)
                /\ Changes(u)

\* __rec_sync with R_RECNOSYNC, the way rcv_init and rcv_sync call it: db_last
\* has read the whole file.  __bt_sync writes nothing if nothing is modified.
Sync ==
    /\ Usable /\ Settled /\ t.src = <<>>
    /\ \E u \in {Enter(Never)} : \E m \in {IF "metadirty" \in u.flags THEN bt_meta(u) ELSE u} :
           IF "modified" \notin u.flags
             THEN /\ t' = u /\ disk' = disk
                  /\ wrote' = (wrote /\ clean)
             ELSE /\ t' = [m EXCEPT !.dirty = {}, !.flags = @ \ {"modified"}]
                  /\ disk' = Written(disk, m)
                  /\ wrote' = ("metadirty" \in u.flags)
    /\ Answered("sync", 0, Empty, Ok)
    /\ Seen
    /\ kept' = recs
    /\ clean' = TRUE
    /\ syncs' = syncs + 1
    /\ UNCHANGED <<failed, calls>>

\* The pool makes room: mpool_bkt writes the dirty ones among the pages that
\* are not pinned, forgets them, and mpool_get reads them when they are needed.
Evict ==
    /\ Settled /\ t.dirty \ t.pins # {}
    /\ LET out == (0..t.npages - 1) \ t.pins
           d == Written(disk, [t EXCEPT !.dirty = @ \cap out])
       IN  /\ disk' = d
           /\ t' = [t EXCEPT !.dirty = @ \ out,
                             !.page = [pg \in DOMAIN @ |-> IF pg \in out THEN d[pg] ELSE @[pg]]]
    /\ Seen
    /\ syncs' = syncs + 1
    /\ UNCHANGED <<call, kept, clean, wrote, failed, calls>>

\* The session dies and its backing file is recovered.  Only a file that is
\* whole is: one synced by a sync that wrote it all, and not changed since.
Crash ==
    /\ clean /\ wrote
    /\ t' = Reopened(disk)
    /\ Seen
    /\ Answered("open", 0, Empty, Ok)
    /\ UNCHANGED <<disk, kept, clean, wrote, failed, calls, syncs>>

Next ==
    \/ \E k \in Keys :
          \/ Get(k) \/ Put(k) \/ InsertAfter(k) \/ InsertBefore(k) \/ Delete(k)
    \/ Last1 \/ Sync \/ Evict \/ Crash

Spec == Init /\ [][Next]_vars

-----------------------------------------------------------------------------
(* What must hold of a recno file and of the pages it is kept on.          *)

\* Type invariant.
TypeOK ==
    /\ t.pins \subseteq 0..MaxPages - 1
    /\ t.dirty \subseteq 0..MaxPages - 1
    /\ \A pg \in DOMAIN t.page : t.page[pg].type \in {"none", "meta", "internal", "leaf", "overflow"}
    /\ t.nrecs \in Nat /\ t.npages \in 2..MaxPages

\* Every call does to the records what Records says of it: whatever pages are
\* split, chained, freed, written out and read back, and wherever a search
\* fails, db/btree keeps the sequence of records the editor believes in.
Abstract == INSTANCE Records WITH
    recs <- recs, kept <- kept, call <- call, Keys <- Keys,
    Vals <- {[id |-> 100 + n, len |-> l] : n \in 0..MaxCalls, l \in Lens},
    Blank <- Empty, Starts <- {SourceRecords(f) : f \in Files}

ImplementsRecords == Abstract!Spec

\* The records below the entries of an internal page.
Below1(pg) ==
    FoldLeft(LAMBDA n, lf : n + Len(t.page[lf].ent), 0, Leaves(t.page, pg, MaxPages))

Internal == {pg \in Root..t.npages - 1 : t.page[pg].type = "internal"}

\* The pages of the tree, level by level from the root.
RECURSIVE Under(_, _)
Under(pgs, depth) ==
    LET kids == UNION {{t.page[pg].ent[i].pg : i \in DOMAIN t.page[pg].ent} :
                        pg \in pgs \cap Internal}
    IN  IF depth = 0 \/ kids = {} THEN pgs ELSE pgs \cup Under(kids, depth - 1)

TreePages == Under({Root}, MaxPages)

\* Every count on an internal page is the number of records below, except the
\* one of the last page of each level, which rec_search never looks at: a
\* record appended to the file is not counted (rec_put.c:227).
CountsExact ==
    \A pg \in TreePages \cap Internal : \A i \in DOMAIN t.page[pg].ent :
        \/ t.page[pg].next = Invalid /\ i = Len(t.page[pg].ent)
        \/ t.page[pg].ent[i].n = Below1(t.page[pg].ent[i].pg)

RECURSIVE FreeList(_, _)
FreeList(pg, n) ==
    IF pg = Invalid \/ n = 0 THEN <<>> ELSE <<pg>> \o FreeList(t.page[pg].next, n - 1)

\* The overflow pages records are on.
Chains ==
    FoldLeft(LAMBDA pgs, e : IF e.pg = Invalid THEN pgs ELSE pgs \o ChainOf(t.page, e),
             <<>>, Entries(t.page))

\* A page is used once: in the tree, on the chain of one record, or on the free
\* list.  No delete and no split loses one or uses it twice; only a call that
\* fails may lose the chain it wrote (rec_put.c:209).
EachPageOnce ==
    LET others == Chains \o FreeList(t.free, MaxPages)
        used == TreePages \cup ToSet(others)
    IN  /\ Cardinality(used) = Cardinality(TreePages) + Len(others)
        /\ failed \/ used = Root..t.npages - 1

\* The neighbours on each level are linked both ways and in the order the parents have them.
LeavesLinked ==
    LET lv == Leaves(t.page, Root, MaxPages)
    IN  \A i \in DOMAIN lv :
          /\ t.page[lv[i]].next = (IF i < Len(lv) THEN lv[i + 1] ELSE Invalid)
          /\ t.page[lv[i]].prev = (IF i > 1 THEN lv[i - 1] ELSE Invalid)

\* No split leaves more on a page than there is room for.
PagesHold ==
    \A pg \in TreePages : Used(t.page[pg].type, t.page[pg].ent) <= PageRoom

\* Between calls only the page of the last record looked at is pinned.
PinsReleased == t.pins \subseteq (IF t.held = Invalid THEN {} ELSE {t.held})

\* Together: the file is one tree whose counts, links and pages agree, and no page stays
\* pinned, after every split, chain, delete and failed search (db/btree/bt_split.c,
\* rec_search.c).
TreeSound == CountsExact /\ EachPageOnce /\ LeavesLinked /\ PagesHold /\ PinsReleased

\* :preserve and the sync before a crash: "The current editor buffer is saved as
\* though the system had just crashed" (docs/USD.doc/exref/ex.rm:1064).
SyncedIsOnDisk ==
    clean => /\ DOMAIN disk # {}
             /\ Reopened(disk).nrecs = Len(kept)
             /\ RecordsOn(disk) = kept
=============================================================================
