------------------------------- MODULE Btree -------------------------------
(***************************************************************************)
(* The pages under a recno file: the buffer pool of db/mpool, and the part *)
(* of db/btree a recno tree uses (pages, splits, overflow chains).  A call *)
(* threads a tree `t', the BTREE structure together with its pool, through *)
(* the functions; RecordTree has the calls and the specification.          *)
(*                                                                         *)
(*   page    what the pool holds of each page: its type, its neighbours,   *)
(*           and `ent', its entries in index order                         *)
(*   dirty   the pages put back with MPOOL_DIRTY and not written since     *)
(*   pins    the pages gotten and not put back                             *)
(*   npages, free, nrecs, flags, stack    of MPOOL and BTREE               *)
(*   cur     bt_cur: the page and index a search ends at                   *)
(*   l, r    the halves of the page split last;  got: the page __bt_new    *)
(*           gave;  err: the last function failed                          *)
(*   fuel    the fault of this call: the number of pages the pool still    *)
(*           delivers before it fails to, once (it fails when a dirty page *)
(*           cannot be written to make room), or Never                     *)
(*                                                                         *)
(* An entry is [val, pg, n]: a record on its leaf, or one on the overflow  *)
(* chain that starts at pg (then `val' has its length only), or a child pg *)
(* of an internal page with n records below it, or a part of a record on   *)
(* an overflow page.  How entries are packed on a page is left out: what   *)
(* counts is how much room they take.                                      *)
(***************************************************************************)
EXTENDS Integers, Sequences, SequencesExt, FiniteSets, FiniteSetsExt, TLC

CONSTANTS
    PageRoom,      \* bytes of a page for entries and their indices
    InternalSize,  \* of the entry of a child
    Overhead,      \* of a record on a leaf, beside its bytes
    RefLen,        \* the length of a reference to an overflow chain
    CountMod,      \* counts are u_int32_t: 2^32
    MaxPages       \* bound: pages in the file

Meta == 0     \* P_META
Root == 1     \* P_ROOT
Invalid == 0  \* P_INVALID
Never == -1

NoVal == [id |-> 0, len |-> 0]
BlankPage == [type |-> "none", prev |-> Invalid, next |-> Invalid, ent |-> <<>>]
Child(pg, n) == [val |-> NoVal, pg |-> pg, n |-> n]
Record(v) == [val |-> v, pg |-> Invalid, n |-> 0]

\* bt_ovflsize: longer records go to an overflow chain.
OvflSize == (PageRoom \div 2) - Overhead

\* How many overflow pages a record of n bytes takes.
Chained(n) == (n + PageRoom - 1) \div PageRoom

\* The bytes an entry takes on a page of that type, its index included.
Bytes(type, e) ==
    IF type = "internal" THEN InternalSize
    ELSE Overhead + (IF e.pg = Invalid THEN e.val.len ELSE RefLen)

Used(type, ents) == FoldLeft(LAMBDA n, e : n + Bytes(type, e), 0, ents)

\* A sequence with an entry put at index i, counted from 0, and with it taken out.
PutIn(ents, i, e) == InsertAt(ents, i + 1, e)
TakeOut(ents, i) == RemoveAt(ents, i + 1)

-----------------------------------------------------------------------------
(* The buffer pool.                                                        *)

\* A put without MPOOL_DIRTY leaves the mark as it is.
mpool_put(t, pg, isDirty) ==
    [t EXCEPT !.pins = @ \ {pg},
              !.dirty = IF isDirty THEN @ \cup {pg} ELSE @]

mpool_get(t, pg) ==
    IF t.fuel = 0 THEN [t EXCEPT !.fuel = Never, !.err = TRUE]
    ELSE [t EXCEPT !.fuel = IF @ = Never THEN Never ELSE @ - 1,
                   !.pins = @ \cup {pg}, !.err = FALSE]

\* A page at the end of the file, when the pool could make room for it.
Grown(g) ==
    IF g.err THEN g
    ELSE [g EXCEPT !.npages = @ + 1, !.got = g.npages, !.page = @ @@ (g.npages :> BlankPage)]

mpool_new(t) == Grown(mpool_get(t, t.npages))

\* The first page of the free list, gotten.
Unlisted(g) ==
    IF g.err THEN mpool_new(g)
    ELSE [g EXCEPT !.got = g.free, !.free = g.page[g.free].next, !.flags = @ \cup {"metadirty"}]

\* A page from the free list, else a new one.
__bt_new(t) == IF t.free = Invalid THEN mpool_new(t) ELSE Unlisted(mpool_get(t, t.free))

__bt_free(t, pg) ==
    mpool_put([t EXCEPT !.page[pg].prev = Invalid, !.page[pg].next = t.free,
                        !.free = pg, !.flags = @ \cup {"metadirty"}], pg, TRUE)

-----------------------------------------------------------------------------
(* Overflow chains.                                                        *)

\* The part i of record v.
Part(v, i) == [val |-> v, pg |-> Invalid, n |-> i]

\* __ovfl_put: parts i.. of v, each page (g.got) chained to the one before (`last').
RECURSIVE OvflParts(_, _, _, _)
Linked(g, last) ==
    IF last = Invalid THEN [g EXCEPT !.chain = g.got]
    ELSE mpool_put([g EXCEPT !.page[last].next = g.got], last, TRUE)
OvflPart(g, v, i) ==
    LET w == [g EXCEPT !.page[g.got] = [type |-> "overflow", prev |-> Invalid, next |-> Invalid,
                                        ent |-> <<Part(v, i)>>]]
    IN  IF i = Chained(v.len) THEN mpool_put(w, g.got, TRUE)
        ELSE OvflParts(w, v, i + 1, g.got)
Chaining(g, v, i, last) == IF g.err THEN g ELSE OvflPart(Linked(g, last), v, i)
OvflParts(t, v, i, last) == Chaining(__bt_new(t), v, i, last)

__ovfl_put(t, v) == OvflParts(t, v, 1, Invalid)

\* The page numbers of a chain of n pages.
RECURSIVE Chain(_, _, _)
Chain(page, pg, n) ==
    IF n = 0 THEN <<>> ELSE <<pg>> \o Chain(page, page[pg].next, n - 1)

ChainOf(page, e) == Chain(page, e.pg, Chained(e.val.len))

\* __ovfl_get: the record the chain of e holds; NoVal when it is not one's parts.
Gathered(page, e) ==
    LET pgs == ChainOf(page, e)
        first == page[e.pg].ent[1].val
    IN  IF \A i \in 1..Len(pgs) : page[pgs[i]].ent = <<Part(first, i)>>
          THEN first ELSE NoVal

\* __ovfl_delete: every page of the chain goes to the free list.
__ovfl_delete(t, e) ==
    LET FreeOne(u, pg) ==
            LET g == mpool_get(u, pg) IN IF u.err \/ g.err THEN g ELSE __bt_free(g, pg)
    IN  FoldLeft(FreeOne, [t EXCEPT !.err = FALSE], ChainOf(t.page, e))

-----------------------------------------------------------------------------
(* Splitting.                                                              *)

\* rec_total and NEXTINDEX: the records below a page, by its own counts.
Total(h) ==
    IF h.type = "internal" THEN FoldLeft(LAMBDA n, e : n + e.n, 0, h.ent) % CountMod
    ELSE Len(h.ent)

\* bt_psplit's loop, as the number of entries the left page gets, the new one
\* (all[skip], counted from 0) included: go on until the left page is half
\* full, but stop before the last entry of the old page, and before one that
\* does not fit once the new one is on the left.
LeftCount(type, all, skip) ==
    LET top == Len(all) - 1
        Size(i) == Bytes(type, all[i + 1])
        Before(i) == Used(type, SubSeq(all, 1, i))
        Nxt(i) == IF i <= skip THEN i ELSE i - 1
        TooFar(i) == \/ skip <= i /\ Before(i) + Size(i) >= PageRoom
                     \/ Nxt(i) = top - 1
        HalfFull(i) == Before(i) + Size(i) >= PageRoom \div 2
        stop == Min({i \in 0..top : TooFar(i) \/ HalfFull(i)})
    IN  IF TooFar(stop) THEN stop ELSE stop + 1

\* bt_psplit, and the new entry put at the index it leaves open.
bt_psplit(t, h, l, r, skip, e) ==
    LET all == PutIn(h.ent, skip, e)
        n == LeftCount(h.type, all, skip)
    IN  [t EXCEPT !.page[l].ent = SubSeq(all, 1, n),
                  !.page[r].ent = SubSeq(all, n + 1, Len(all)),
                  !.l = l, !.r = r,
                  !.hole = IF skip < n THEN [pg |-> l, idx |-> skip]
                           ELSE [pg |-> r, idx |-> skip - n]]

\* bt_root: the entries of the root go to two new pages.
RightOfRoot(b, left, skip, e) ==
    LET h == b.page[Root]
        Half(prev, next) == [type |-> h.type, prev |-> prev, next |-> next, ent |-> <<>>]
    IN  IF b.err THEN b
        ELSE bt_psplit([b EXCEPT !.page[left] = Half(Invalid, b.got), !.page[b.got] = Half(left, Invalid)],
                       h, left, b.got, skip, e)
LeftOfRoot(a, skip, e) == IF a.err THEN a ELSE RightOfRoot(__bt_new(a), a.got, skip, e)
bt_root(t, skip, e) == LeftOfRoot(__bt_new(t), skip, e)

\* bt_page's right page (g.got), and the page after the old one that must point back to it.
PointBack(g, next) ==
    IF g.err THEN g ELSE mpool_put([g EXCEPT !.page[next].prev = g.got], next, TRUE)

BesidePage(a, pg) ==
    LET h == a.page[pg]
        placed == [a EXCEPT !.page[a.got] = [type |-> h.type, prev |-> pg, next |-> h.next, ent |-> <<>>]]
    IN  IF h.next = Invalid THEN placed ELSE PointBack(mpool_get(placed, h.next), h.next)

\* An entry after the last one of the last page of a level starts a page of its
\* own; otherwise the old page keeps the left part.
Appended(a, pg, e) ==
    [a EXCEPT !.page[a.got] = [type |-> a.page[pg].type, prev |-> pg, next |-> Invalid, ent |-> <<e>>],
              !.page[pg].next = a.got,
              !.l = pg, !.r = a.got, !.hole = [pg |-> a.got, idx |-> 0]]
Shared(b, pg, skip, e) ==
    IF b.err THEN b
    ELSE bt_psplit([b EXCEPT !.page[pg].next = b.got], b.page[pg], pg, b.got, skip, e)
WithRight(a, pg, skip, e) ==
    LET h == a.page[pg]
    IN  IF a.err THEN a
        ELSE IF h.next = Invalid /\ skip = Len(h.ent) THEN Appended(a, pg, e)
        ELSE Shared(BesidePage(a, pg), pg, skip, e)
bt_page(t, pg, skip, e) == WithRight(__bt_new(t), pg, skip, e)

SplitPage(t, pg, skip, e) ==
    IF pg = Root THEN bt_root(t, skip, e) ELSE bt_page(t, pg, skip, e)

\* bt_rroot: the root becomes the internal page over its two halves.
bt_rroot(t) ==
    mpool_put([t EXCEPT !.page[Root] =
        [type |-> "internal", prev |-> Invalid, next |-> Invalid,
         ent |-> <<Child(t.l, Total(t.page[t.l])), Child(t.r, Total(t.page[t.r]))>>]],
      Root, TRUE)

RootDone(t, pg) == IF pg = Root THEN bt_rroot(t) ELSE t

Release(t, pgs, isDirty) == FoldSet(LAMBDA pg, u : mpool_put(u, pg, isDirty), t, pgs)

\* __dbpanic, the way out of a split that failed half way up.
Panic(t, pgs) == [Release(t, pgs, FALSE) EXCEPT !.flags = @ \cup {"panic"}, !.err = TRUE]

\* Mutant of TellLeft: only an entry on the same page is told.
TellLeftHere(t, at, lc) ==
    IF at.idx > 0 THEN [t EXCEPT !.page[at.pg].ent[at.idx] = Child(lc, Total(t.page[lc]))] ELSE t

\* The entry left of the new one is told how many records its page has now: it
\* is the one before on the same page, or the last one of the left page.
TellLeft(t, at, lc) ==
    LET where == IF at.idx > 0 THEN at
                 ELSE [pg |-> t.l, idx |-> Len(t.page[t.l].ent)]
    IN  [t EXCEPT !.page[where.pg].ent[where.idx] = Child(lc, Total(t.page[lc]))]

\* The loop of __bt_split: the parent of the pages lc and rc that came of a
\* split gets an entry for rc after the one for lc, splitting in turn when it
\* has no room for it.
RECURSIVE TellParents(_)
ParentSplit(s, up, l, r) ==
    IF s.err THEN Panic(s, {l, r})
    ELSE TellParents(Release(RootDone(TellLeft(s, s.hole, l), up), {l, r}, TRUE))
TellParent(g, up) ==
    LET e == Child(g.r, Total(g.page[g.r]))
        skip == up.idx + 1
        room == PageRoom - Used("internal", g.page[up.pg].ent) >= InternalSize
    IN  IF g.err THEN Panic(g, {g.l, g.r})
        ELSE IF room
          THEN Release(TellLeft([g EXCEPT !.page[up.pg].ent = PutIn(@, skip, e)],
                                [pg |-> up.pg, idx |-> skip], g.l),
                       {up.pg, g.l, g.r}, TRUE)
        ELSE ParentSplit(SplitPage(g, up.pg, skip, e), up.pg, g.l, g.r)
TellParents(t) ==
    IF t.stack = <<>> THEN Release(t, {t.l, t.r}, TRUE)
    ELSE TellParent(mpool_get([t EXCEPT !.stack = Front(@)], Last(t.stack).pg), Last(t.stack))

SplitDone(s, pg) == IF s.err THEN s ELSE TellParents(RootDone(s, pg))
__bt_split(t, pg, e, idx) == SplitDone(SplitPage(t, pg, idx, e), pg)

=============================================================================
