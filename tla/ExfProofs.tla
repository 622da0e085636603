----------------------------- MODULE ExfProofs -----------------------------
(* The theorems about the shared file state of Exf: types, the cache of the *)
(* last line, then the change log, undo and the marks.                      *)
EXTENDS ExfProps, RecnoProofs

-----------------------------------------------------------------------------
(* Types of the operators the actions are made of. *)

LEMMA LineType ==
    ASSUME NEW f \in Seq(Text), NEW k \in 1..Len(f)
    PROVE  f[k] \in Text
  OBVIOUS

LEMMA PadType ==
    ASSUME NEW f \in Seq(Text), NEW n \in Nat
    PROVE  /\ RecPad(f, n, Blank) \in Seq(Text)
           /\ Len(RecPad(f, n, Blank)) = Longer(Len(f), n)
  BY TextAssumption, SMT DEF RecPad, Longer

LEMMA FlushedType ==
    ASSUME NEW c \in CacheType
    PROVE  /\ Flushed(c) \in CacheType
           /\ Flushed(c).lno = OOBLNO /\ Flushed(c).nlines = c.nlines
  BY TextAssumption, SMT DEF CacheType, Flushed, Holding, OOBLNO

LEMMA GetType ==
    ASSUME NEW c \in CacheType, NEW f \in Seq(Text), NEW k \in Nat
    PROVE  /\ Get(c, f, k).ok \in BOOLEAN
           /\ Get(c, f, k).text \in Text
           /\ Get(c, f, k).cache \in CacheType
           /\ Get(c, f, k).cache.nlines = c.nlines
  BY TextAssumption, SMT DEF CacheType, Get, Flushed, Holding, OOBLNO

LEMMA GetNoCacheType ==
    ASSUME NEW c \in CacheType, NEW f \in Seq(Text), NEW k \in Nat
    PROVE  /\ GetNoCache(c, f, k).text \in Text
           /\ GetNoCache(c, f, k).cache \in CacheType
           /\ GetNoCache(c, f, k).cache.nlines = c.nlines
  BY TextAssumption, SMT DEF CacheType, GetNoCache, Holding

LEMMA LastType ==
    ASSUME NEW c \in CacheType, NEW f \in Seq(Text)
    PROVE  /\ Last(c, f).n \in Nat
           /\ Last(c, f).cache \in CacheType
           /\ Last(c, f).cache.nlines \in {c.nlines, Len(f)}
           /\ c.nlines # OOBLNO => Last(c, f).cache.nlines = c.nlines
  BY SMT DEF CacheType, Last, OOBLNO

LEMMA FirstModifyType ==
    ASSUME NEW c \in CacheType, NEW f \in Seq(Text)
    PROVE  /\ FirstModify(c, f) \in CacheType
           /\ FirstModify(c, f).nlines \in {c.nlines, Len(f)}
           /\ c.nlines # OOBLNO => FirstModify(c, f).nlines = c.nlines
  BY LastType DEF FirstModify

LEMMA OnlyLineType ==
    ASSUME NEW c \in CacheType, NEW f \in Seq(Text)
    PROVE  /\ OnlyLineCache(c, f) \in CacheType
           /\ OnlyLineCache(c, f).nlines \in {c.nlines, Len(f)}
           /\ c.nlines # OOBLNO => OnlyLineCache(c, f).nlines = c.nlines
  <1>1. Exist(c, f, 2).cache \in CacheType /\ Exist(c, f, 2).cache.nlines = c.nlines
    BY GetType DEF Exist
  <1> QED BY <1>1, LastType DEF OnlyLineCache

LEMMA RecordTypes ==
    ASSUME NEW k \in Nat \ {0}, NEW t \in Text, NEW ms \in SUBSET MarkName
    PROVE  /\ \A op \in Ops : LineRec(op, k, t) \in Record
           /\ \A op \in Ops : CursorRec(op, k) \in Record
           /\ MarkRec(k, ms) \in Record
  BY TextAssumption, SMT DEF LineRec, CursorRec, MarkRec, Record, Ops

LEMMA LogInitType ==
    ASSUME NEW f \in Seq(Text)
    PROVE  LogOK(LogInit(f))
  BY SMT DEF LogInit, LogOK, LogType

LEMMA LogPutType ==
    ASSUME NEW L, LogOK(L), NEW r \in Record, NEW g \in Seq(Text)
    PROVE  /\ LogOK(LogPut(L, r, g))
           /\ LogPut(L, r, g).cur = L.cur + 1
           /\ LogPut(L, r, g).high = L.cur + 1
           /\ LogPut(L, r, g).cursor = L.cursor
  <1> DEFINE P == LogPut(L, r, g)
  <1>1. /\ L.rec \in Seq(Record) /\ L.snap \in Seq(Seq(Text))
        /\ L.cur \in 1..Len(L.rec) + 1 /\ L.high \in 1..Len(L.rec) + 1
        /\ L.cursor \in Nat /\ Len(L.snap) = L.high
    BY DEF LogOK, LogType
  <1>2. P.rec \in Seq(Record) /\ Len(P.rec) = Longer(Len(L.rec), L.cur)
    BY <1>1, PutType DEF LogPut
  <1>3. P.snap \in Seq(Seq(Text)) /\ Len(P.snap) = L.cur + 1
    <2> DEFINE snap(i) == IF i <= L.cur /\ i <= L.high THEN L.snap[i] ELSE g
    <2>1. P.snap = [i \in 1..L.cur + 1 |-> snap(i)]
      BY DEF LogPut
    <2>2. \A i \in 1..L.cur + 1 : snap(i) \in Seq(Text)
      <3> TAKE i \in 1..L.cur + 1
      <3>1. CASE i <= L.cur /\ i <= L.high
        <4>1. i \in 1..Len(L.snap)
          BY <1>1, <3>1
        <4> QED BY <1>1, <3>1, <4>1
      <3> QED BY <3>1
    <2>3. L.cur + 1 \in Nat
      BY <1>1
    <2>4. P.snap \in [1..L.cur + 1 -> Seq(Text)]
      <3> HIDE DEF snap
      <3> QED BY <2>1, <2>2, Zenon
    <2> DEFINE Q == P.snap
    <2>5. Q \in [1..L.cur + 1 -> Seq(Text)]
      BY <2>4, Zenon
    <2> HIDE DEF Q
    <2>6. Q \in Seq(Seq(Text)) /\ Len(Q) = L.cur + 1
      BY <2>3, <2>5, FcnIsSeq, Zenon
    <2> QED BY <2>6, Zenon DEF Q
  <1>4. P = [rec |-> P.rec, snap |-> P.snap, cur |-> L.cur + 1, high |-> L.cur + 1,
             cursor |-> L.cursor]
    BY DEF LogPut
  <1> HIDE DEF P
  <1>5. L.cur + 1 \in Nat /\ L.cur + 1 \in 1..Len(P.rec) + 1
    BY <1>1, <1>2, SMT DEF Longer
  <1> QED BY <1>1, <1>2, <1>3, <1>4, <1>5, SMT DEF LogOK, LogType, P

LEMMA LogCursorSet ==
    ASSUME NEW L, LogOK(L), NEW c \in Nat
    PROVE  /\ LogOK([L EXCEPT !.cursor = c])
           /\ [L EXCEPT !.cursor = c].cursor = c
           /\ [L EXCEPT !.cursor = c].rec = L.rec
           /\ [L EXCEPT !.cursor = c].snap = L.snap
           /\ [L EXCEPT !.cursor = c].cur = L.cur
           /\ [L EXCEPT !.cursor = c].high = L.high
  <1> DEFINE M == [L EXCEPT !.cursor = c]
  <1>1. L \in LogType /\ c \in Nat
    BY SMT DEF LogOK, LogType
  <1>2. /\ M \in LogType /\ M.cursor = c
        /\ M.rec = L.rec /\ M.snap = L.snap /\ M.cur = L.cur /\ M.high = L.high
    BY <1>1 DEF LogType
  <1> HIDE DEF M
  <1>3. LogOK(M)
    BY <1>2 DEF LogOK
  <1> QED BY <1>2, <1>3 DEF M

LEMMA LogCurSet ==
    ASSUME NEW L, LogOK(L), NEW c \in 1..Len(L.rec) + 1
    PROVE  /\ LogOK([L EXCEPT !.cur = c])
           /\ [L EXCEPT !.cur = c].cur = c
           /\ [L EXCEPT !.cur = c].rec = L.rec
           /\ [L EXCEPT !.cur = c].snap = L.snap
           /\ [L EXCEPT !.cur = c].high = L.high
           /\ [L EXCEPT !.cur = c].cursor = L.cursor
  <1> DEFINE M == [L EXCEPT !.cur = c]
  <1>1. L \in LogType /\ c \in Nat
    BY SMT DEF LogOK, LogType
  <1>2. /\ M \in LogType /\ M.cur = c
        /\ M.rec = L.rec /\ M.snap = L.snap /\ M.high = L.high /\ M.cursor = L.cursor
    BY <1>1 DEF LogType
  <1> HIDE DEF M
  <1>3. LogOK(M)
    BY <1>2 DEF LogOK
  <1> QED BY <1>2, <1>3 DEF M

LEMMA LogStartType ==
    ASSUME NEW L, LogOK(L), NEW f \in Seq(Text)
    PROVE  LogOK(LogStart(L, f)) /\ LogStart(L, f).cursor = OOBLNO
  <1>1. CASE L.cursor = OOBLNO
    BY <1>1 DEF LogStart
  <1>2. CASE L.cursor # OOBLNO
    <2> DEFINE P == LogPut(L, CursorRec("INIT", L.cursor), f)
    <2>1. L.cursor \in Nat \ {0}
      BY <1>2 DEF LogOK, LogType, OOBLNO
    <2>2. CursorRec("INIT", L.cursor) \in Record
      BY <2>1, TextAssumption, RecordTypes DEF Ops
    <2>3. LogOK(P)
      BY <2>2, LogPutType
    <2> HIDE DEF P
    <2>4. LogOK([P EXCEPT !.cursor = OOBLNO]) /\ [P EXCEPT !.cursor = OOBLNO].cursor = OOBLNO
      BY <2>3, LogCursorSet DEF OOBLNO
    <2> QED BY <1>2, <2>4 DEF LogStart, P
  <1> QED BY <1>1, <1>2

LEMMA LogChangeType ==
    ASSUME NEW L, LogOK(L), NEW r \in Record, NEW f \in Seq(Text), NEW g \in Seq(Text)
    PROVE  LogOK(LogChange(L, r, f, g))
  BY LogStartType, LogPutType DEF LogChange

LEMMA MarkTypes ==
    ASSUME NEW ms \in [MarkName -> MarkType], NEW k \in Nat \ {0}
    PROVE  /\ MarksDelete(ms, k) \in [MarkName -> MarkType]
           /\ MarksInsert(ms, k) \in [MarkName -> MarkType]
           /\ \A names \in SUBSET MarkName, user \in BOOLEAN :
                 MarkSet(ms, names, k, user) \in [MarkName -> MarkType]
           /\ MarksOn(ms, k) \in SUBSET MarkName
  <1>1. \A m \in MarkName : ms[m] \in MarkType
    OBVIOUS
  <1>2. MarksOn(ms, k) \in SUBSET MarkName
    BY DEF MarksOn
  <1>3. MarksDelete(ms, k) \in [MarkName -> MarkType]
    <2>1. \A m \in MarkName :
             /\ [ms[m] EXCEPT !.st = "deleted"] \in MarkType
             /\ ms[m].lno > k => [ms[m] EXCEPT !.lno = @ - 1] \in MarkType
      BY <1>1, SMT DEF MarkType
    <2> QED BY <1>1, <2>1 DEF MarksDelete
  <1>4. MarksInsert(ms, k) \in [MarkName -> MarkType]
    <2>1. \A m \in MarkName : [ms[m] EXCEPT !.lno = @ + 1] \in MarkType
      BY <1>1, SMT DEF MarkType
    <2> QED BY <1>1, <2>1 DEF MarksInsert
  <1>5. ASSUME NEW names \in SUBSET MarkName, NEW user \in BOOLEAN
        PROVE  MarkSet(ms, names, k, user) \in [MarkName -> MarkType]
    <2>1. [st |-> "live", lno |-> k, user |-> user] \in MarkType
      BY DEF MarkType
    <2> QED BY <1>1, <2>1 DEF MarkSet
  <1> QED BY <1>2, <1>3, <1>4, <1>5

-----------------------------------------------------------------------------
(* The four line operations keep the types, from any position of the log. *)

OpType ==
    /\ file' \in Seq(Text)
    /\ cache' \in CacheType
    /\ LogOK(lg')
    /\ marks' \in [MarkName -> MarkType]
    /\ quirks' \in SUBSET Quirk

LEMMA QuirkType ==
    ASSUME NEW Q \in SUBSET Quirk
    PROVE  /\ Q \cup StartQuirk \in SUBSET Quirk
           /\ Q \cup {"stale"} \in SUBSET Quirk /\ Q \cup {"empty"} \in SUBSET Quirk
           /\ Q \cup {"map"} \in SUBSET Quirk /\ Q \cup {"setline"} \in SUBSET Quirk
  BY DEF StartQuirk, Quirk

LEMMA DbDeleteType ==
    ASSUME TypeOK, NEW k, NEW L, LogOK(L), DbDelete(k, L)
    PROVE  OpType
  <1> DEFINE dead  == MarksOn(marks, k)
             seen  == Get(cache, file, k)
             after == RecDelete(file, k)
             L1    == IF dead = {} THEN L ELSE LogChange(L, MarkRec(k, dead), file, file)
             c1    == IF nolog THEN cache ELSE seen.cache
             c0    == IF k <= c1.lno THEN Flushed(c1) ELSE c1
             c2    == [c0 EXCEPT !.nlines = IF @ = OOBLNO THEN @ ELSE @ - 1]
  <1>1. /\ file \in Seq(Text) /\ cache \in CacheType /\ quirks \in SUBSET Quirk
        /\ marks \in [MarkName -> MarkType]
    BY DEF TypeOK
  <1>2. k \in 1..Len(file) /\ k \in Nat \ {0}
    BY <1>1 DEF DbDelete
  <1>3. after \in Seq(Text)
    BY <1>1, <1>2, DeleteType
  <1>4. seen.text \in Text /\ seen.cache \in CacheType
    BY <1>1, <1>2, GetType
  <1>5. dead \in SUBSET MarkName /\ MarksDelete(marks, k) \in [MarkName -> MarkType]
    BY <1>1, <1>2, MarkTypes
  <1>6. LogOK(L1)
    <2>1. MarkRec(k, dead) \in Record
      BY <1>2, <1>5, TextAssumption, RecordTypes
    <2> QED BY <1>1, <2>1, LogChangeType
  <1>7. LogOK(LogChange(L1, LineRec("DELETE", k, seen.text), file, after))
    <2>1. LineRec("DELETE", k, seen.text) \in Record
      BY <1>2, <1>4, RecordTypes DEF Ops
    <2> QED BY <1>1, <1>3, <1>6, <2>1, LogChangeType
  <1>8. c2 \in CacheType
    <2>1. c0 \in CacheType
      BY <1>1, <1>4, FlushedType
    <2> HIDE DEF c0
    <2> QED BY <2>1, SMT DEF CacheType, OOBLNO
  <1>9. FirstModify(c2, after) \in CacheType
    BY <1>3, <1>8, FirstModifyType
  <1>10. /\ file' = after
         /\ marks' = MarksDelete(marks, k)
         /\ lg' = IF nolog THEN L ELSE LogChange(L1, LineRec("DELETE", k, seen.text), file, after)
         /\ cache' = FirstModify(c2, after)
         /\ quirks' = quirks \cup StartQuirk
                        \cup (IF ~nolog /\ seen.text # file[k] THEN {"stale"} ELSE {})
    BY DEF DbDelete
  <1>11. quirks' \in SUBSET Quirk
    BY <1>1, <1>10, QuirkType
  <1> HIDE DEF after, L1, c2, seen
  <1> QED BY <1>3, <1>5, <1>7, <1>9, <1>10, <1>11 DEF OpType

LEMMA AddLineType ==
    ASSUME TypeOK, NEW op \in Added, NEW k \in Nat \ {0}, NEW t \in Text,
           NEW keep \in BOOLEAN, NEW L, LogOK(L), AddLine(op, k, t, keep, L)
    PROVE  OpType
  <1> DEFINE pad   == RecPad(file, k - 1, Blank)
             after == RecInsert(pad, k, t)
             c0    == IF keep THEN cache ELSE Flushed(cache)
             c1    == [c0 EXCEPT !.nlines = IF @ = OOBLNO THEN @ ELSE @ + 1]
             c2    == FirstModify(c1, after)
             seen  == Get(c2, after, k)
             c3    == IF nolog THEN c2 ELSE seen.cache
             new   == LogChange(L, LineRec(op, k, seen.text), file, after)
  <1>1. /\ file \in Seq(Text) /\ cache \in CacheType /\ quirks \in SUBSET Quirk
        /\ marks \in [MarkName -> MarkType]
    BY DEF TypeOK
  <1>2. after \in Seq(Text)
    <2>1. k - 1 \in Nat
      OBVIOUS
    <2>2. pad \in Seq(Text) /\ k \in 1..Len(pad) + 1
      BY <1>1, <2>1, PadType, SMT DEF Longer
    <2> HIDE DEF pad
    <2> QED BY <2>2, InsertType
  <1>3. c1 \in CacheType
    <2>1. c0 \in CacheType
      BY <1>1, FlushedType
    <2> HIDE DEF c0
    <2> QED BY <2>1, SMT DEF CacheType, OOBLNO
  <1> HIDE DEF after, c1
  <1>4. c2 \in CacheType
    BY <1>2, <1>3, FirstModifyType
  <1> HIDE DEF c2
  <1>5. seen.text \in Text /\ c3 \in CacheType
    BY <1>2, <1>4, GetType
  <1>6. LogOK(new)
    <2>1. LineRec(op, k, seen.text) \in Record
      BY <1>5, RecordTypes DEF Ops, Added
    <2> QED BY <1>1, <1>2, <2>1, LogChangeType
  <1> HIDE DEF seen, c3
  <1>7. OnlyLineCache(c3, after) \in CacheType
    BY <1>2, <1>5, OnlyLineType
  <1>8. MarksInsert(marks, k) \in [MarkName -> MarkType]
    BY <1>1, MarkTypes
  <1>9. /\ file' = after
        /\ lg' = IF nolog THEN L ELSE new
        /\ cache' = OnlyLineCache(c3, after)
        /\ marks' = IF OnlyLine(c3, after) THEN marks ELSE MarksInsert(marks, k)
        /\ quirks' = quirks \cup StartQuirk
    BY DEF AddLine, after, c1, c2, seen, c3
  <1>10. quirks' \in SUBSET Quirk
    BY <1>1, <1>9, QuirkType
  <1> HIDE DEF new
  <1> QED BY <1>1, <1>2, <1>6, <1>7, <1>8, <1>9, <1>10 DEF OpType

LEMMA DbSetType ==
    ASSUME TypeOK, NEW k \in Nat \ {0}, NEW t \in Text, NEW L, LogOK(L), DbSet(k, t, L)
    PROVE  OpType
  <1> DEFINE old   == GetNoCache(cache, file, k)
             pad   == RecPad(file, k - 1, Blank)
             after == RecPut(pad, k, t)
             c1    == IF nolog THEN cache ELSE old.cache
             c2    == IF c1.lno = k THEN Flushed(c1) ELSE c1
             c3    == FirstModify(c2, after)
             seen  == Get(c3, after, k)
             L1    == LogChange(L, LineRec("RESET_B", k, old.text), file, file)
             new   == LogChange(L1, LineRec("RESET_F", k, seen.text), file, after)
  <1>1. /\ file \in Seq(Text) /\ cache \in CacheType /\ quirks \in SUBSET Quirk
        /\ marks \in [MarkName -> MarkType]
    BY DEF TypeOK
  <1>2. after \in Seq(Text)
    <2>1. k - 1 \in Nat
      OBVIOUS
    <2>2. pad \in Seq(Text) /\ k \in 1..Len(pad) + 1
      BY <1>1, <2>1, PadType, SMT DEF Longer
    <2> HIDE DEF pad
    <2> QED BY <2>2, PutType
  <1>3. old.text \in Text /\ c1 \in CacheType
    BY <1>1, GetNoCacheType
  <1> HIDE DEF after, c1
  <1>4. c2 \in CacheType
    BY <1>3, FlushedType
  <1> HIDE DEF c2
  <1>5. c3 \in CacheType
    BY <1>2, <1>4, FirstModifyType
  <1> HIDE DEF c3
  <1>6. seen.text \in Text /\ seen.cache \in CacheType
    BY <1>2, <1>5, GetType
  <1>7. LogOK(L1)
    <2>1. LineRec("RESET_B", k, old.text) \in Record
      BY <1>3, RecordTypes DEF Ops
    <2> QED BY <1>1, <2>1, LogChangeType
  <1> HIDE DEF L1
  <1>8. LogOK(new)
    <2>1. LineRec("RESET_F", k, seen.text) \in Record
      BY <1>6, RecordTypes DEF Ops
    <2> QED BY <1>1, <1>2, <1>7, <2>1, LogChangeType
  <1>9. /\ file' = after
        /\ lg' = IF nolog THEN L ELSE new
        /\ cache' = IF nolog THEN c3 ELSE seen.cache
        /\ quirks' = quirks \cup StartQuirk
                     \cup (IF ~nolog /\ file = <<>> THEN {"empty"} ELSE {})
        /\ marks' = marks
    BY DEF DbSet, after, c1, c2, c3, seen, L1
  <1>10. quirks' \in SUBSET Quirk
    BY <1>1, <1>9, QuirkType
  <1> HIDE DEF new, seen
  <1> QED BY <1>1, <1>2, <1>5, <1>6, <1>8, <1>9, <1>10 DEF OpType

LEMMA OpTypes ==
    ASSUME TypeOK, NEW L, LogOK(L), NEW t \in Text
    PROVE  /\ \A k : DbDelete(k, L) => OpType
           /\ \A k \in Nat : DbAppend(k, t, L) => OpType
           /\ \A k \in Nat \ {0} : DbInsert(k, t, L) => OpType
           /\ \A k \in Nat \ {0} : DbSet(k, t, L) => OpType
  <1>1. ASSUME NEW k \in Nat, DbAppend(k, t, L) PROVE OpType
    <2>1. k + 1 \in Nat \ {0} /\ (~(k < cache.lno)) \in BOOLEAN
      OBVIOUS
    <2> QED BY <1>1, <2>1, AddLineType DEF DbAppend, Added
  <1>2. ASSUME NEW k \in Nat \ {0}, DbInsert(k, t, L) PROVE OpType
    <2>1. (~(k >= cache.lno)) \in BOOLEAN
      OBVIOUS
    <2> QED BY <1>2, <2>1, AddLineType DEF DbInsert, Added
  <1> QED BY <1>1, <1>2, DbDeleteType, DbSetType

-----------------------------------------------------------------------------
(* Type correctness *)

\* The record a replay looks at.
LEMMA RecordAt ==
    ASSUME NEW L, LogOK(L), NEW i \in 1..Len(L.rec)
    PROVE  /\ L.rec[i] \in Record
           /\ L.rec[i].lno \in Nat \ {0} /\ L.rec[i].text \in Text
           /\ L.rec[i].op \in Ops /\ L.rec[i].names \in SUBSET MarkName
  <1>1. L.rec[i] \in Record
    BY DEF LogOK, LogType
  <1> QED BY <1>1 DEF Record

LEMMA TypeInit == ASSUME Init PROVE TypeOK
  <1>1. file \in Seq(Text) /\ cache \in CacheType
    BY FilesAssumption, TextAssumption DEF Init, CacheType
  <1>2. LogOK(lg)
    BY <1>1, LogInitType DEF Init
  <1>3. marks \in [MarkName -> MarkType]
    BY DEF Init, MarkType, NoMark
  <1> QED BY <1>1, <1>2, <1>3 DEF Init, TypeOK, Quirk

LEMMA TypeEdit == ASSUME TypeOK, Edit PROVE TypeOK'
  <1>1. LogOK(lg) /\ file \in Seq(Text)
    BY DEF TypeOK
  <1>2. OpType /\ EditDone
    <2>1. CASE \E k \in 1..Len(file) : Delete(k)
      BY <1>1, <2>1, TextAssumption, OpTypes DEF Delete
    <2>2. CASE \E k \in 0..Len(file), t \in Text : AppendLine(k, t)
      <3>1. PICK k \in 0..Len(file), t \in Text : AppendLine(k, t)
        BY <2>2
      <3>2. k \in Nat
        BY <1>1
      <3> QED BY <1>1, <3>1, <3>2, OpTypes DEF AppendLine
    <2>3. CASE \E k \in ValidLine(file), t \in Text : InsertLine(k, t) \/ SetLine(k, t)
      <3>1. PICK k \in ValidLine(file), t \in Text : InsertLine(k, t) \/ SetLine(k, t)
        BY <2>3
      <3>2. k \in Nat \ {0}
        BY <1>1, SMT DEF ValidLine, Longer
      <3> QED BY <1>1, <3>1, <3>2, OpTypes DEF InsertLine, SetLine
    <2> QED BY <2>1, <2>2, <2>3 DEF Edit
  <1> QED BY <1>2 DEF OpType, EditDone, TypeOK

LEMMA TypeLook == ASSUME TypeOK, Look PROVE TypeOK'
  <1>1. /\ LogOK(lg) /\ file \in Seq(Text) /\ cache \in CacheType
        /\ marks \in [MarkName -> MarkType]
    BY DEF TypeOK
  <1>2. \A l \in ValidLine(file) : l \in Nat \ {0}
    BY <1>1, SMT DEF ValidLine, Longer
  <1>3. CASE \E k \in 1..Len(file) + 1 : ReadLine(k)
    <2>1. PICK k \in 1..Len(file) + 1 : ReadLine(k)
      BY <1>3
    <2>2. cache' \in CacheType
      BY <1>1, <2>1, GetType DEF ReadLine
    <2> QED BY <2>1, <2>2 DEF ReadLine, TypeOK
  <1>4. CASE ReadLast
    <2>1. cache' \in CacheType
      BY <1>1, <1>4, LastType DEF ReadLast
    <2> QED BY <1>4, <2>1 DEF ReadLast, TypeOK
  <1>5. CASE \E m \in MarkName : UserMark(m)
    <2>1. PICK m \in MarkName : UserMark(m)
      BY <1>5
    <2>2. marks' \in [MarkName -> MarkType]
      BY <1>1, <1>2, <2>1, MarkTypes DEF UserMark
    <2> QED BY <2>1, <2>2 DEF UserMark, TypeOK
  <1>6. CASE \E l \in ValidLine(file) : Motion(l)
    BY <1>2, <1>6 DEF Motion, TypeOK
  <1>7. CASE LogCursor
    <2>1. lno \in Nat \ {0}
      BY <1>2, <1>7 DEF LogCursor
    <2>2. LogOK(lg')
      <3>1. CASE nolog
        BY <1>1, <1>7, <3>1 DEF LogCursor
      <3>2. CASE ~nolog /\ lg.cursor = OOBLNO
        <4> DEFINE P == LogPut(lg, CursorRec("END", lno), file)
        <4>1. CursorRec("END", lno) \in Record
          BY <2>1, TextAssumption, RecordTypes DEF Ops
        <4>2. LogOK(P)
          BY <1>1, <4>1, LogPutType
        <4>3. lg' = [P EXCEPT !.cursor = lno]
          BY <1>7, <3>2 DEF LogCursor
        <4> HIDE DEF P
        <4> QED BY <2>1, <4>2, <4>3, LogCursorSet
      <3>3. CASE ~nolog /\ lg.cursor # OOBLNO
        <4>1. lg' = [lg EXCEPT !.cursor = lno]
          BY <1>7, <3>3 DEF LogCursor
        <4> QED BY <1>1, <2>1, <4>1, LogCursorSet
      <3> QED BY <3>1, <3>2, <3>3
    <2> QED BY <1>7, <2>2 DEF LogCursor, TypeOK
  <1> QED BY <1>3, <1>4, <1>5, <1>6, <1>7 DEF Look

LEMMA TypeBegin ==
    ASSUME TypeOK, (\E dot \in BOOLEAN : Undo(dot)) \/ ExUndo \/ UndoLine
    PROVE  TypeOK'
  <1>1. /\ LogOK(lg) /\ file \in Seq(Text) /\ quirks \in SUBSET Quirk
        /\ marks \in [MarkName -> MarkType]
    BY DEF TypeOK
  <1>2. quirks \cup {"map"} \in SUBSET Quirk
    BY <1>1, QuirkType
  <1>3. CASE \E dot \in BOOLEAN : Undo(dot)
    BY <1>2, <1>3 DEF Undo, BeginReplay, CanReplay, Opposite, TypeOK
  <1>4. CASE ExUndo
    <2>1. lno \in Nat \ {0}
      BY <1>1, <1>4, SMT DEF ExUndo, ValidLine, Longer
    <2>2. marks' \in [MarkName -> MarkType]
      <3>1. CASE AbsMark \in MarkName
        BY <1>1, <1>4, <2>1, <3>1, MarkTypes DEF ExUndo
      <3>2. CASE AbsMark \notin MarkName
        BY <1>1, <1>4, <3>2 DEF ExUndo, MarkSet
      <3> QED BY <3>1, <3>2
    <2> QED BY <1>2, <1>4, <2>2 DEF ExUndo, BeginReplay, CanReplay, TypeOK
  <1>5. CASE UndoLine
    BY <1>2, <1>5 DEF UndoLine, BeginReplay, CanReplay, TypeOK
  <1> QED BY <1>3, <1>4, <1>5

\* What the turns of the three loops have in common.
LEMMA TypeTurn ==
    ASSUME TypeOK, NEW r \in Record, NEW L, LogOK(L)
    PROVE  /\ ReplayDone(L) /\ lno' \in Nat => TypeOK'
           /\ LogFailed => TypeOK'
           /\ PassOver(L) => TypeOK'
           /\ ReplayDelete(r.lno, L) => TypeOK'
           /\ ReplayInsert(r, L) => TypeOK'
           /\ ReplaySet(r, L) => TypeOK'
           /\ LeaveDone(L) => TypeOK'
           /\ ReplayMark(r, L) => TypeOK'
  <1>1. /\ r.lno \in Nat \ {0} /\ r.text \in Text /\ r.names \in SUBSET MarkName
    BY DEF Record
  <1>2. /\ LogOK(lg) /\ file \in Seq(Text) /\ marks \in [MarkName -> MarkType]
    BY DEF TypeOK
  <1>3. ReplayDone(L) /\ lno' \in Nat => TypeOK'
    BY DEF ReplayDone, Opposite, TypeOK
  <1>4. LogFailed => TypeOK'
    BY <1>2, LogInitType DEF LogFailed, TypeOK
  <1>5. PassOver(L) => TypeOK'
    BY DEF PassOver, TypeOK
  <1>6. ASSUME ReplayDelete(r.lno, L) PROVE TypeOK'
    <2>1. CASE DbDelete(r.lno, L) /\ didop' = TRUE /\ ReplayOn
      <3>1. OpType
        BY <1>1, <2>1, OpTypes
      <3> QED BY <2>1, <3>1 DEF OpType, ReplayOn, TypeOK
    <2>2. CASE /\ r.lno \notin 1..Len(file)
               /\ marks' = MarksDelete(marks, r.lno)
               /\ lg' = L
               /\ pc' = "cmd" /\ nolog' = FALSE
               /\ byEx' = FALSE /\ didop' = FALSE
               /\ UNCHANGED <<file, cache, undone, lundo, lno, firstmod, quirks>>
      <3>1. marks' \in [MarkName -> MarkType]
        BY <1>1, <1>2, <2>2, MarkTypes
      <3> QED BY <2>2, <3>1 DEF TypeOK
    <2> QED BY <1>6, <2>1, <2>2 DEF ReplayDelete
  <1>7. ASSUME ReplayInsert(r, L) PROVE TypeOK'
    <2>1. OpType
      BY <1>1, <1>7, OpTypes DEF ReplayInsert
    <2> QED BY <1>7, <2>1 DEF ReplayInsert, OpType, ReplayOn, TypeOK
  <1>8. ASSUME ReplaySet(r, L) PROVE TypeOK'
    <2>1. OpType
      BY <1>1, <1>8, OpTypes DEF ReplaySet
    <2> QED BY <1>8, <2>1 DEF ReplaySet, OpType, ReplayOn, TypeOK
  <1>9. LeaveDone(L) => TypeOK'
    BY QuirkType DEF LeaveDone, TypeOK
  <1>10. ASSUME ReplayMark(r, L) PROVE TypeOK'
    <2>1. marks' \in [MarkName -> MarkType]
      BY <1>1, <1>2, <1>10, MarkTypes DEF ReplayMark
    <2> QED BY <1>10, <2>1 DEF ReplayMark, TypeOK
  <1> QED BY <1>3, <1>4, <1>5, <1>6, <1>7, <1>8, <1>9, <1>10

LEMMA TypeReplay == ASSUME TypeOK, Replay PROVE TypeOK'
  <1>1. LogOK(lg) /\ lno \in Nat
    BY DEF TypeOK
  <1>2. lg.cur \in 1..Len(lg.rec) + 1 /\ lg.cur \in Nat /\ Len(lg.rec) \in Nat
    BY <1>1 DEF LogOK, LogType
  <1>3. CASE UndoStep
    <2> DEFINE i == lg.cur - 1
               L == [lg EXCEPT !.cur = i]
    <2>1. CASE i = 0
      <3>1. LogFailed
        BY <1>3, <2>1 DEF UndoStep
      <3>2. PICK r : r \in Record
        BY TextAssumption, RecordTypes DEF Ops
      <3> QED BY <1>1, <3>1, <3>2, TypeTurn
    <2>2. CASE i # 0
      <3>1. i \in 1..Len(lg.rec)
        BY <1>2, <2>2
      <3>2. LogOK(L)
        BY <1>1, <3>1, LogCurSet
      <3>3. lg.rec[i] \in Record /\ lg.rec[i].lno \in Nat
        BY <1>1, <3>1, RecordAt
      <3> HIDE DEF L
      <3>4. \/ ReplayDone(L) /\ lno' = lg.rec[i].lno
            \/ PassOver(L)
            \/ ReplayDelete(lg.rec[i].lno, L)
            \/ ReplayInsert(lg.rec[i], L)
            \/ ReplaySet(lg.rec[i], L)
            \/ ReplayMark(lg.rec[i], L)
        BY <1>3, <2>2 DEF UndoStep, L
      <3> QED BY <3>2, <3>3, <3>4, TypeTurn
    <2> QED BY <2>1, <2>2
  <1>4. CASE RedoStep
    <2> DEFINE i == lg.cur + 1
               L == [lg EXCEPT !.cur = i]
    <2>1. CASE i > Len(lg.rec)
      <3>1. LogFailed
        BY <1>4, <2>1, <1>2 DEF RedoStep
      <3>2. PICK r : r \in Record
        BY TextAssumption, RecordTypes DEF Ops
      <3> QED BY <1>1, <3>1, <3>2, TypeTurn
    <2>2. CASE i <= Len(lg.rec)
      <3>1. i \in 1..Len(lg.rec) /\ i + 1 \in 1..Len(lg.rec) + 1 /\ i + 1 \in 1..Len(L.rec) + 1
        BY <1>1, <1>2, <2>2, LogCurSet
      <3>2. LogOK(L) /\ LogOK([L EXCEPT !.cur = i + 1])
        <4>1. LogOK(L)
          BY <1>1, <3>1, LogCurSet
        <4> HIDE DEF L
        <4> QED BY <3>1, <4>1, LogCurSet
      <3>3. lg.rec[i] \in Record /\ lg.rec[i].lno \in Nat
        BY <1>1, <3>1, RecordAt
      <3>4. \/ ReplayDone([L EXCEPT !.cur = i + 1]) /\ lno' = lg.rec[i].lno
            \/ PassOver(L)
            \/ ReplayDelete(lg.rec[i].lno, L)
            \/ ReplayInsert(lg.rec[i], L)
            \/ ReplaySet(lg.rec[i], L)
            \/ ReplayMark(lg.rec[i], L)
        BY <1>2, <1>4, <2>2 DEF RedoStep
      <3> HIDE DEF L
      <3> QED BY <3>2, <3>3, <3>4, TypeTurn
    <2> QED BY <1>2, <2>1, <2>2
  <1>5. CASE SetlineStep
    <2> DEFINE i == lg.cur - 1
               L == [lg EXCEPT !.cur = i]
               r == lg.rec[i]
    <2>1. CASE i = 0
      <3>1. LogFailed
        BY <1>5, <2>1 DEF SetlineStep
      <3>2. PICK x : x \in Record
        BY TextAssumption, RecordTypes DEF Ops
      <3> QED BY <1>1, <3>1, <3>2, TypeTurn
    <2>2. CASE i # 0
      <3>1. i \in 1..Len(lg.rec)
        BY <1>2, <2>2
      <3>2. LogOK(L)
        BY <1>1, <3>1, LogCurSet
      <3>3. r \in Record
        BY <1>1, <3>1, RecordAt
      <3>4. \/ (ReplayDone(L) \/ ReplayDone(lg)) /\ lno' = lno
            \/ PassOver(L) \/ LeaveDone(L) \/ ReplaySet(r, L) \/ ReplayMark(r, L)
        BY <1>5, <2>2 DEF SetlineStep
      <3> HIDE DEF L, r
      <3> QED BY <1>1, <3>2, <3>3, <3>4, TypeTurn
    <2> QED BY <2>1, <2>2
  <1> QED BY <1>3, <1>4, <1>5 DEF Replay

LEMMA TypeNext == ASSUME TypeOK, [Next]_vars PROVE TypeOK'
  <1>1. CASE UNCHANGED vars
    BY <1>1 DEF vars, TypeOK
  <1>2. CASE Next
    BY <1>2, TypeEdit, TypeLook, TypeBegin, TypeReplay DEF Next
  <1> QED BY <1>1, <1>2

\* Types, and the log position always within the log (struct _exf, log.c).
THEOREM TypeCorrect == Spec => []TypeOK
  BY TypeInit, TypeNext, PTL DEF Spec

-----------------------------------------------------------------------------
(* The cache. *)

\* The cache c holds the line of f it says it holds, or none.
Coherent(c, f) == c.lno # OOBLNO => c.lno <= Len(f) /\ c.text = f[c.lno]

\* Reading through a coherent cache leaves it coherent.
LEMMA ReadsKeepCache ==
    ASSUME NEW c \in CacheType, NEW f \in Seq(Text), Coherent(c, f), NEW k \in Nat
    PROVE  /\ Coherent(Get(c, f, k).cache, f) /\ Coherent(GetNoCache(c, f, k).cache, f)
           /\ Coherent(Last(c, f).cache, f) /\ Coherent(FirstModify(c, f), f)
           /\ Coherent(OnlyLineCache(c, f), f)
  <1>1. ASSUME NEW d \in CacheType, Coherent(d, f), NEW n \in Nat
        PROVE  Coherent(Get(d, f, n).cache, f) /\ Coherent(Last(d, f).cache, f)
    BY <1>1 DEF Coherent, Get, Last, Flushed, Holding, OOBLNO, CacheType
  <1>2. Coherent(GetNoCache(c, f, k).cache, f)
    BY DEF Coherent, GetNoCache, Holding, OOBLNO, CacheType
  <1>3. Exist(c, f, 2).cache \in CacheType /\ Coherent(Exist(c, f, 2).cache, f)
    BY <1>1, GetType DEF Exist
  <1>4. Coherent(OnlyLineCache(c, f), f)
    BY <1>1, <1>3 DEF OnlyLineCache
  <1> QED BY <1>1, <1>2, <1>4 DEF FirstModify

\* A cache that does not hold line k and agrees with f on what it holds.
LEMMA FlushKeepsCache ==
    ASSUME NEW c \in CacheType, NEW f \in Seq(Text), NEW n \in Nat
    PROVE  /\ Coherent(Flushed(c), f)
           /\ Coherent(c, f) => Coherent([c EXCEPT !.nlines = n], f)
           /\ [c EXCEPT !.nlines = n] \in CacheType
  BY DEF Coherent, Flushed, Holding, CacheType, OOBLNO

LEMMA DeleteKeepsCache ==
    ASSUME TypeOK, NEW k, DbDelete(k, lg), ~nolog, Coherent(cache, file)
    PROVE  Coherent(cache', file')
  <1> DEFINE seen  == Get(cache, file, k)
             after == RecDelete(file, k)
             c1    == IF nolog THEN cache ELSE seen.cache
             c0    == IF k <= c1.lno THEN Flushed(c1) ELSE c1
             n     == IF c0.nlines = OOBLNO THEN c0.nlines ELSE c0.nlines - 1
             c2    == [c0 EXCEPT !.nlines = n]
  <1>1. /\ file \in Seq(Text) /\ cache \in CacheType /\ k \in 1..Len(file) /\ k \in Nat
        /\ file' = after /\ cache' = FirstModify(c2, after)
    BY DEF TypeOK, DbDelete
  <1>2. after \in Seq(Text)
    BY <1>1, DeleteType
  <1>3. c1 \in CacheType /\ c1.lno = k
    BY <1>1, GetType DEF Get, Holding, OOBLNO
  <1>4. c0 = Flushed(c1)
    BY <1>1, <1>3
  <1> HIDE DEF c0, after
  <1>5. c0 \in CacheType /\ n \in Nat
    BY <1>3, <1>4, FlushedType DEF CacheType, OOBLNO
  <1>6. Coherent(c2, after) /\ c2 \in CacheType
    BY <1>2, <1>3, <1>4, <1>5, FlushKeepsCache
  <1> QED BY <1>1, <1>2, <1>6, ReadsKeepCache

\* Reading line k after a change leaves a coherent cache, unless the cache said
\* before that it holds k.
LEMMA ReadAfterChange ==
    ASSUME NEW c \in CacheType, NEW f \in Seq(Text), NEW k \in 1..Len(f), c.lno # k
    PROVE  /\ Get(FirstModify(c, f), f, k).cache \in CacheType
           /\ Coherent(Get(FirstModify(c, f), f, k).cache, f)
  <1>1. k \in Nat /\ k # 0
    OBVIOUS
  <1>2. Get(FirstModify(c, f), f, k).cache \in CacheType
    BY <1>1, FirstModifyType, GetType
  <1>3. CASE FirstModify(c, f) = c
    BY <1>1, <1>2, <1>3 DEF Get, Holding, Coherent, OOBLNO
  <1>4. CASE FirstModify(c, f) # c
    <2>1. FirstModify(c, f) = [lno |-> Len(f), text |-> f[Len(f)], nlines |-> Len(f)]
      BY <1>4 DEF FirstModify, Last
    <2>2. Coherent(FirstModify(c, f), f) /\ FirstModify(c, f) \in CacheType
      BY <2>1, FirstModifyType DEF Coherent
    <2>3. Coherent(Get(FirstModify(c, f), f, k).cache, f)
      BY <1>1, <2>2, ReadsKeepCache
    <2> QED BY <1>2, <2>3
  <1> QED BY <1>3, <1>4

LEMMA AddKeepsCache ==
    ASSUME TypeOK, NEW op \in Added, NEW k \in 1..Len(file) + 1, NEW t \in Text,
           NEW keep \in BOOLEAN, keep => cache.lno # k, NEW L,
           AddLine(op, k, t, keep, L), ~nolog
    PROVE  Coherent(cache', file')
  <1> DEFINE pad   == RecPad(file, k - 1, Blank)
             after == RecInsert(pad, k, t)
             c0    == IF keep THEN cache ELSE Flushed(cache)
             n     == IF c0.nlines = OOBLNO THEN c0.nlines ELSE c0.nlines + 1
             c1    == [c0 EXCEPT !.nlines = n]
             c3    == Get(FirstModify(c1, after), after, k).cache
  <1>1. /\ file \in Seq(Text) /\ cache \in CacheType /\ Len(file) \in Nat
        /\ k \in Nat \ {0} /\ k - 1 \in Nat /\ k - 1 <= Len(file)
    BY DEF TypeOK
  <1>2. pad = file
    BY <1>1, TextAssumption, PadNothing
  <1>3. after \in Seq(Text) /\ Len(after) = Len(file) + 1
    BY <1>1, <1>2, InsertType
  <1>4. file' = after /\ cache' = OnlyLineCache(c3, after)
    BY DEF AddLine
  <1> HIDE DEF after
  <1>5. c0 \in CacheType /\ c0.lno # k
    BY <1>1, FlushedType DEF OOBLNO
  <1> HIDE DEF c0
  <1>6. n \in Nat
    BY <1>5 DEF CacheType, OOBLNO
  <1> HIDE DEF n
  <1>7. c1 \in CacheType /\ c1.lno # k
    BY <1>5, <1>6 DEF CacheType
  <1> HIDE DEF c1
  <1>8. k \in 1..Len(after)
    BY <1>1, <1>3
  <1>9. c3 \in CacheType /\ Coherent(c3, after)
    BY <1>3, <1>7, <1>8, ReadAfterChange
  <1> HIDE DEF c3
  <1> QED BY <1>3, <1>4, <1>9, ReadsKeepCache

LEMMA SetKeepsCache ==
    ASSUME TypeOK, NEW k \in ValidLine(file), NEW t \in Text, NEW L, DbSet(k, t, L), ~nolog
    PROVE  Coherent(cache', file')
  <1> DEFINE old   == GetNoCache(cache, file, k)
             pad   == RecPad(file, k - 1, Blank)
             after == RecPut(pad, k, t)
             c2    == IF old.cache.lno = k THEN Flushed(old.cache) ELSE old.cache
             c4    == Get(FirstModify(c2, after), after, k).cache
  <1>1. /\ file \in Seq(Text) /\ cache \in CacheType /\ Len(file) \in Nat
        /\ k \in Nat \ {0} /\ k - 1 \in Nat /\ k - 1 <= Len(file)
    BY DEF TypeOK, ValidLine, Longer
  <1>2. pad = file
    BY <1>1, TextAssumption, PadNothing
  <1>3. after \in Seq(Text) /\ k \in 1..Len(after)
    <2>1. k \in 1..Len(file) + 1
      BY <1>1
    <2>2. /\ RecPut(file, k, t) \in Seq(Text)
          /\ Len(RecPut(file, k, t)) = Longer(Len(file), k)
      BY <1>1, <2>1, PutType
    <2> QED BY <1>1, <1>2, <2>2 DEF Longer
  <1>4. file' = after /\ cache' = c4
    BY DEF DbSet
  <1> HIDE DEF after
  <1>5. c2 \in CacheType /\ c2.lno # k
    BY <1>1, GetNoCacheType, FlushedType DEF OOBLNO
  <1> HIDE DEF c2
  <1> QED BY <1>3, <1>4, <1>5, ReadAfterChange

\* Every change of a line that is logged leaves a cache that agrees with the
\* file, in any session: the line operations flush the cached line or read the
\* new one into it (db_delete(), db_append(), db_insert() and db_set()).
THEOREM EditsKeepCache == Spec => LoggedEditKeepsCache
  <1>1. ASSUME TypeOK, Edit, ~nolog, CacheCoherent
        PROVE  CacheCoherent'
    <2>1. Coherent(cache, file) /\ Len(file) \in Nat /\ cache.lno \in Nat
      BY <1>1 DEF CacheCoherent, Coherent, TypeOK, CacheType
    <2>2. Coherent(cache', file')
      <3>1. CASE \E k \in 1..Len(file) : Delete(k)
        BY <1>1, <2>1, <3>1, DeleteKeepsCache DEF Delete
      <3>2. ASSUME NEW k \in 0..Len(file), NEW t \in Text, AppendLine(k, t)
            PROVE  Coherent(cache', file')
        <4>1. /\ AddLine("APPEND", k + 1, t, ~(k < cache.lno), lg)
              /\ k + 1 \in 1..Len(file) + 1
              /\ (~(k < cache.lno)) \in BOOLEAN /\ ~(k < cache.lno) => cache.lno # k + 1
          BY <2>1, <3>2 DEF AppendLine, DbAppend
        <4> QED BY <1>1, <2>1, <4>1, AddKeepsCache DEF Added
      <3>3. ASSUME NEW k \in ValidLine(file), NEW t \in Text, InsertLine(k, t)
            PROVE  Coherent(cache', file')
        <4>1. /\ AddLine("INSERT", k, t, ~(k >= cache.lno), lg)
              /\ k \in 1..Len(file) + 1
              /\ (~(k >= cache.lno)) \in BOOLEAN /\ ~(k >= cache.lno) => cache.lno # k
          BY <2>1, <3>3 DEF InsertLine, DbInsert, ValidLine, Longer
        <4> QED BY <1>1, <2>1, <4>1, AddKeepsCache DEF Added
      <3>4. ASSUME NEW k \in ValidLine(file), NEW t \in Text, SetLine(k, t)
            PROVE  Coherent(cache', file')
        BY <1>1, <2>1, <3>4, SetKeepsCache DEF SetLine
      <3> QED BY <1>1, <3>1, <3>2, <3>3, <3>4 DEF Edit
    <2> QED BY <2>2 DEF CacheCoherent, Coherent
  <1>2. TypeOK /\ [Next]_vars
          => [Edit /\ ~nolog /\ CacheCoherent => CacheCoherent']_vars
    BY <1>1
  <1> QED BY <1>2, TypeCorrect, PTL DEF Spec, LoggedEditKeepsCache

-----------------------------------------------------------------------------
(***************************************************************************)
(* Undo is exact and stays possible: the invariant IndInv of ExfProps is   *)
(* inductive, for every set of texts and marks, every bound and every file. *)
(***************************************************************************)

(* What is written to the log keeps its shape. *)

\* The log at which record r may be put: it leads on from content f to g, and
\* goes well with the record before it.
MayPut(L, r, f, g) ==
    /\ LogOK(L) /\ LogShape(L) /\ L.cur <= L.high /\ L.snap[L.cur] = f
    /\ Leads(r, f, g)
    /\ r.op = "INIT" <=> L.cur = 1 \/ L.rec[L.cur - 1].op = "END"
    /\ r.op = "END" => L.cur > 1 /\ L.rec[L.cur - 1].op \notin {"INIT", "RESET_B"}
    /\ r.op = "RESET_F" =>
          L.cur > 1 /\ L.rec[L.cur - 1].op = "RESET_B" /\ L.rec[L.cur - 1].lno = r.lno

LEMMA PutShape ==
    ASSUME NEW L, NEW r \in Record, NEW f, NEW g \in Seq(Text), MayPut(L, r, f, g)
    PROVE  /\ LogOK(LogPut(L, r, g)) /\ LogShape(LogPut(L, r, g))
           /\ LogPut(L, r, g).cur = L.cur + 1 /\ LogPut(L, r, g).high = L.cur + 1
           /\ LogPut(L, r, g).cursor = L.cursor
           /\ LogPut(L, r, g).snap[L.cur + 1] = g
           /\ LogPut(L, r, g).rec[L.cur] = r
  <1> DEFINE P == LogPut(L, r, g)
  <1>1. /\ L.rec \in Seq(Record) /\ L.cur \in 1..Len(L.rec) + 1 /\ L.cur \in Nat
        /\ L.high \in 1..Len(L.rec) + 1 /\ L.high \in Nat /\ L.cur <= L.high
    BY DEF MayPut, LogOK, LogType
  <1>2. /\ LogOK(P) /\ P.cur = L.cur + 1 /\ P.high = L.cur + 1 /\ P.cursor = L.cursor
    BY LogPutType DEF MayPut
  <1>3. /\ P.rec = RecPut(L.rec, L.cur, r)
        /\ P.snap = [i \in 1..L.cur + 1 |-> IF i <= L.cur /\ i <= L.high THEN L.snap[i] ELSE g]
    BY DEF LogPut
  <1>4. P.rec[L.cur] = r /\ \A i \in 1..L.cur - 1 : P.rec[i] = L.rec[i]
    BY <1>1, <1>3, PutAt
  <1>5. P.snap[L.cur + 1] = g /\ \A i \in 1..L.cur : P.snap[i] = L.snap[i]
    BY <1>1, <1>3
  <1> HIDE DEF P
  <1>6. ASSUME NEW i \in 1..P.high - 1
        PROVE  Leads(P.rec[i], P.snap[i], P.snap[i + 1]) /\ Follows(P, i)
    <2>1. CASE i = L.cur
      <3>1. Leads(P.rec[i], P.snap[i], P.snap[i + 1])
        BY <1>1, <1>4, <1>5, <2>1 DEF MayPut
      <3>2. i - 1 \in 1..L.cur - 1 \/ i = 1
        BY <1>1, <2>1
      <3>3. i = 1 \/ P.rec[i - 1] = L.rec[i - 1]
        BY <1>4, <3>2
      <3>4. Follows(P, i)
        BY <1>1, <1>4, <2>1, <3>3 DEF MayPut, Follows
      <3> QED BY <3>1, <3>4
    <2>2. CASE i # L.cur
      <3>1. i \in 1..L.cur - 1 /\ i + 1 \in 1..L.cur /\ i \in 1..L.cur /\ i \in 1..L.high - 1
        BY <1>1, <1>2, <2>2
      <3>2. Leads(L.rec[i], L.snap[i], L.snap[i + 1]) /\ Follows(L, i)
        BY <3>1 DEF MayPut, LogShape
      <3>3. P.rec[i] = L.rec[i] /\ P.snap[i] = L.snap[i] /\ P.snap[i + 1] = L.snap[i + 1]
        BY <1>4, <1>5, <3>1
      <3>4. i - 1 \in 1..L.cur - 1 \/ i = 1
        BY <3>1, <1>1
      <3>5. i = 1 \/ P.rec[i - 1] = L.rec[i - 1]
        BY <1>4, <3>4
      <3>6. Follows(P, i)
        BY <3>1, <3>2, <3>3, <3>5 DEF Follows
      <3> QED BY <3>2, <3>3, <3>6
    <2> QED BY <2>1, <2>2
  <1>7. LogShape(P)
    BY <1>6 DEF LogShape
  <1> QED BY <1>2, <1>4, <1>5, <1>7 DEF P

\* A log in the middle of a group, whose next record is not a RESET_F.
Ready(L, f) ==
    /\ LogOK(L) /\ LogShape(L)
    /\ L.cursor = OOBLNO /\ L.cur = L.high /\ L.cur > 1
    /\ L.snap[L.cur] = f
    /\ L.rec[L.cur - 1].op \notin {"END", "RESET_B"}

\* The state between two commands, or in one, of a regular session.
Resting(f) ==
    /\ LogOK(lg) /\ LogShape(lg) /\ lg.cur <= lg.high
    /\ GroupOpen(lg) /\ AtBoundary(lg) /\ lg.snap[lg.cur] = f

\* log_cursor1(LOG_CURSOR_INIT) opens the group, if it is not open.
LEMMA StartReady ==
    ASSUME NEW f \in Seq(Text), Resting(f), lg.cursor # OOBLNO => lg.cursor \in ValidLine(f)
    PROVE  Ready(LogStart(lg, f), f)
  <1>1. /\ lg.cur \in Nat /\ lg.high \in Nat /\ lg.cur >= 1 /\ lg.cur <= lg.high
        /\ lg.cursor \in Nat
    BY DEF Resting, LogOK, LogType
  <1>2. CASE lg.cursor = OOBLNO
    BY <1>1, <1>2 DEF LogStart, Ready, Resting, GroupOpen
  <1>3. CASE lg.cursor # OOBLNO
    <2> DEFINE r == CursorRec("INIT", lg.cursor)
               P == LogPut(lg, r, f)
    <2>1. r \in Record /\ r.op = "INIT" /\ r.lno = lg.cursor
      <3>1. lg.cursor \in Nat \ {0}
        BY <1>1, <1>3 DEF OOBLNO
      <3> QED BY <3>1, TextAssumption, RecordTypes DEF Ops, CursorRec
    <2>2. lg.cur = 1 \/ lg.rec[lg.cur - 1].op = "END"
      <3>1. CASE lg.cur = lg.high
        BY <1>3, <3>1 DEF Resting, GroupOpen
      <3>2. CASE lg.cur # lg.high
        <4>1. lg.rec[lg.cur].op = "INIT"
          BY <3>2 DEF Resting, AtBoundary
        <4>2. lg.cur \in 1..lg.high - 1
          BY <1>1, <3>2
        <4> QED BY <4>1, <4>2 DEF Resting, LogShape, Follows
      <3> QED BY <3>1, <3>2
    <2>3. Leads(r, f, f)
      BY <1>3, <2>1 DEF Leads
    <2>4. MayPut(lg, r, f, f)
      BY <2>1, <2>2, <2>3 DEF MayPut, Resting
    <2>5. /\ LogOK(P) /\ LogShape(P)
          /\ P.cur = lg.cur + 1 /\ P.high = lg.cur + 1
          /\ P.snap[lg.cur + 1] = f /\ P.rec[lg.cur] = r
      BY <2>1, <2>4, PutShape
    <2>6. LogStart(lg, f) = [P EXCEPT !.cursor = OOBLNO]
      BY <1>3 DEF LogStart
    <2> HIDE DEF P
    <2> DEFINE S == [P EXCEPT !.cursor = OOBLNO]
    <2>7. /\ LogOK(S) /\ S.cursor = OOBLNO /\ S.rec = P.rec /\ S.snap = P.snap
          /\ S.cur = P.cur /\ S.high = P.high
      <3>1. OOBLNO \in Nat
        BY DEF OOBLNO
      <3> QED BY <2>5, <3>1, LogCursorSet, Zenon
    <2> HIDE DEF S
    <2>8. LogShape(S)
      BY <2>5, <2>7 DEF LogShape, Follows
    <2>9. S.cur - 1 = lg.cur /\ S.cur > 1
      BY <1>1, <2>5, <2>7
    <2>10. S.rec[S.cur - 1].op \notin {"END", "RESET_B"}
      BY <2>1, <2>5, <2>7, <2>9
    <2> QED BY <2>5, <2>6, <2>7, <2>8, <2>9, <2>10 DEF Ready, S
  <1> QED BY <1>2, <1>3

\* In a group that is open LOG_CURSOR_INIT is not put out again.
LEMMA StartAgain ==
    ASSUME NEW L, NEW f, L.cursor = OOBLNO
    PROVE  LogStart(L, f) = L
  BY DEF LogStart

\* One change recorded; ready for the next unless it is a RESET_B.
LEMMA ReadyPut ==
    ASSUME NEW L, NEW r \in Record, NEW f, NEW g \in Seq(Text), Ready(L, f),
           Leads(r, f, g), r.op \notin {"INIT", "END", "RESET_F"}
    PROVE  /\ LogPut(L, r, g).cursor = OOBLNO
           /\ r.op # "RESET_B" => Ready(LogPut(L, r, g), g)
           /\ r.op # "RESET_B" => GroupOpen(LogPut(L, r, g))
           /\ r.op = "RESET_B" => \A s \in Record : \A h :
                 s.op = "RESET_F" /\ s.lno = r.lno /\ Leads(s, g, h)
                    => MayPut(LogPut(L, r, g), s, g, h)
  <1> DEFINE P == LogPut(L, r, g)
  <1>1. L.cur \in Nat /\ L.cur >= 1
    BY DEF Ready, LogOK, LogType
  <1>2. MayPut(L, r, f, g)
    BY <1>1 DEF MayPut, Ready
  <1>3. /\ LogOK(P) /\ LogShape(P) /\ P.cur = L.cur + 1 /\ P.high = L.cur + 1
        /\ P.cursor = OOBLNO /\ P.snap[L.cur + 1] = g /\ P.rec[L.cur] = r
    BY <1>2, PutShape DEF Ready
  <1> HIDE DEF P
  <1>4. P.cur - 1 = L.cur /\ P.high - 1 = L.cur /\ P.cur > 1 /\ P.cur = P.high /\ P.cur <= P.high
    BY <1>1, <1>3
  <1>5. r.op # "RESET_B" => Ready(P, g)
    BY <1>3, <1>4 DEF Ready
  <1>6. r.op # "RESET_B" => GroupOpen(P)
    BY <1>3, <1>4 DEF GroupOpen
  <1>7. ASSUME r.op = "RESET_B", NEW s \in Record, NEW h,
               s.op = "RESET_F", s.lno = r.lno, Leads(s, g, h)
        PROVE  MayPut(P, s, g, h)
    BY <1>3, <1>4, <1>7 DEF MayPut
  <1> QED BY <1>3, <1>5, <1>6, <1>7 DEF P

-----------------------------------------------------------------------------
(* The four operations in a regular session. *)

\* What an operation leaves in the log when it logs its change.
Logged == Ready(lg', file') /\ GroupOpen(lg')

\* The count stays right.
CountOf(c, f) == c.nlines \in {OOBLNO, Len(f)}

LEMMA NoQuirk ==
    ASSUME TypeOK, StartQuirk = {}, ~nolog
    PROVE  lg.cursor # OOBLNO => lg.cursor \in ValidLine(file)
  <1>1. lg.cursor \in Nat /\ Longer(1, Len(file)) \in Nat
    BY SMT DEF TypeOK, LogOK, LogType, Longer
  <1>2. ~(lg.cursor > Longer(1, Len(file)))
    BY DEF StartQuirk
  <1> QED BY <1>1, <1>2 DEF OOBLNO, ValidLine

LEMMA DeleteEffect ==
    ASSUME TypeOK, NEW k, NEW L, DbDelete(k, L)
    PROVE  /\ k \in 1..Len(file) /\ file' = RecDelete(file, k)
           /\ file' \in Seq(Text) /\ Len(file') = Len(file) - 1
           /\ CountOf(cache, file) => CountOf(cache', file')
  <1> DEFINE seen  == Get(cache, file, k)
             after == RecDelete(file, k)
             c1    == IF nolog THEN cache ELSE seen.cache
             c0    == IF k <= c1.lno THEN Flushed(c1) ELSE c1
             c2    == [c0 EXCEPT !.nlines = IF @ = OOBLNO THEN @ ELSE @ - 1]
  <1>1. /\ file \in Seq(Text) /\ cache \in CacheType /\ k \in 1..Len(file)
        /\ file' = after /\ cache' = FirstModify(c2, after)
    BY DEF TypeOK, DbDelete
  <1>2. k \in Nat /\ Len(file) \in Nat
    BY <1>1
  <1>3. after \in Seq(Text) /\ Len(after) = Len(file) - 1
    BY <1>1, DeleteType
  <1> HIDE DEF after
  <1>4. c1 \in CacheType /\ c1.nlines = cache.nlines
    BY <1>1, <1>2, GetType
  <1>5. c0 \in CacheType /\ c0.nlines = cache.nlines
    BY <1>4, FlushedType
  <1> HIDE DEF c0
  <1>6. /\ c2 \in CacheType
        /\ c2.nlines = IF cache.nlines = OOBLNO THEN OOBLNO ELSE cache.nlines - 1
    BY <1>5, SMT DEF CacheType, OOBLNO
  <1> HIDE DEF c2
  <1>7. cache'.nlines \in {c2.nlines, Len(after)}
    BY <1>1, <1>3, <1>6, FirstModifyType
  <1>8. CountOf(cache, file) => CountOf(cache', file')
    BY <1>1, <1>2, <1>3, <1>6, <1>7 DEF CountOf, OOBLNO
  <1> QED BY <1>1, <1>3, <1>8 DEF after

LEMMA DeleteLogged ==
    ASSUME TypeOK, Resting(file), ~nolog, NEW k, DbDelete(k, lg), quirks' = {}
    PROVE  Logged
  <1> DEFINE dead  == MarksOn(marks, k)
             seen  == Get(cache, file, k)
             after == RecDelete(file, k)
             r     == LineRec("DELETE", k, seen.text)
             m     == MarkRec(k, dead)
             S     == LogStart(lg, file)
             L1    == IF dead = {} THEN lg ELSE LogChange(lg, m, file, file)
  <1>1. /\ file \in Seq(Text) /\ cache \in CacheType /\ LogOK(lg)
        /\ marks \in [MarkName -> MarkType] /\ k \in 1..Len(file) /\ k \in Nat \ {0}
        /\ file' = after /\ after \in Seq(Text)
    BY DeleteEffect DEF TypeOK
  <1>2. lg' = LogChange(L1, r, file, after)
    BY DEF DbDelete
  <1>3. StartQuirk = {} /\ seen.text = file[k]
    BY DEF DbDelete
  <1>4. Ready(S, file)
    BY <1>1, <1>3, NoQuirk, StartReady
  <1>5. /\ r \in Record /\ r.op = "DELETE" /\ Leads(r, file, after)
    <2>1. seen.text \in Text
      BY <1>1, GetType
    <2> HIDE DEF seen
    <2> QED BY <1>1, <1>3, <2>1, RecordTypes DEF Ops, LineRec, Leads
  <1> HIDE DEF after, r, S
  <1>6. CASE dead = {}
    <2>1. lg' = LogPut(S, r, after)
      BY <1>2, <1>6 DEF LogChange, S
    <2> QED BY <1>1, <1>4, <1>5, <2>1, ReadyPut DEF Logged
  <1>7. CASE dead # {}
    <2>1. m \in Record /\ m.op = "MARK" /\ Leads(m, file, file)
      BY <1>1, MarkTypes, TextAssumption, RecordTypes DEF MarkRec, Leads
    <2> HIDE DEF m
    <2> DEFINE M == LogPut(S, m, file)
    <2>2. M.cursor = OOBLNO /\ Ready(M, file)
      BY <1>1, <1>4, <2>1, ReadyPut
    <2>3. L1 = M
      BY <1>7 DEF LogChange, S
    <2>4. lg' = LogPut(M, r, after)
      BY <1>2, <2>2, <2>3, StartAgain DEF LogChange
    <2> HIDE DEF M
    <2> QED BY <1>1, <1>5, <2>2, <2>4, ReadyPut DEF Logged
  <1> QED BY <1>6, <1>7

\* The text db_append() and db_insert() log is the one they were given: the
\* cache cannot hold the new line's number from before the put.
LEMMA FreshText ==
    ASSUME NEW c \in CacheType, NEW f \in Seq(Text), NEW k \in 1..Len(f), c.lno # k
    PROVE  Get(FirstModify(c, f), f, k).text = f[k]
  <1>1. k \in Nat /\ k # 0
    OBVIOUS
  <1>2. CASE FirstModify(c, f) = c
    BY <1>1, <1>2 DEF Get, OOBLNO
  <1>3. CASE FirstModify(c, f) # c
    <2>1. FirstModify(c, f) = [lno |-> Len(f), text |-> f[Len(f)], nlines |-> Len(f)]
      BY <1>3 DEF FirstModify, Last
    <2>2. FirstModify(c, f).lno = Len(f) /\ FirstModify(c, f).text = f[Len(f)]
      BY <2>1
    <2> QED BY <1>1, <2>2 DEF Get, OOBLNO
  <1> QED BY <1>2, <1>3

LEMMA AddEffect ==
    ASSUME TypeOK, NEW op \in Added, NEW k \in 1..Len(file) + 1, NEW t \in Text,
           NEW keep \in BOOLEAN, keep => cache.lno # k, NEW L, AddLine(op, k, t, keep, L)
    PROVE  /\ file' = RecInsert(file, k, t)
           /\ file' \in Seq(Text) /\ Len(file') = Len(file) + 1
           /\ CountOf(cache, file) => CountOf(cache', file')
           /\ ~nolog => lg' = LogChange(L, LineRec(op, k, t), file, file')
  <1> DEFINE pad   == RecPad(file, k - 1, Blank)
             after == RecInsert(pad, k, t)
             c0    == IF keep THEN cache ELSE Flushed(cache)
             c1    == [c0 EXCEPT !.nlines = IF @ = OOBLNO THEN @ ELSE @ + 1]
             c2    == FirstModify(c1, after)
             seen  == Get(c2, after, k)
             c3    == IF nolog THEN c2 ELSE seen.cache
  <1>1. /\ file \in Seq(Text) /\ cache \in CacheType /\ Len(file) \in Nat
        /\ k \in Nat \ {0} /\ k - 1 \in Nat /\ k - 1 <= Len(file)
    BY DEF TypeOK
  <1>2. pad = file
    BY <1>1, TextAssumption, PadNothing
  <1>3. after = RecInsert(file, k, t) /\ after \in Seq(Text) /\ Len(after) = Len(file) + 1
        /\ after[k] = t
    BY <1>1, <1>2, InsertType
  <1>4. /\ file' = after
        /\ lg' = IF nolog THEN L ELSE LogChange(L, LineRec(op, k, seen.text), file, after)
        /\ cache' = OnlyLineCache(c3, after)
    BY DEF AddLine
  <1> HIDE DEF after
  <1>5. c0 \in CacheType /\ c0.nlines = cache.nlines /\ c0.lno # k
    BY <1>1, FlushedType DEF OOBLNO
  <1> HIDE DEF c0
  <1>6. /\ c1 \in CacheType /\ c1.lno # k
        /\ c1.nlines = IF cache.nlines = OOBLNO THEN OOBLNO ELSE cache.nlines + 1
    BY <1>5, SMT DEF CacheType, OOBLNO
  <1> HIDE DEF c1
  <1>7. seen.text = t
    <2>1. k \in 1..Len(after)
      BY <1>1, <1>3
    <2> QED BY <1>3, <1>6, <2>1, FreshText
  <1>8. c2 \in CacheType /\ c2.nlines \in {c1.nlines, Len(after)}
    BY <1>3, <1>6, FirstModifyType
  <1> HIDE DEF c2
  <1>9. c3 \in CacheType /\ c3.nlines = c2.nlines
    BY <1>1, <1>3, <1>8, GetType
  <1> HIDE DEF c3
  <1>10. cache'.nlines \in {c3.nlines, Len(after)}
    BY <1>3, <1>4, <1>9, OnlyLineType
  <1>11. CountOf(cache, file) => CountOf(cache', file')
    BY <1>1, <1>3, <1>4, <1>6, <1>8, <1>9, <1>10 DEF CountOf, OOBLNO
  <1> HIDE DEF seen
  <1> QED BY <1>3, <1>4, <1>7, <1>11

LEMMA AddLogged ==
    ASSUME TypeOK, Resting(file), ~nolog, NEW op \in Added, NEW k \in 1..Len(file) + 1,
           NEW t \in Text, NEW keep \in BOOLEAN, keep => cache.lno # k,
           AddLine(op, k, t, keep, lg), quirks' = {}
    PROVE  Logged
  <1> DEFINE r == LineRec(op, k, t)
             S == LogStart(lg, file)
  <1>1. /\ file \in Seq(Text) /\ Len(file) \in Nat /\ k \in Nat \ {0}
        /\ file' = RecInsert(file, k, t) /\ file' \in Seq(Text)
        /\ lg' = LogPut(S, r, file')
    BY AddEffect DEF TypeOK, LogChange
  <1>2. StartQuirk = {}
    BY DEF AddLine
  <1>3. Ready(S, file)
    BY <1>1, <1>2, NoQuirk, StartReady
  <1>4. r \in Record /\ r.op \in Added /\ Leads(r, file, file')
    BY <1>1, RecordTypes DEF Ops, Added, LineRec, Leads
  <1> HIDE DEF r, S
  <1> QED BY <1>1, <1>3, <1>4, ReadyPut DEF Logged, Added

LEMMA AppendInsert ==
    ASSUME TypeOK, NEW t \in Text, NEW L
    PROVE  /\ \A k \in Nat : DbAppend(k, t, L) =>
                 \E keep \in BOOLEAN :
                    (keep => cache.lno # k + 1) /\ AddLine("APPEND", k + 1, t, keep, L)
           /\ \A k \in Nat \ {0} : DbInsert(k, t, L) =>
                 \E keep \in BOOLEAN :
                    (keep => cache.lno # k) /\ AddLine("INSERT", k, t, keep, L)
  <1>1. cache.lno \in Nat
    BY DEF TypeOK, CacheType
  <1>2. ASSUME NEW k \in Nat, DbAppend(k, t, L)
        PROVE  \E keep \in BOOLEAN :
                  (keep => cache.lno # k + 1) /\ AddLine("APPEND", k + 1, t, keep, L)
    <2>1. /\ (~(k < cache.lno)) \in BOOLEAN
          /\ ~(k < cache.lno) => cache.lno # k + 1
      BY <1>1
    <2> QED BY <1>2, <2>1 DEF DbAppend
  <1>3. ASSUME NEW k \in Nat \ {0}, DbInsert(k, t, L)
        PROVE  \E keep \in BOOLEAN :
                  (keep => cache.lno # k) /\ AddLine("INSERT", k, t, keep, L)
    <2>1. /\ (~(k >= cache.lno)) \in BOOLEAN
          /\ ~(k >= cache.lno) => cache.lno # k
      BY <1>1
    <2> QED BY <1>3, <2>1 DEF DbInsert
  <1> QED BY <1>2, <1>3

LEMMA SetEffect ==
    ASSUME TypeOK, NEW k \in 1..Len(file), NEW t \in Text, NEW L, DbSet(k, t, L)
    PROVE  /\ file' = RecPut(file, k, t)
           /\ file' \in Seq(Text) /\ Len(file') = Len(file)
           /\ CountOf(cache, file) => CountOf(cache', file')
           /\ ~nolog => lg' = LogChange(LogChange(L, LineRec("RESET_B", k, file[k]), file, file),
                                        LineRec("RESET_F", k, t), file, file')
  <1> DEFINE old   == GetNoCache(cache, file, k)
             pad   == RecPad(file, k - 1, Blank)
             after == RecPut(pad, k, t)
             c1    == IF nolog THEN cache ELSE old.cache
             c2    == IF c1.lno = k THEN Flushed(c1) ELSE c1
             c3    == FirstModify(c2, after)
             seen  == Get(c3, after, k)
  <1>1. /\ file \in Seq(Text) /\ cache \in CacheType /\ Len(file) \in Nat
        /\ k \in Nat \ {0} /\ k - 1 \in Nat /\ k - 1 <= Len(file) /\ k \in 1..Len(file) + 1
    BY DEF TypeOK
  <1>2. pad = file
    BY <1>1, TextAssumption, PadNothing
  <1>3. /\ after = RecPut(file, k, t) /\ after \in Seq(Text) /\ Len(after) = Len(file)
        /\ after[k] = t
    <2>1. Longer(Len(file), k) = Len(file)
      BY <1>1, SMT DEF Longer
    <2>2. RecPut(file, k, t) \in Seq(Text) /\ Len(RecPut(file, k, t)) = Longer(Len(file), k)
      BY <1>1, PutType
    <2>3. RecPut(file, k, t)[k] = t
      BY <1>1, PutAt
    <2> QED BY <1>2, <2>1, <2>2, <2>3
  <1>4. /\ file' = after
        /\ lg' = IF nolog THEN L
                 ELSE LogChange(LogChange(L, LineRec("RESET_B", k, old.text), file, file),
                                LineRec("RESET_F", k, seen.text), file, after)
        /\ cache' = IF nolog THEN c3 ELSE seen.cache
    BY DEF DbSet
  <1> HIDE DEF after
  <1>5. old.text = file[k]
    BY DEF GetNoCache
  <1>6. c1 \in CacheType /\ c1.nlines = cache.nlines
    BY <1>1, GetNoCacheType
  <1> HIDE DEF c1
  <1>7. c2 \in CacheType /\ c2.nlines = cache.nlines /\ c2.lno # k
    BY <1>1, <1>6, FlushedType DEF OOBLNO
  <1> HIDE DEF c2
  <1>8. seen.text = t
    <2>1. k \in 1..Len(after)
      BY <1>3
    <2> QED BY <1>3, <1>7, <2>1, FreshText
  <1>9. c3 \in CacheType /\ c3.nlines \in {c2.nlines, Len(after)}
    BY <1>3, <1>7, FirstModifyType
  <1> HIDE DEF c3
  <1>10. seen.cache.nlines = c3.nlines
    BY <1>1, <1>3, <1>9, GetType
  <1> HIDE DEF seen, old
  <1>11. CountOf(cache, file) => CountOf(cache', file')
    BY <1>3, <1>4, <1>7, <1>9, <1>10 DEF CountOf
  <1> QED BY <1>3, <1>4, <1>5, <1>8, <1>11

LEMMA SetLogged ==
    ASSUME TypeOK, Resting(file), ~nolog, NEW k \in ValidLine(file), NEW t \in Text,
           DbSet(k, t, lg), quirks' = {}
    PROVE  Logged /\ k \in 1..Len(file)
  <1>1. file \in Seq(Text) /\ Len(file) \in Nat
    BY DEF TypeOK
  <1>2. StartQuirk = {} /\ file # <<>>
    BY DEF DbSet
  <1>3. k \in 1..Len(file) /\ k \in Nat \ {0}
    <2>1. Len(file) # 0
      BY <1>1, <1>2
    <2> QED BY <1>1, <2>1, SMT DEF ValidLine, Longer
  <1> DEFINE b == LineRec("RESET_B", k, file[k])
             r == LineRec("RESET_F", k, t)
             S == LogStart(lg, file)
             B == LogPut(S, b, file)
  <1>4. Ready(S, file)
    BY <1>1, <1>2, NoQuirk, StartReady
  <1>5. file[k] \in Text
    BY <1>1, <1>3
  <1>6. b \in Record /\ b.op = "RESET_B" /\ b.lno = k /\ Leads(b, file, file)
    BY <1>3, <1>5, RecordTypes DEF Ops, LineRec, Leads
  <1>7. /\ file' = RecPut(file, k, t) /\ file' \in Seq(Text)
        /\ lg' = LogChange(LogChange(lg, b, file, file), r, file, file')
    BY <1>3, SetEffect
  <1>8. r \in Record /\ r.op = "RESET_F" /\ r.lno = k /\ Leads(r, file, file')
    BY <1>3, <1>7, RecordTypes DEF Ops, LineRec, Leads
  <1> HIDE DEF b, r, S
  <1>9. B.cursor = OOBLNO /\ MayPut(B, r, file, file')
    BY <1>1, <1>4, <1>6, <1>8, ReadyPut
  <1>10. lg' = LogPut(B, r, file')
    BY <1>7, <1>9, StartAgain DEF LogChange, S
  <1> HIDE DEF B
  <1>11. /\ LogOK(lg') /\ LogShape(lg') /\ lg'.cur = B.cur + 1 /\ lg'.high = B.cur + 1
         /\ lg'.cursor = OOBLNO /\ lg'.snap[B.cur + 1] = file' /\ lg'.rec[B.cur] = r
    BY <1>7, <1>8, <1>9, <1>10, PutShape
  <1>12. B.cur \in Nat /\ B.cur >= 1
    BY <1>9 DEF MayPut, LogOK, LogType
  <1>13. lg'.cur - 1 = B.cur /\ lg'.high - 1 = B.cur /\ lg'.cur > 1 /\ lg'.cur = lg'.high
    BY <1>11, <1>12
  <1> QED BY <1>3, <1>8, <1>11, <1>13 DEF Logged, Ready, GroupOpen

-----------------------------------------------------------------------------
(* Commands that change, read or mark lines, and the start of a command. *)

\* A regular session has been regular all along.
LEMMA RegularBefore ==
    ASSUME IndInv, Next, Regular'
    PROVE  Regular
  <1>1. \A k, L : DbDelete(k, L) => quirks \subseteq quirks'
    BY DEF DbDelete
  <1>2. \A op, k, t, keep, L : AddLine(op, k, t, keep, L) => quirks \subseteq quirks'
    BY DEF AddLine
  <1>3. \A k, t, L : DbSet(k, t, L) => quirks \subseteq quirks'
    BY DEF DbSet
  <1>4. Edit => quirks \subseteq quirks'
    BY <1>1, <1>2, <1>3
       DEF Edit, Delete, AppendLine, InsertLine, SetLine, DbAppend, DbInsert
  <1>5. Look => quirks \subseteq quirks'
    BY DEF Look, ReadLine, ReadLast, UserMark, Motion, LogCursor
  <1>6. (\E dot \in BOOLEAN : Undo(dot)) \/ ExUndo \/ UndoLine => quirks \subseteq quirks'
    BY DEF Undo, ExUndo, UndoLine, BeginReplay
  <1>7. \A k, L : ReplayDelete(k, L) => quirks \subseteq quirks'
    BY <1>1 DEF ReplayDelete
  <1>8. \A r, L : (\/ ReplayInsert(r, L) \/ ReplaySet(r, L) \/ ReplayMark(r, L)
                   \/ ReplayDone(L) \/ PassOver(L) \/ LeaveDone(L))
                    => quirks \subseteq quirks'
    BY <1>2, <1>3 DEF ReplayInsert, ReplaySet, ReplayMark, ReplayDone, PassOver, LeaveDone, DbInsert
  <1>9. LogFailed => quirks \subseteq quirks'
    BY DEF LogFailed
  <1> DEFINE Turn == \/ LogFailed
                     \/ \E r, L : \/ ReplayDone(L) \/ PassOver(L) \/ LeaveDone(L)
                                 \/ ReplayDelete(r.lno, L) \/ ReplayInsert(r, L)
                                 \/ ReplaySet(r, L) \/ ReplayMark(r, L)
  <1>10. UndoStep => Turn
    BY Zenon DEF UndoStep
  <1>11. RedoStep => Turn
    BY Zenon DEF RedoStep
  <1>12. SetlineStep => Turn
    BY Zenon DEF SetlineStep
  <1>14. Turn => quirks \subseteq quirks'
    <2>1. ASSUME NEW r, NEW L,
                 \/ ReplayDone(L) \/ PassOver(L) \/ LeaveDone(L) \/ ReplayDelete(r.lno, L)
                 \/ ReplayInsert(r, L) \/ ReplaySet(r, L) \/ ReplayMark(r, L)
          PROVE  quirks \subseteq quirks'
      BY <1>7, <1>8, <2>1
    <2> QED BY <1>9, <2>1
  <1>13. quirks \subseteq quirks'
    BY <1>4, <1>5, <1>6, <1>10, <1>11, <1>12, <1>14 DEF Next, Replay
  <1> QED BY <1>13 DEF Regular

LEMMA IdleRests ==
    ASSUME TypeOK, LogInv, pc = "cmd"
    PROVE  Resting(file) /\ nolog = FALSE
  BY DEF TypeOK, LogInv, Idle, Resting

LEMMA InvEdit ==
    ASSUME TypeOK, LogInv, CountOf(cache, file), Edit, Regular'
    PROVE  LogInv' /\ CountOf(cache, file)'
  <1>1. pc = "cmd" /\ EditDone /\ quirks' = {}
    BY DEF Edit, Delete, AppendLine, InsertLine, SetLine, Regular
  <1>2. Resting(file) /\ ~nolog /\ LogOK(lg) /\ Len(file) \in Nat /\ file \in Seq(Text)
    <2>1. Resting(file) /\ nolog = FALSE
      BY <1>1, IdleRests
    <2>2. LogOK(lg) /\ file \in Seq(Text)
      BY DEF TypeOK
    <2> QED BY <2>1, <2>2
  <1>3. Logged /\ CountOf(cache', file')
    <2>1. CASE \E k \in 1..Len(file) : Delete(k)
      BY <1>1, <1>2, <2>1, DeleteLogged, DeleteEffect DEF Delete
    <2>2. ASSUME NEW op \in Added, NEW k \in 1..Len(file) + 1, NEW t \in Text,
                 NEW keep \in BOOLEAN, keep => cache.lno # k, AddLine(op, k, t, keep, lg)
          PROVE  Logged /\ CountOf(cache', file')
      BY <1>1, <1>2, <2>2, AddLogged, AddEffect
    <2>3. CASE \E k \in 0..Len(file), t \in Text : AppendLine(k, t)
      <3>1. PICK k \in 0..Len(file), t \in Text : AppendLine(k, t)
        BY <2>3
      <3>2. k \in Nat /\ k + 1 \in 1..Len(file) + 1
        BY <1>2
      <3>3. PICK keep \in BOOLEAN :
               (keep => cache.lno # k + 1) /\ AddLine("APPEND", k + 1, t, keep, lg)
        BY <1>2, <3>1, <3>2, AppendInsert DEF AppendLine
      <3> QED BY <2>2, <3>2, <3>3 DEF Added
    <2>4. CASE \E k \in ValidLine(file), t \in Text : InsertLine(k, t) \/ SetLine(k, t)
      <3>1. PICK k \in ValidLine(file), t \in Text : InsertLine(k, t) \/ SetLine(k, t)
        BY <2>4
      <3>2. k \in Nat \ {0} /\ k \in 1..Len(file) + 1
        BY <1>2, SMT DEF ValidLine, Longer
      <3>3. CASE InsertLine(k, t)
        <4>1. PICK keep \in BOOLEAN :
                 (keep => cache.lno # k) /\ AddLine("INSERT", k, t, keep, lg)
          BY <1>2, <3>2, <3>3, AppendInsert DEF InsertLine
        <4> QED BY <2>2, <3>2, <4>1 DEF Added
      <3>4. CASE SetLine(k, t)
        BY <1>1, <1>2, <3>4, SetLogged, SetEffect DEF SetLine
      <3> QED BY <3>1, <3>3, <3>4
    <2> QED BY <2>1, <2>3, <2>4 DEF Edit
  <1>4. pc' = "cmd" /\ nolog' = FALSE
    BY <1>1, <1>2, IdleRests DEF EditDone
  <1>5. lg'.high \in Nat /\ lg'.cur = lg'.high /\ lg'.snap[lg'.cur] = file'
    BY <1>3 DEF Logged, Ready, LogOK, LogType
  <1>6. LogShape(lg') /\ lg'.cur <= lg'.high /\ GroupOpen(lg') /\ AtBoundary(lg')
    BY <1>3, <1>5 DEF Logged, Ready, AtBoundary
  <1>7. LogInv'
    BY <1>4, <1>5, <1>6 DEF LogInv, Idle
  <1> QED BY <1>3, <1>7 DEF CountOf

LEMMA InvLook ==
    ASSUME TypeOK, LogInv, CountOf(cache, file), Look, Regular'
    PROVE  LogInv' /\ CountOf(cache, file)'
  <1>1. /\ file \in Seq(Text) /\ cache \in CacheType /\ LogOK(lg) /\ Len(file) \in Nat
    BY DEF TypeOK
  <1>2. CASE \E k \in 1..Len(file) + 1 : ReadLine(k)
    <2>1. PICK k \in 1..Len(file) + 1 : ReadLine(k)
      BY <1>2
    <2>2. cache'.nlines = cache.nlines /\ file' = file
      BY <1>1, <2>1, GetType DEF ReadLine
    <2>3. LogInv'
      BY <2>1 DEF ReadLine, LogInv, Idle
    <2> QED BY <2>2, <2>3 DEF CountOf
  <1>3. CASE ReadLast
    <2>1. cache'.nlines \in {cache.nlines, Len(file)} /\ file' = file
      BY <1>1, <1>3, LastType DEF ReadLast
    <2>2. LogInv'
      BY <1>3 DEF ReadLast, LogInv, Idle
    <2> QED BY <2>1, <2>2 DEF CountOf
  <1>4. CASE (\E m \in MarkName : UserMark(m)) \/ \E l \in ValidLine(file) : Motion(l)
    BY <1>4 DEF UserMark, Motion, LogInv, Idle, CountOf
  <1>5. CASE LogCursor
    <2>1. /\ pc = "cmd" /\ lno \in ValidLine(file) /\ nolog = FALSE /\ Resting(file)
          /\ pc' = pc /\ nolog' = nolog /\ file' = file /\ cache' = cache
      BY <1>5, IdleRests DEF LogCursor
    <2>2. lno \in Nat \ {0}
      BY <1>1, <2>1, SMT DEF ValidLine, Longer
    <2>3. CASE lg.cursor = OOBLNO
      <3> DEFINE r == CursorRec("END", lno)
                 P == LogPut(lg, r, file)
      <3>1. r \in Record /\ r.op = "END" /\ Leads(r, file, file)
        BY <2>1, <2>2, TextAssumption, RecordTypes DEF Ops, CursorRec, Leads
      <3>2. MayPut(lg, r, file, file)
        BY <2>1, <2>3, <3>1 DEF MayPut, Resting, GroupOpen
      <3>3. /\ LogOK(P) /\ LogShape(P) /\ P.cur = lg.cur + 1 /\ P.high = lg.cur + 1
            /\ P.snap[lg.cur + 1] = file /\ P.rec[lg.cur] = r
        BY <1>1, <3>1, <3>2, PutShape
      <3>4. lg' = [P EXCEPT !.cursor = lno]
        BY <1>5, <2>1, <2>3 DEF LogCursor
      <3> HIDE DEF P, r
      <3>5. /\ LogOK(lg') /\ lg'.cursor = lno /\ lg'.rec = P.rec /\ lg'.snap = P.snap
            /\ lg'.cur = P.cur /\ lg'.high = P.high
        BY <2>2, <3>3, <3>4, LogCursorSet
      <3>6. LogShape(lg')
        BY <3>3, <3>5 DEF LogShape, Follows
      <3>7. lg.cur \in Nat /\ lg'.high - 1 = lg.cur
        BY <1>1, <3>3, <3>5 DEF LogOK, LogType
      <3>8. GroupOpen(lg') /\ AtBoundary(lg') /\ lg'.cur <= lg'.high
        BY <2>2, <3>1, <3>3, <3>5, <3>7 DEF GroupOpen, AtBoundary, OOBLNO
      <3>9. LogInv'
        BY <2>1, <3>3, <3>5, <3>6, <3>8 DEF LogInv, Idle
      <3> QED BY <2>1, <3>9 DEF CountOf
    <2>4. CASE lg.cursor # OOBLNO
      <3>1. lg' = [lg EXCEPT !.cursor = lno]
        BY <1>5, <2>1, <2>4 DEF LogCursor
      <3>2. /\ lg'.cursor = lno /\ lg'.rec = lg.rec /\ lg'.snap = lg.snap
            /\ lg'.cur = lg.cur /\ lg'.high = lg.high
        BY <1>1, <2>2, <3>1, LogCursorSet
      <3>3. LogShape(lg')
        BY <2>1, <3>2 DEF Resting, LogShape, Follows
      <3>4. GroupOpen(lg') /\ AtBoundary(lg') /\ lg'.cur <= lg'.high /\ lg'.snap[lg'.cur] = file
        BY <2>1, <2>2, <2>4, <3>2 DEF Resting, GroupOpen, AtBoundary, OOBLNO
      <3>5. LogInv'
        BY <2>1, <3>3, <3>4 DEF LogInv, Idle
      <3> QED BY <2>1, <3>5 DEF CountOf
    <2> QED BY <2>3, <2>4
  <1> QED BY <1>2, <1>3, <1>4, <1>5 DEF Look

LEMMA InvBegin ==
    ASSUME TypeOK, LogInv, CountOf(cache, file), Regular',
           (\E dot \in BOOLEAN : Undo(dot)) \/ ExUndo \/ UndoLine
    PROVE  LogInv' /\ CountOf(cache, file)'
  <1>1. PICK how \in {"undo", "redo", "setline"} : BeginReplay(how)
    BY DEF Undo, ExUndo, UndoLine
  <1>2. pc = "cmd" /\ Resting(file) /\ nolog = FALSE
    BY IdleRests DEF Undo, ExUndo, UndoLine
  <1>3. UNCHANGED <<file, cache, lg>>
    BY <1>1 DEF BeginReplay
  <1>4. CASE ~CanReplay(how)
    BY <1>1, <1>2, <1>3, <1>4 DEF BeginReplay, LogInv, Idle, CountOf
  <1>5. CASE CanReplay(how)
    <2>1. pc' = how /\ nolog' = TRUE /\ didop' = FALSE /\ lg.cursor # OOBLNO
      BY <1>1, <1>5 DEF BeginReplay, Regular
    <2>2. lg.cur \in Nat /\ lg.high \in Nat /\ lg.cur >= 1 /\ lg.cur <= lg.high
      BY <1>2 DEF Resting, LogOK, LogType
    <2>3. lg.cur < lg.high => lg.rec[lg.cur].op = "INIT" /\ lg.snap[lg.cur + 1] = file
      <3>1. ASSUME lg.cur < lg.high
            PROVE  lg.rec[lg.cur].op = "INIT" /\ lg.snap[lg.cur + 1] = file
        <4>1. lg.rec[lg.cur].op = "INIT" /\ lg.snap[lg.cur] = file
          BY <1>2, <2>2, <3>1 DEF Resting, AtBoundary
        <4>2. lg.cur \in 1..lg.high - 1
          BY <2>2, <3>1
        <4>3. Leads(lg.rec[lg.cur], lg.snap[lg.cur], lg.snap[lg.cur + 1])
          BY <1>2, <4>2 DEF Resting, LogShape
        <4> QED BY <4>1, <4>3 DEF Leads, Added
      <3> QED BY <3>1
    <2>4. BackContent(lg) = file
      BY <1>2, <2>3 DEF BackContent, Resting
    <2>5. how # "redo" => lg.cur > 1
      BY <1>5, <2>2 DEF CanReplay
    <2>6. how = "redo" => lg.cur < lg.high
      BY <1>5, <2>2 DEF CanReplay
    <2>7. LogInv'
      BY <1>2, <1>3, <2>1, <2>3, <2>4, <2>5, <2>6 DEF LogInv, Idle, Resting
    <2> QED BY <1>3, <2>7 DEF CountOf
  <1> QED BY <1>4, <1>5

-----------------------------------------------------------------------------
(* Undo and redo. *)

\* The log after a turn of a replay: nothing but l_cur has moved, to j.
Moved(j) ==
    /\ LogOK(lg') /\ lg'.cur = j
    /\ lg'.rec = lg.rec /\ lg'.snap = lg.snap
    /\ lg'.high = lg.high /\ lg'.cursor = lg.cursor

LEMMA MovedTo ==
    ASSUME LogOK(lg), NEW j \in 1..Len(lg.rec) + 1, lg' = [lg EXCEPT !.cur = j]
    PROVE  Moved(j)
  BY LogCurSet DEF Moved

\* A line operation of a replay logs nothing and does its work.
LEMMA ReplayedDelete ==
    ASSUME TypeOK, nolog = TRUE, CountOf(cache, file), NEW L, NEW k \in 1..Len(file),
           ReplayDelete(k, L)
    PROVE  /\ file' = RecDelete(file, k) /\ lg' = L /\ CountOf(cache', file')
           /\ pc' = pc /\ nolog' = TRUE /\ didop' = TRUE
  <1>1. DbDelete(k, L) /\ ReplayOn /\ didop' = TRUE
    BY DEF ReplayDelete
  <1>2. file' = RecDelete(file, k) /\ CountOf(cache', file')
    BY <1>1, DeleteEffect
  <1>3. lg' = L
    BY <1>1 DEF DbDelete
  <1> QED BY <1>1, <1>2, <1>3 DEF ReplayOn

LEMMA ReplayedInsert ==
    ASSUME TypeOK, nolog = TRUE, CountOf(cache, file), NEW L, NEW r \in Record,
           r.lno \in 1..Len(file) + 1, ReplayInsert(r, L)
    PROVE  /\ file' = RecInsert(file, r.lno, r.text) /\ lg' = L /\ CountOf(cache', file')
           /\ pc' = pc /\ nolog' = TRUE /\ didop' = TRUE
  <1>1. DbInsert(r.lno, r.text, L) /\ ReplayOn /\ didop' = TRUE
    BY DEF ReplayInsert
  <1>2. r.lno \in Nat \ {0} /\ r.text \in Text
    BY DEF Record
  <1>3. PICK keep \in BOOLEAN :
           (keep => cache.lno # r.lno) /\ AddLine("INSERT", r.lno, r.text, keep, L)
    BY <1>1, <1>2, AppendInsert
  <1>4. file' = RecInsert(file, r.lno, r.text) /\ CountOf(cache', file')
    BY <1>2, <1>3, AddEffect DEF Added
  <1>5. lg' = L
    BY <1>3 DEF AddLine
  <1> QED BY <1>1, <1>4, <1>5 DEF ReplayOn

LEMMA ReplayedSet ==
    ASSUME TypeOK, nolog = TRUE, CountOf(cache, file), NEW L, NEW r \in Record,
           r.lno \in 1..Len(file), ReplaySet(r, L)
    PROVE  /\ file' = RecPut(file, r.lno, r.text) /\ lg' = L /\ CountOf(cache', file')
           /\ pc' = pc /\ nolog' = TRUE /\ didop' = TRUE
  <1>1. DbSet(r.lno, r.text, L) /\ ReplayOn /\ didop' = TRUE
    BY DEF ReplaySet
  <1>2. r.text \in Text
    BY DEF Record
  <1>3. file' = RecPut(file, r.lno, r.text) /\ CountOf(cache', file')
    BY <1>1, <1>2, SetEffect
  <1>4. lg' = L
    BY <1>1 DEF DbSet
  <1> QED BY <1>1, <1>3, <1>4 DEF ReplayOn

\* A replay that ends where a group starts, or where the log does, with the
\* content of that place, leaves the state commands work from.
LEMMA ReplayStops ==
    ASSUME TypeOK, LogInv, pc # "cmd", pc' = "cmd", nolog' = FALSE,
           NEW j \in 1..lg.high, Moved(j), file' = lg.snap[j],
           j = lg.high \/ lg.rec[j].op = "INIT"
    PROVE  LogInv'
  <1>1. LogShape(lg) /\ GroupOpen(lg) /\ lg.cursor # OOBLNO /\ lg.high \in Nat
    BY DEF LogInv, Idle, TypeOK, LogOK, LogType
  <1>2. LogShape(lg') /\ GroupOpen(lg') /\ AtBoundary(lg') /\ lg'.cur <= lg'.high
        /\ file' = lg'.snap[lg'.cur]
    BY <1>1 DEF Moved, LogShape, Follows, GroupOpen, AtBoundary
  <1> QED BY <1>2 DEF LogInv, Idle

\* What the record behind l_cur is, for a replay that goes back.
LEMMA BackTurn ==
    ASSUME TypeOK, LogInv, pc \in {"undo", "setline"},
           NEW i, i = lg.cur - 1, NEW r, r = lg.rec[i]
    PROVE  /\ i \in 1..lg.high - 1 /\ i \in 1..Len(lg.rec) + 1 /\ lg.cur = i + 1
           /\ lg.cur \in 1..lg.high
           /\ r \in Record /\ Leads(r, lg.snap[i], lg.snap[lg.cur]) /\ Follows(lg, i)
           /\ lg.snap[i] \in Seq(Text) /\ lg.snap[lg.cur] \in Seq(Text)
           /\ r.op # "INIT" => i > 1
           /\ lg.cur < lg.high => Follows(lg, lg.cur)
           /\ r.op # "RESET_B" => file = lg.snap[lg.cur]
  <1>1. /\ LogOK(lg) /\ LogShape(lg) /\ lg.cur <= lg.high /\ lg.cur > 1 /\ file = BackContent(lg)
    BY DEF TypeOK, LogInv
  <1>2. /\ lg.rec \in Seq(Record) /\ lg.snap \in Seq(Seq(Text)) /\ Len(lg.snap) = lg.high
        /\ lg.cur \in Nat /\ lg.high \in Nat /\ lg.high \in 1..Len(lg.rec) + 1
    BY <1>1 DEF LogOK, LogType
  <1>3. /\ i \in 1..lg.high - 1 /\ i \in 1..Len(lg.rec) + 1 /\ i \in 1..Len(lg.rec)
        /\ lg.cur = i + 1 /\ lg.cur \in 1..lg.high /\ i \in 1..lg.high
    <2>1. Len(lg.rec) \in Nat
      BY <1>2
    <2> QED BY <1>1, <1>2, <2>1, OneBack, Zenon
  <1>4. r \in Record /\ lg.snap[i] \in Seq(Text) /\ lg.snap[lg.cur] \in Seq(Text)
    BY <1>2, <1>3
  <1>5. Leads(r, lg.snap[i], lg.snap[lg.cur]) /\ Follows(lg, i)
    BY <1>1, <1>3 DEF LogShape
  <1>6. r.op # "INIT" => i > 1
    <2>1. r.op # "INIT" => i # 1
      BY <1>5 DEF Follows
    <2> QED BY <1>2, <1>3, <2>1
  <1>7. lg.cur < lg.high => lg.cur \in 1..lg.high - 1
    BY <1>2, <1>3
  <1>8. lg.cur < lg.high => Follows(lg, lg.cur)
    BY <1>1, <1>7 DEF LogShape
  <1>9. r.op # "RESET_B" => file = lg.snap[lg.cur]
    BY <1>1, <1>8 DEF BackContent, Follows
  <1> QED BY <1>3, <1>4, <1>5, <1>6, <1>8, <1>9

\* Taking that record back gives the content before it.
LEMMA TakenBack ==
    ASSUME TypeOK, LogInv, pc \in {"undo", "setline"},
           NEW i, i = lg.cur - 1, NEW r, r = lg.rec[i]
    PROVE  /\ r.op \in Added =>
                r.lno \in 1..Len(file) /\ RecDelete(file, r.lno) = lg.snap[i]
           /\ r.op = "DELETE" =>
                r.lno \in 1..Len(file) + 1 /\ RecInsert(file, r.lno, r.text) = lg.snap[i]
           /\ r.op = "RESET_B" =>
                r.lno \in 1..Len(file) /\ RecPut(file, r.lno, r.text) = lg.snap[i]
           /\ r.op \in {"INIT", "END", "MARK"} => file = lg.snap[i]
  <1> DEFINE s == lg.snap[i]
             t == lg.snap[lg.cur]
  <1>1. /\ r \in Record /\ Leads(r, s, t) /\ s \in Seq(Text) /\ t \in Seq(Text)
        /\ lg.cur < lg.high => Follows(lg, lg.cur)
        /\ r.op # "RESET_B" => file = t
        /\ lg.cur = i + 1 /\ lg.cur \in 1..lg.high
    BY BackTurn
  <1>2. /\ file = BackContent(lg) /\ lg.high \in Nat /\ lg.cur \in Nat
        /\ lg.cur < lg.high =>
             Leads(lg.rec[lg.cur], lg.snap[lg.cur], lg.snap[lg.cur + 1])
    <2>1. LogOK(lg) /\ LogShape(lg) /\ file = BackContent(lg)
      BY DEF TypeOK, LogInv
    <2>2. lg.high \in Nat /\ lg.cur \in Nat
      BY <2>1 DEF LogOK, LogType
    <2>3. lg.cur < lg.high => lg.cur \in 1..lg.high - 1
      BY <1>1, <2>2
    <2> QED BY <2>1, <2>2, <2>3 DEF LogShape
  <1>3. r.lno \in Nat \ {0} /\ r.text \in Text
    BY <1>1 DEF Record
  <1> HIDE DEF s, t
  <1>8. s \in Seq(Text)
    BY <1>1
  <1>4. ASSUME r.op \in Added
        PROVE  r.lno \in 1..Len(file) /\ RecDelete(file, r.lno) = s
    <2>1. file = RecInsert(s, r.lno, r.text) /\ r.lno \in 1..Len(s) + 1
      BY <1>1, <1>4 DEF Leads, Added
    <2>2. /\ RecDelete(RecInsert(s, r.lno, r.text), r.lno) = s
          /\ r.lno \in 1..Len(RecInsert(s, r.lno, r.text))
      BY <1>3, <1>8, <2>1, DeleteInserted
    <2> QED BY <2>1, <2>2
  <1>5. ASSUME r.op = "DELETE"
        PROVE  r.lno \in 1..Len(file) + 1 /\ RecInsert(file, r.lno, r.text) = s
    <2>1. file = RecDelete(s, r.lno) /\ r.lno \in 1..Len(s) /\ r.text = s[r.lno]
      BY <1>1, <1>5 DEF Leads, Added
    <2>2. /\ RecInsert(RecDelete(s, r.lno), r.lno, s[r.lno]) = s
          /\ r.lno \in 1..Len(RecDelete(s, r.lno)) + 1
      BY <1>8, <2>1, InsertDeleted
    <2> QED BY <2>1, <2>2
  <1>6. ASSUME r.op = "RESET_B"
        PROVE  r.lno \in 1..Len(file) /\ RecPut(file, r.lno, r.text) = s
    <2>1. r.lno \in 1..Len(s) /\ r.text = s[r.lno] /\ t = s
      BY <1>1, <1>6 DEF Leads, Added
    <2>2. CASE lg.cur < lg.high /\ lg.rec[lg.cur].op = "RESET_F"
      <3> DEFINE q == lg.rec[lg.cur]
      <3>1. q.lno = r.lno
        <4>1. Follows(lg, lg.cur) /\ lg.cur - 1 = i
          BY <1>1, <1>2, <2>2
        <4> QED BY <2>2, <4>1 DEF Follows
      <3>2. Leads(q, t, file)
        BY <1>2, <2>2 DEF BackContent, t
      <3>3. q \in Record
        <4>1. lg.rec \in Seq(Record) /\ lg.high \in 1..Len(lg.rec) + 1
          BY DEF TypeOK, LogOK, LogType
        <4>2. lg.cur \in 1..Len(lg.rec)
          BY <1>1, <1>2, <2>2, <4>1
        <4> QED BY <4>1, <4>2
      <3>4. q.op = "RESET_F"
        BY <2>2
      <3> HIDE DEF q
      <3>5. q.text \in Text
        BY <3>3 DEF Record
      <3>6. file = RecPut(s, r.lno, q.text)
        BY <2>1, <3>1, <3>2, <3>4 DEF Leads, Added
      <3>7. /\ RecPut(RecPut(s, r.lno, q.text), r.lno, s[r.lno]) = s
            /\ r.lno \in 1..Len(RecPut(s, r.lno, q.text))
        BY <1>8, <2>1, <3>5, PutBack
      <3> QED BY <2>1, <3>6, <3>7
    <2>3. CASE ~(lg.cur < lg.high /\ lg.rec[lg.cur].op = "RESET_F")
      <3>1. file = s
        BY <1>2, <2>1, <2>3 DEF BackContent, t
      <3>2. RecPut(s, r.lno, s[r.lno]) = s
        BY <1>8, <2>1, PutSame
      <3> QED BY <2>1, <3>1, <3>2
    <2> QED BY <2>2, <2>3
  <1>7. r.op \in {"INIT", "END", "MARK"} => file = s
    BY <1>1 DEF Leads, Added
  <1> QED BY <1>4, <1>5, <1>6, <1>7 DEF s

\* A turn of a replay that goes back and on keeps the invariant.
LEMMA BackGoesOn ==
    ASSUME TypeOK, LogInv, pc \in {"undo", "setline"}, pc' = pc, nolog' = nolog,
           NEW i, i = lg.cur - 1, NEW r, r = lg.rec[i], Moved(i), i > 1,
           file' = IF r.op = "RESET_F" THEN lg.snap[lg.cur] ELSE lg.snap[i],
           pc = "undo" =>
              IF didop' THEN r.op \notin {"INIT", "END"} ELSE r.op \in {"END", "RESET_F"}
    PROVE  LogInv'
  <1>1. /\ i \in 1..lg.high - 1 /\ lg.cur = i + 1
    BY BackTurn
  <1>2. LogShape(lg) /\ GroupOpen(lg) /\ lg.cursor # OOBLNO /\ lg.high \in Nat /\ nolog = TRUE
    BY DEF LogInv, Idle, TypeOK, LogOK, LogType
  <1>3. LogShape(lg') /\ GroupOpen(lg') /\ lg'.cursor # OOBLNO
    BY <1>2 DEF Moved, LogShape, Follows, GroupOpen
  <1>4. lg'.cur = i /\ lg'.cur < lg'.high /\ lg'.rec[lg'.cur] = r /\ lg'.cur > 1
    BY <1>1, <1>2 DEF Moved
  <1>5. lg'.cur <= lg'.high
    BY <1>1, <1>2 DEF Moved
  <1>6. file' = BackContent(lg')
    BY <1>1, <1>4 DEF Moved, BackContent
  <1> QED BY <1>2, <1>3, <1>4, <1>5, <1>6 DEF LogInv, Idle

\* One turn of log_backward().
LEMMA InvUndo ==
    ASSUME TypeOK, LogInv, CountOf(cache, file), UndoStep
    PROVE  LogInv' /\ CountOf(cache', file')
  <1> DEFINE i == lg.cur - 1
             r == lg.rec[i]
             L == [lg EXCEPT !.cur = i]
  <1>1. pc = "undo" /\ nolog = TRUE /\ pc \in {"undo", "setline"} /\ LogOK(lg)
    BY DEF UndoStep, LogInv, Idle, TypeOK
  <1>2. /\ i \in 1..lg.high - 1 /\ i \in 1..Len(lg.rec) + 1 /\ lg.cur = i + 1
        /\ r \in Record /\ Leads(r, lg.snap[i], lg.snap[lg.cur]) /\ Follows(lg, i)
        /\ r.op # "INIT" => i > 1
        /\ lg.cur < lg.high => Follows(lg, lg.cur)
        /\ r.op # "RESET_B" => file = lg.snap[lg.cur]
    BY <1>1, BackTurn
  <1>3. lg' = L => Moved(i)
    BY <1>1, <1>2, MovedTo
  <1>4. i # 0 /\ i \in 1..lg.high
    <2>1. lg.high \in Nat
      BY <1>1 DEF LogOK, LogType
    <2> QED BY <1>2, <2>1
  <1>5. \* With nothing undone yet the record behind is not the start of a
        \* group; with something undone it is not the end of one.
        /\ ~didop => r.op # "INIT"
        /\ didop => r.op # "END"
    <2>1. /\ lg.high \in Nat /\ lg.cur - 1 = i /\ lg.cur > 1
          /\ lg.cursor # OOBLNO /\ GroupOpen(lg)
      BY <1>1, <1>2 DEF LogInv, LogOK, LogType, Idle
    <2>2. IF didop THEN lg.cur < lg.high /\ lg.rec[lg.cur].op \notin {"INIT", "END"}
          ELSE \/ AtBoundary(lg)
               \/ lg.cur < lg.high /\ lg.rec[lg.cur].op \in {"END", "RESET_F"}
      BY <1>1 DEF LogInv
    <2>3. CASE lg.cur = lg.high
      BY <2>1, <2>2, <2>3 DEF GroupOpen
    <2>4. CASE lg.cur < lg.high
      BY <1>2, <2>1, <2>2, <2>4 DEF Follows, AtBoundary
    <2>5. lg.cur = lg.high \/ lg.cur < lg.high
      BY <1>2, <2>1
    <2> QED BY <2>3, <2>4, <2>5
  <1> HIDE DEF r, L
  <1>6. \/ r.op = "INIT" /\ didop /\ ReplayDone(L)
        \/ r.op \in {"END", "RESET_F"} /\ PassOver(L)
        \/ r.op \in Added /\ ReplayDelete(r.lno, L)
        \/ r.op = "DELETE" /\ ReplayInsert(r, L)
        \/ r.op = "RESET_B" /\ ReplaySet(r, L)
        \/ r.op = "MARK" /\ ReplayMark(r, L)
    BY <1>4, <1>5 DEF UndoStep, r, L
  <1>7. CASE r.op = "INIT" /\ didop /\ ReplayDone(L)
    <2>1. pc' = "cmd" /\ nolog' = FALSE /\ lg' = L /\ file' = file /\ cache' = cache
      BY <1>7 DEF ReplayDone
    <2>2. file' = lg.snap[i]
      BY <1>1, <1>7, <2>1, TakenBack DEF r
    <2>3. LogInv'
      BY <1>1, <1>3, <1>4, <1>7, <2>1, <2>2, ReplayStops DEF r
    <2> QED BY <2>1, <2>3
  <1>8. ASSUME r.op # "INIT", lg' = L, pc' = pc, nolog' = TRUE, CountOf(cache', file'),
               file' = IF r.op = "RESET_F" THEN lg.snap[lg.cur] ELSE lg.snap[i],
               \/ didop' = TRUE /\ r.op # "END"
               \/ didop' = didop /\ r.op \in {"END", "RESET_F"}
        PROVE  LogInv' /\ CountOf(cache', file')
    <2>1. Moved(i) /\ i > 1 /\ nolog' = nolog
      BY <1>1, <1>2, <1>3, <1>8 DEF r
    <2>2. IF didop' THEN r.op \notin {"INIT", "END"} ELSE r.op \in {"END", "RESET_F"}
      BY <1>5, <1>8
    <2> QED BY <1>1, <1>8, <2>1, <2>2, BackGoesOn DEF r
  <1>9. CASE r.op \in {"END", "RESET_F"} /\ PassOver(L)
    <2>1. /\ lg' = L /\ pc' = pc /\ nolog' = TRUE /\ file' = file /\ cache' = cache
          /\ didop' = didop
      BY <1>1, <1>9 DEF PassOver
    <2>2. file' = IF r.op = "RESET_F" THEN lg.snap[lg.cur] ELSE lg.snap[i]
      BY <1>1, <1>2, <1>9, <2>1, TakenBack DEF r
    <2> QED BY <1>8, <1>9, <2>1, <2>2
  <1>10. CASE r.op \in Added /\ ReplayDelete(r.lno, L)
    <2>1. r.lno \in 1..Len(file) /\ RecDelete(file, r.lno) = lg.snap[i]
      BY <1>1, <1>10, TakenBack DEF r
    <2>2. /\ file' = lg.snap[i] /\ lg' = L /\ CountOf(cache', file')
          /\ pc' = pc /\ nolog' = TRUE /\ didop' = TRUE
      BY <1>1, <1>10, <2>1, ReplayedDelete
    <2> QED BY <1>8, <1>10, <2>2 DEF Added
  <1>11. CASE r.op = "DELETE" /\ ReplayInsert(r, L)
    <2>1. r.lno \in 1..Len(file) + 1 /\ RecInsert(file, r.lno, r.text) = lg.snap[i]
      BY <1>1, <1>11, TakenBack DEF r
    <2>2. /\ file' = lg.snap[i] /\ lg' = L /\ CountOf(cache', file')
          /\ pc' = pc /\ nolog' = TRUE /\ didop' = TRUE
      BY <1>1, <1>2, <1>11, <2>1, ReplayedInsert DEF r
    <2> QED BY <1>8, <1>11, <2>2
  <1>12. CASE r.op = "RESET_B" /\ ReplaySet(r, L)
    <2>1. r.lno \in 1..Len(file) /\ RecPut(file, r.lno, r.text) = lg.snap[i]
      BY <1>1, <1>12, TakenBack DEF r
    <2>2. /\ file' = lg.snap[i] /\ lg' = L /\ CountOf(cache', file')
          /\ pc' = pc /\ nolog' = TRUE /\ didop' = TRUE
      BY <1>1, <1>2, <1>12, <2>1, ReplayedSet DEF r
    <2> QED BY <1>8, <1>12, <2>2
  <1>13. CASE r.op = "MARK" /\ ReplayMark(r, L)
    <2>1. /\ lg' = L /\ pc' = pc /\ nolog' = TRUE /\ file' = file /\ cache' = cache
          /\ didop' = TRUE
      BY <1>1, <1>13 DEF ReplayMark
    <2>2. file' = lg.snap[i]
      BY <1>1, <1>13, <2>1, TakenBack DEF r
    <2> QED BY <1>8, <1>13, <2>1, <2>2
  <1> QED BY <1>6, <1>7, <1>9, <1>10, <1>11, <1>12, <1>13

\* One turn of log_setline(), in a session that stays regular.
LEMMA InvSetline ==
    ASSUME TypeOK, LogInv, CountOf(cache, file), SetlineStep, Regular'
    PROVE  LogInv' /\ CountOf(cache', file')
  <1> DEFINE i == lg.cur - 1
             r == lg.rec[i]
             L == [lg EXCEPT !.cur = i]
  <1>1. pc = "setline" /\ nolog = TRUE /\ pc \in {"undo", "setline"} /\ LogOK(lg)
    BY DEF SetlineStep, LogInv, Idle, TypeOK
  <1>2. /\ i \in 1..lg.high - 1 /\ i \in 1..Len(lg.rec) + 1 /\ lg.cur = i + 1
        /\ lg.cur \in 1..lg.high
        /\ r \in Record
        /\ r.op # "INIT" => i > 1
        /\ lg.cur < lg.high => Follows(lg, lg.cur)
        /\ r.op # "RESET_B" => file = lg.snap[lg.cur]
    BY <1>1, BackTurn
  <1>3. lg' = L => Moved(i)
    BY <1>1, <1>2, MovedTo
  <1>4. i # 0 /\ i \in 1..lg.high /\ lg.high \in Nat
    <2>1. lg.high \in Nat
      BY <1>1 DEF LogOK, LogType
    <2> QED BY <1>2, <2>1
  <1> HIDE DEF r, L
  <1>5. ~LeaveDone(L)
    BY DEF LeaveDone, Regular
  <1>6. \/ r.op = "INIT" /\ ReplayDone(L)
        \/ r.op = "END" /\ ReplayDone(lg)
        \/ r.op \in {"INIT", "END", "RESET_F"} /\ (r.op = "INIT" => i # 1) /\ PassOver(L)
        \/ r.op = "RESET_B" /\ ReplaySet(r, L)
        \/ r.op = "MARK" /\ ReplayMark(r, L)
    BY <1>4, <1>5 DEF SetlineStep, r, L
  <1>7. CASE r.op = "INIT" /\ ReplayDone(L)
    <2>1. pc' = "cmd" /\ nolog' = FALSE /\ lg' = L /\ file' = file /\ cache' = cache
      BY <1>7 DEF ReplayDone
    <2>2. file' = lg.snap[i]
      BY <1>1, <1>7, <2>1, TakenBack DEF r
    <2>3. LogInv'
      BY <1>1, <1>3, <1>4, <1>7, <2>1, <2>2, ReplayStops DEF r
    <2> QED BY <2>1, <2>3
  <1>8. CASE r.op = "END" /\ ReplayDone(lg)
    <2>1. pc' = "cmd" /\ nolog' = FALSE /\ lg' = lg /\ file' = file /\ cache' = cache
      BY <1>8 DEF ReplayDone
    <2>2. Moved(lg.cur) /\ file' = lg.snap[lg.cur]
      BY <1>1, <1>2, <1>8, <2>1 DEF Moved
    <2>3. lg.cur = lg.high \/ lg.rec[lg.cur].op = "INIT"
      <3>1. CASE lg.cur < lg.high
        <4>1. lg.cur - 1 = i /\ Follows(lg, lg.cur)
          BY <1>2, <3>1
        <4> QED BY <1>8, <4>1 DEF Follows, r
      <3> QED BY <1>2, <1>4, <3>1
    <2>4. LogInv'
      BY <1>1, <1>2, <2>1, <2>2, <2>3, ReplayStops
    <2> QED BY <2>1, <2>4
  <1>9. ASSUME lg' = L, pc' = pc, nolog' = TRUE, CountOf(cache', file'), i > 1,
               file' = IF r.op = "RESET_F" THEN lg.snap[lg.cur] ELSE lg.snap[i]
        PROVE  LogInv' /\ CountOf(cache', file')
    <2>1. Moved(i) /\ nolog' = nolog
      BY <1>1, <1>3, <1>9
    <2>2. pc # "undo"
      BY <1>1
    <2> QED BY <1>1, <1>9, <2>1, <2>2, BackGoesOn DEF r
  <1>10. CASE r.op \in {"INIT", "END", "RESET_F"} /\ (r.op = "INIT" => i # 1) /\ PassOver(L)
    <2>1. lg' = L /\ pc' = pc /\ nolog' = TRUE /\ file' = file /\ cache' = cache
      BY <1>1, <1>10 DEF PassOver
    <2>2. file' = IF r.op = "RESET_F" THEN lg.snap[lg.cur] ELSE lg.snap[i]
      BY <1>1, <1>2, <1>10, <2>1, TakenBack DEF r
    <2>3. i > 1
      <3> HIDE DEF i
      <3> QED BY <1>2, <1>4, <1>10
    <2> QED BY <1>9, <2>1, <2>2, <2>3
  <1>11. CASE r.op = "RESET_B" /\ ReplaySet(r, L)
    <2>1. r.lno \in 1..Len(file) /\ RecPut(file, r.lno, r.text) = lg.snap[i]
      BY <1>1, <1>11, TakenBack DEF r
    <2>2. /\ file' = lg.snap[i] /\ lg' = L /\ CountOf(cache', file')
          /\ pc' = pc /\ nolog' = TRUE
      BY <1>1, <1>2, <1>11, <2>1, ReplayedSet DEF r
    <2> QED BY <1>2, <1>9, <1>11, <2>2
  <1>12. CASE r.op = "MARK" /\ ReplayMark(r, L)
    <2>1. lg' = L /\ pc' = pc /\ nolog' = TRUE /\ file' = file /\ cache' = cache
      BY <1>1, <1>12 DEF ReplayMark
    <2>2. file' = lg.snap[i]
      BY <1>1, <1>12, <2>1, TakenBack DEF r
    <2> QED BY <1>2, <1>9, <1>12, <2>1, <2>2
  <1> QED BY <1>6, <1>7, <1>8, <1>10, <1>11, <1>12

\* The record ahead of l_cur, for a replay that goes forward.
LEMMA ForwardTurn ==
    ASSUME TypeOK, LogInv, pc = "redo", NEW i, i = lg.cur + 1
    PROVE  /\ i \in 1..lg.high - 1 /\ i \in 1..Len(lg.rec) /\ i \in 1..Len(lg.rec) + 1
           /\ i - 1 = lg.cur /\ i # 1 /\ i \in 1..lg.high /\ i \in Nat
           /\ i + 1 \in 1..lg.high /\ i + 1 \in 1..Len(lg.rec) + 1
           /\ file = lg.snap[i]
  <1>1. /\ LogOK(lg) /\ GroupOpen(lg) /\ lg.cursor # OOBLNO
        /\ lg.cur < lg.high /\ lg.rec[lg.cur].op # "END" /\ file = lg.snap[i]
    BY DEF LogInv, Idle, TypeOK
  <1>2. /\ lg.rec \in Seq(Record) /\ lg.cur \in Nat /\ lg.cur >= 1
        /\ lg.high \in Nat /\ lg.high \in 1..Len(lg.rec) + 1
    BY <1>1 DEF LogOK, LogType
  <1>3. lg.high - 1 # lg.cur
    BY <1>1, <1>2 DEF GroupOpen
  <1>4. PICK c \in Nat, h \in Nat, n \in Nat : c = lg.cur /\ h = lg.high /\ n = Len(lg.rec)
    BY <1>2
  <1>5. c >= 1 /\ c < h /\ h - 1 # c /\ h <= n + 1
    BY <1>1, <1>2, <1>3, <1>4
  <1>6. /\ c + 1 \in 1..h - 1 /\ c + 1 \in 1..n /\ c + 1 \in 1..n + 1
        /\ (c + 1) - 1 = c /\ c + 1 # 1 /\ c + 1 \in 1..h
        /\ (c + 1) + 1 \in 1..h /\ (c + 1) + 1 \in 1..n + 1
    BY <1>5
  <1> QED BY <1>1, <1>4, <1>6

\* One turn of log_forward().
LEMMA InvRedo ==
    ASSUME TypeOK, LogInv, CountOf(cache, file), RedoStep
    PROVE  LogInv' /\ CountOf(cache', file')
  <1> DEFINE i == lg.cur + 1
             r == lg.rec[i]
             s == lg.snap[i]
             t == lg.snap[i + 1]
             L == [lg EXCEPT !.cur = i]
  <1>1. /\ pc = "redo" /\ nolog = TRUE /\ LogOK(lg) /\ LogShape(lg) /\ GroupOpen(lg)
        /\ lg.cursor # OOBLNO /\ lg.cur < lg.high /\ lg.rec[lg.cur].op # "END" /\ file = s
        /\ didop \/ lg.rec[lg.cur].op \in {"INIT", "RESET_B"}
    BY DEF RedoStep, LogInv, Idle, TypeOK
  <1>2. /\ lg.rec \in Seq(Record) /\ lg.snap \in Seq(Seq(Text)) /\ Len(lg.snap) = lg.high
        /\ lg.cur \in Nat /\ lg.cur >= 1 /\ lg.high \in Nat /\ lg.high \in 1..Len(lg.rec) + 1
    BY <1>1 DEF LogOK, LogType
  <1>4. /\ i \in 1..lg.high - 1 /\ i \in 1..Len(lg.rec) /\ i \in 1..Len(lg.rec) + 1
        /\ i - 1 = lg.cur /\ i # 1 /\ i \in 1..lg.high /\ i \in Nat
        /\ i + 1 \in 1..lg.high /\ i + 1 \in 1..Len(lg.rec) + 1
    BY <1>1, ForwardTurn
  <1>5. r \in Record /\ r.lno \in Nat \ {0} /\ s \in Seq(Text)
    <2>1. r \in Record /\ s \in Seq(Text)
      <3>1. i \in 1..Len(lg.snap)
        BY <1>2, <1>4, Zenon
      <3> QED BY <1>2, <1>4, <3>1, ElementOf, Zenon
    <2> QED BY <2>1 DEF Record
  <1>6. Leads(r, s, t) /\ Follows(lg, i)
    BY <1>1, <1>4 DEF LogShape
  <1>7. /\ r.op # "INIT"
        /\ r.op = "END" => didop
    BY <1>1, <1>4, <1>6 DEF Follows
  <1>8. lg' = L => Moved(i)
    BY <1>1, <1>4, MovedTo
  <1>9. lg' = [L EXCEPT !.cur = i + 1] => Moved(i + 1)
    <2>1. /\ LogOK(L) /\ L.rec = lg.rec /\ L.snap = lg.snap /\ L.high = lg.high
          /\ L.cursor = lg.cursor
      BY <1>1, <1>4, LogCurSet
    <2> HIDE DEF L
    <2> QED BY <1>4, <2>1, LogCurSet DEF Moved
  <1> DEFINE D == [L EXCEPT !.cur = i + 1]
  <1>10. \/ r.op = "END" /\ ReplayDone(D)
         \/ r.op = "RESET_B" /\ PassOver(L)
         \/ r.op \in Added /\ ReplayInsert(r, L)
         \/ r.op = "DELETE" /\ ReplayDelete(r.lno, L)
         \/ r.op = "RESET_F" /\ ReplaySet(r, L)
         \/ r.op = "MARK" /\ ReplayMark(r, L)
    <2>1. ~(i > Len(lg.rec))
      BY <1>2, <1>4
    <2> HIDE DEF i
    <2> QED BY <1>7, <2>1 DEF RedoStep, i
  <1> HIDE DEF r, L, D, s, t
  <1>11. CASE r.op = "END" /\ ReplayDone(D)
    <2>1. pc' = "cmd" /\ nolog' = FALSE /\ lg' = D /\ file' = file /\ cache' = cache
      BY <1>11 DEF ReplayDone
    <2>2. Moved(i + 1) /\ file' = lg.snap[i + 1]
      BY <1>1, <1>6, <1>9, <1>11, <2>1 DEF Leads, Added, D, L, t
    <2>3. i + 1 = lg.high \/ lg.rec[i + 1].op = "INIT"
      <3>1. CASE i + 1 # lg.high
        <4>1. i + 1 \in 1..lg.high - 1 /\ (i + 1) - 1 = i
          BY <1>2, <1>4, <3>1
        <4>2. Follows(lg, i + 1)
          BY <1>1, <4>1 DEF LogShape
        <4> QED BY <1>11, <4>1, <4>2 DEF Follows, r
      <3> QED BY <3>1
    <2>4. LogInv'
      BY <1>1, <1>4, <2>1, <2>2, <2>3, ReplayStops
    <2> QED BY <2>1, <2>4
  <1>12. ASSUME lg' = L, pc' = pc, nolog' = TRUE, CountOf(cache', file'), file' = t,
                r.op # "END", didop' \/ r.op = "RESET_B"
         PROVE  LogInv' /\ CountOf(cache', file')
    <2>1. LogShape(lg') /\ GroupOpen(lg') /\ lg'.cursor # OOBLNO
      BY <1>1, <1>8, <1>12 DEF Moved, LogShape, Follows, GroupOpen
    <2>2. /\ lg'.cur < lg'.high /\ lg'.cur <= lg'.high /\ lg'.rec[lg'.cur] = r
          /\ file' = lg'.snap[lg'.cur + 1]
      <3>1. lg'.cur = i /\ lg'.high = lg.high /\ lg'.rec = lg.rec /\ lg'.snap = lg.snap
        BY <1>8, <1>12 DEF Moved
      <3> HIDE DEF i
      <3> QED BY <1>2, <1>4, <1>12, <3>1 DEF r, t
    <2>3. pc' = "redo"
      BY <1>1, <1>12
    <2>4. LogInv'
      BY <1>12, <2>1, <2>2, <2>3 DEF LogInv, Idle
    <2> QED BY <1>12, <2>4
  <1>13. CASE r.op = "RESET_B" /\ PassOver(L)
    <2>1. lg' = L /\ pc' = pc /\ nolog' = TRUE /\ file' = file /\ cache' = cache
      BY <1>1, <1>13 DEF PassOver
    <2>2. file' = t
      BY <1>1, <1>6, <1>13, <2>1 DEF Leads, Added
    <2> QED BY <1>12, <1>13, <2>1, <2>2
  <1>14. CASE r.op \in Added /\ ReplayInsert(r, L)
    <2>1. r.lno \in 1..Len(file) + 1 /\ t = RecInsert(file, r.lno, r.text)
      BY <1>1, <1>6, <1>14 DEF Leads, Added
    <2>2. /\ file' = t /\ lg' = L /\ CountOf(cache', file')
          /\ pc' = pc /\ nolog' = TRUE /\ didop' = TRUE
      BY <1>1, <1>5, <1>14, <2>1, ReplayedInsert
    <2> QED BY <1>12, <1>14, <2>2 DEF Added
  <1>15. CASE r.op = "DELETE" /\ ReplayDelete(r.lno, L)
    <2>1. r.lno \in 1..Len(file) /\ t = RecDelete(file, r.lno)
      BY <1>1, <1>6, <1>15 DEF Leads, Added
    <2>2. /\ file' = t /\ lg' = L /\ CountOf(cache', file')
          /\ pc' = pc /\ nolog' = TRUE /\ didop' = TRUE
      BY <1>1, <1>15, <2>1, ReplayedDelete
    <2> QED BY <1>12, <1>15, <2>2
  <1>16. CASE r.op = "RESET_F" /\ ReplaySet(r, L)
    <2>1. r.lno \in 1..Len(file) /\ t = RecPut(file, r.lno, r.text)
      BY <1>1, <1>6, <1>16 DEF Leads, Added
    <2>2. /\ file' = t /\ lg' = L /\ CountOf(cache', file')
          /\ pc' = pc /\ nolog' = TRUE /\ didop' = TRUE
      BY <1>1, <1>5, <1>16, <2>1, ReplayedSet
    <2> QED BY <1>12, <1>16, <2>2
  <1>17. CASE r.op = "MARK" /\ ReplayMark(r, L)
    <2>1. lg' = L /\ pc' = pc /\ nolog' = TRUE /\ file' = file /\ cache' = cache /\ didop' = TRUE
      BY <1>1, <1>17 DEF ReplayMark
    <2>2. file' = t
      BY <1>1, <1>6, <1>17, <2>1 DEF Leads, Added
    <2> QED BY <1>12, <1>17, <2>1, <2>2
  <1> QED BY <1>10, <1>11, <1>13, <1>14, <1>15, <1>16, <1>17

-----------------------------------------------------------------------------
(* The theorems. *)

LEMMA InvInit ==
    ASSUME Init
    PROVE  IndInv
  <1>1. TypeOK
    BY TypeInit
  <1>2. LogInv
    <2>1. /\ lg.rec = <<>> /\ lg.snap = <<file>> /\ lg.cur = 1 /\ lg.high = 1 /\ lg.cursor = 1
      BY DEF Init, LogInit
    <2>2. pc = "cmd" /\ nolog = FALSE
      BY DEF Init
    <2>3. LogShape(lg)
      BY <2>1 DEF LogShape
    <2>4. GroupOpen(lg) /\ AtBoundary(lg) /\ lg.cur <= lg.high /\ lg.cursor # OOBLNO
      BY <2>1 DEF GroupOpen, AtBoundary, OOBLNO
    <2>5. file = lg.snap[lg.cur]
      BY <2>1
    <2> QED BY <2>2, <2>3, <2>4, <2>5 DEF LogInv, Idle
  <1>3. CountCoherent
    BY DEF Init, CountCoherent, OOBLNO
  <1> QED BY <1>1, <1>2, <1>3 DEF IndInv

LEMMA InvNext ==
    ASSUME IndInv, [Next]_vars
    PROVE  IndInv'
  <1>1. TypeOK'
    BY TypeNext DEF IndInv
  <1>2. ASSUME Regular'
        PROVE  LogInv' /\ CountOf(cache', file')
    <2>1. CASE Next
      <3>1. Regular
        BY <1>2, <2>1, RegularBefore
      <3>2. TypeOK /\ LogInv /\ CountOf(cache, file)
        BY <3>1 DEF IndInv, CountCoherent, CountOf
      <3>3. CASE Edit
        BY <1>2, <3>2, <3>3, InvEdit DEF CountOf
      <3>4. CASE Look
        BY <1>2, <3>2, <3>4, InvLook DEF CountOf
      <3>5. CASE (\E dot \in BOOLEAN : Undo(dot)) \/ ExUndo \/ UndoLine
        BY <1>2, <3>2, <3>5, InvBegin DEF CountOf
      <3>6. CASE UndoStep
        BY <3>2, <3>6, InvUndo
      <3>7. CASE RedoStep
        BY <3>2, <3>7, InvRedo
      <3>8. CASE SetlineStep
        BY <1>2, <3>2, <3>8, InvSetline
      <3> QED BY <2>1, <3>3, <3>4, <3>5, <3>6, <3>7, <3>8 DEF Next, Replay
    <2>2. CASE UNCHANGED vars
      <3>1. Regular
        BY <1>2, <2>2 DEF vars, Regular
      <3>2. LogInv /\ CountOf(cache, file)
        BY <3>1 DEF IndInv, CountCoherent, CountOf
      <3>3. UNCHANGED <<file, cache, lg, nolog, pc, didop>>
        BY <2>2 DEF vars
      <3> QED BY <3>2, <3>3 DEF LogInv, Idle, CountOf
    <2> QED BY <2>1, <2>2
  <1>3. (Regular => LogInv)' /\ CountCoherent'
    BY <1>2 DEF CountCoherent, CountOf
  <1> QED BY <1>1, <1>3 DEF IndInv

\* The inductive invariant holds in every state of every session.
THEOREM LogCorrect == Spec => []IndInv
  BY InvInit, InvNext, PTL DEF Spec

\* In a regular session u and redo undo and redo exactly, whole commands at a
\* time (log_backward(), log_forward(), log_setline()).
THEOREM UndoExact == Spec => []UndoIsExact
  <1>1. IndInv => UndoIsExact
    <2> SUFFICES ASSUME IndInv, Regular, Idle, ~nolog
                 PROVE  /\ lg.cur \in 1..lg.high /\ file = lg.snap[lg.cur]
                        /\ lg.cur = lg.high \/ lg.rec[lg.cur].op = "INIT"
      BY DEF UndoIsExact
    <2>1. LogInv /\ LogOK(lg)
      BY DEF IndInv, TypeOK
    <2>2. lg.cur \in Nat /\ lg.cur >= 1 /\ lg.high \in Nat
      BY <2>1 DEF LogOK, LogType
    <2> QED BY <2>1, <2>2 DEF LogInv, AtBoundary
  <1> QED BY <1>1, LogCorrect, PTL

\* In a regular session no replay runs off the log, and logging is never left
\* switched off.
THEOREM UndoPossible == Spec => []UndoStaysPossible
  <1>1. IndInv => UndoStaysPossible
    BY DEF IndInv, UndoStaysPossible, LogInv, Idle
  <1> QED BY <1>1, LogCorrect, PTL

\* In a regular session the cached line count is the file's.
THEOREM CountCorrect == Spec => []CountCoherent
  <1>1. IndInv => CountCoherent
    BY DEF IndInv
  <1> QED BY <1>1, LogCorrect, PTL

\* When u or redo returns in a regular session, the cursor it restores is on a
\* line of the file (LOG_CURSOR_INIT and LOG_CURSOR_END records, log.c).
THEOREM CursorCorrect == Spec => CursorRestoredInFile
  <1>1. ASSUME IndInv, [Next]_vars, Regular, pc \in {"undo", "redo"}, pc' = "cmd"
        PROVE  lno' \in ValidLine(file)
    <2>1. TypeOK /\ LogInv /\ CountOf(cache, file) /\ nolog = TRUE /\ LogOK(lg)
      BY <1>1 DEF IndInv, TypeOK, LogInv, Idle, CountCoherent, CountOf
    <2>2. UndoStep \/ RedoStep
      BY <1>1 DEF Next, vars, Edit, Delete, AppendLine, InsertLine, SetLine, Look, ReadLine,
                  ReadLast, UserMark, Motion, LogCursor, Undo, ExUndo, UndoLine, Replay, SetlineStep
    <2>3. \A r, L : /\ ReplayInsert(r, L) => pc' = pc
                    /\ ReplaySet(r, L) => pc' = pc
                    /\ ReplayMark(r, L) => pc' = pc
                    /\ PassOver(L) => pc' = pc
      BY DEF ReplayInsert, ReplaySet, ReplayMark, PassOver, ReplayOn
    <2>4. \A k \in 1..Len(file) : \A L : ReplayDelete(k, L) => pc' = pc
      BY DEF ReplayDelete, ReplayOn
    <2>5. CASE UndoStep
      <3> DEFINE i == lg.cur - 1
                 r == lg.rec[i]
                 L == [lg EXCEPT !.cur = i]
      <3>1. pc \in {"undo", "setline"}
        BY <2>5 DEF UndoStep
      <3>2. /\ i \in 1..lg.high - 1 /\ Leads(r, lg.snap[i], lg.snap[lg.cur])
            /\ r.op # "RESET_B" => file = lg.snap[lg.cur]
        BY <2>1, <3>1, BackTurn
      <3>3. r.op \in Added => r.lno \in 1..Len(file)
        BY <2>1, <3>1, TakenBack
      <3>4. i # 0
        BY <3>2
      <3> HIDE DEF L, r
      <3>5. \/ r.op = "INIT" /\ lno' = r.lno
            \/ PassOver(L) \/ ReplayInsert(r, L) \/ ReplaySet(r, L) \/ ReplayMark(r, L)
            \/ r.op \in Added /\ ReplayDelete(r.lno, L)
        BY <2>5, <3>4 DEF UndoStep, L, r
      <3>6. r.op = "INIT" /\ lno' = r.lno
        BY <1>1, <2>3, <2>4, <3>3, <3>5
      <3> QED BY <3>2, <3>6 DEF Leads, Added
    <2>6. CASE RedoStep
      <3> DEFINE i == lg.cur + 1
                 r == lg.rec[i]
                 L == [lg EXCEPT !.cur = i]
                 D == [L EXCEPT !.cur = i + 1]
      <3>1. pc = "redo"
        BY <2>6 DEF RedoStep
      <3>2. i \in 1..lg.high - 1 /\ i \in 1..Len(lg.rec) /\ file = lg.snap[i]
        BY <2>1, <3>1, ForwardTurn
      <3>3. Leads(r, lg.snap[i], lg.snap[i + 1])
        BY <2>1, <3>2 DEF LogInv, LogShape
      <3>4. ~(i > Len(lg.rec))
        BY <2>1, <3>2 DEF LogOK, LogType
      <3> HIDE DEF L, r, D
      <3>5. \/ r.op = "END" /\ lno' = r.lno
            \/ PassOver(L) \/ ReplayInsert(r, L) \/ ReplaySet(r, L) \/ ReplayMark(r, L)
            \/ r.op = "DELETE" /\ ReplayDelete(r.lno, L)
        BY <2>6, <3>4 DEF RedoStep, L, r
      <3>6. r.op = "DELETE" => r.lno \in 1..Len(file)
        BY <3>2, <3>3 DEF Leads, Added
      <3>7. r.op = "END" /\ lno' = r.lno
        BY <1>1, <2>3, <2>4, <3>5, <3>6
      <3> QED BY <3>2, <3>3, <3>7 DEF Leads, Added
    <2> QED BY <2>2, <2>5, <2>6
  <1>2. IndInv /\ [Next]_vars
          => [Regular /\ pc \in {"undo", "redo"} /\ pc' = "cmd" => lno' \in ValidLine(file)]_vars
    BY <1>1
  <1> QED BY <1>2, LogCorrect, PTL DEF Spec, CursorRestoredInFile

-----------------------------------------------------------------------------
(* Marks. *)

\* The live marks of ms are on lines of f.
MarksOnLines(ms, f) ==
    \A m \in MarkName : ms[m].st = "live" => ms[m].lno \in ValidLine(f)

\* The cached line's number is one of the file: what mark_insdel() goes by when
\* it asks whether the new line is the only one.
CacheInFile == cache.lno <= Len(file)

LEMMA ReadsInFile ==
    ASSUME NEW c \in CacheType, NEW f \in Seq(Text), c.lno <= Len(f), NEW k \in Nat
    PROVE  /\ Get(c, f, k).cache.lno <= Len(f) /\ GetNoCache(c, f, k).cache.lno <= Len(f)
           /\ Last(c, f).cache.lno <= Len(f) /\ FirstModify(c, f).lno <= Len(f)
           /\ OnlyLineCache(c, f).lno <= Len(f)
  <1>1. ASSUME NEW d \in CacheType, d.lno <= Len(f), NEW n \in Nat
        PROVE  Get(d, f, n).cache.lno <= Len(f) /\ Last(d, f).cache.lno <= Len(f)
    BY <1>1 DEF Get, Last, Flushed, Holding, OOBLNO, CacheType
  <1>2. GetNoCache(c, f, k).cache.lno <= Len(f)
    BY DEF GetNoCache, Holding, CacheType
  <1>3. Exist(c, f, 2).cache \in CacheType /\ Exist(c, f, 2).cache.lno <= Len(f)
    BY <1>1, GetType DEF Exist
  <1>4. OnlyLineCache(c, f).lno <= Len(f)
    BY <1>1, <1>3 DEF OnlyLineCache
  <1> QED BY <1>1, <1>2, <1>4 DEF FirstModify

\* The first line of a file is recognised, whatever the cache knows.
LEMMA FirstLineSeen ==
    ASSUME NEW c \in CacheType, NEW f \in Seq(Text), Len(f) = 1, c.lno <= 1, CountOf(c, f)
    PROVE  OnlyLine(c, f)
  <1>1. c.nlines \in {0, 1} /\ c.lno \in {0, 1}
    BY DEF CountOf, OOBLNO, CacheType
  <1>2. CASE c.nlines = 1
    <2> DEFINE past == 2 <= c.nlines
    <2>4. ~past /\ Exist(c, f, 2) = [yes |-> past, cache |-> c]
      BY <1>2 DEF Exist, OOBLNO
    <2> HIDE DEF past
    <2>1. ~Exist(c, f, 2).yes
      BY <2>4
    <2>2. Exist(c, f, 2).cache = c
      BY <1>2 DEF Exist, OOBLNO
    <2>3. Last(c, f).n = 1
      BY <1>2 DEF Last, OOBLNO
    <2> QED BY <2>1, <2>2, <2>3, Zenon DEF OnlyLine
  <1>3. CASE c.nlines = 0
    <2>1. ~Get(c, f, 2).ok
      BY <1>1 DEF Get, OOBLNO
    <2>2. Get(c, f, 2).cache = Flushed(c)
      BY <1>1 DEF Get, OOBLNO
    <2>3. ~Exist(c, f, 2).yes
      BY <1>3, <2>1 DEF Exist, OOBLNO
    <2>4. Exist(c, f, 2).cache = Flushed(c)
      BY <1>3, <2>2 DEF Exist, OOBLNO
    <2>5. Last(Flushed(c), f).n = 1
      BY <1>3 DEF Last, Flushed, Holding, OOBLNO
    <2> QED BY <2>3, <2>4, <2>5, Zenon DEF OnlyLine
  <1> QED BY <1>1, <1>2, <1>3

\* mark_insdel() and mark_set() keep live marks on lines.
LEMMA MarksMove ==
    ASSUME NEW ms \in [MarkName -> MarkType], NEW f \in Seq(Text), MarksOnLines(ms, f),
           NEW g \in Seq(Text), NEW k \in Nat \ {0}
    PROVE  /\ k \in 1..Len(f) /\ Len(g) = Len(f) - 1 => MarksOnLines(MarksDelete(ms, k), g)
           /\ Len(g) >= Len(f) => MarksOnLines(ms, g)
           /\ Len(g) = Len(f) + 1 /\ Len(f) > 0 => MarksOnLines(MarksInsert(ms, k), g)
           /\ k \in ValidLine(f) => \A names, user : MarksOnLines(MarkSet(ms, names, k, user), f)
  <1>1. \A m \in MarkName : ms[m] \in MarkType /\ ms[m].lno \in Nat
    BY DEF MarkType
  <1>2. Len(f) \in Nat /\ Len(g) \in Nat
    OBVIOUS
  <1>3. ASSUME k \in 1..Len(f), Len(g) = Len(f) - 1, NEW m \in MarkName,
               MarksDelete(ms, k)[m].st = "live"
        PROVE  MarksDelete(ms, k)[m].lno \in ValidLine(g)
    <2>1. m \notin MarksOn(ms, k)
      BY <1>1, <1>3 DEF MarksDelete, MarkType
    <2>2. MarksDelete(ms, k)[m] = IF ms[m].lno > k THEN [ms[m] EXCEPT !.lno = @ - 1] ELSE ms[m]
      BY <2>1 DEF MarksDelete
    <2>3. ms[m].st = "live" /\ ms[m].lno # k
      BY <1>1, <1>3, <2>1, <2>2 DEF MarksOn, MarkType
    <2>4. MarksDelete(ms, k)[m].lno = IF ms[m].lno > k THEN ms[m].lno - 1 ELSE ms[m].lno
      BY <1>1, <2>2 DEF MarkType
    <2>5. ms[m].lno \in ValidLine(f)
      BY <2>3 DEF MarksOnLines
    <2> QED BY <1>1, <1>2, <1>3, <2>3, <2>4, <2>5 DEF ValidLine, Longer
  <1>4. Len(g) >= Len(f) => MarksOnLines(ms, g)
    BY <1>1, <1>2 DEF MarksOnLines, ValidLine, Longer
  <1>5. ASSUME Len(g) = Len(f) + 1, Len(f) > 0, NEW m \in MarkName,
               MarksInsert(ms, k)[m].st = "live"
        PROVE  MarksInsert(ms, k)[m].lno \in ValidLine(g)
    <2>1. MarksInsert(ms, k)[m] = IF ms[m].st # "unset" /\ ms[m].lno >= k
                                    THEN [ms[m] EXCEPT !.lno = @ + 1] ELSE ms[m]
      BY DEF MarksInsert
    <2>2. /\ MarksInsert(ms, k)[m].st = ms[m].st
          /\ MarksInsert(ms, k)[m].lno \in {ms[m].lno, ms[m].lno + 1}
      BY <1>1, <2>1 DEF MarkType
    <2>3. ms[m].lno \in ValidLine(f)
      BY <1>5, <2>2 DEF MarksOnLines
    <2> QED BY <1>2, <1>5, <2>2, <2>3 DEF ValidLine, Longer
  <1>6. k \in ValidLine(f) => \A names, user : MarksOnLines(MarkSet(ms, names, k, user), f)
    BY DEF MarksOnLines, MarkSet
  <1> QED BY <1>3, <1>4, <1>5, <1>6 DEF MarksOnLines

\* The marks and the cached line after each of the line operations.
LEMMA DeletePlaces ==
    ASSUME TypeOK, MarksOnLines(marks, file), CacheInFile, NEW k, NEW L, DbDelete(k, L)
    PROVE  MarksOnLines(marks', file') /\ CacheInFile'
  <1> DEFINE seen  == Get(cache, file, k)
             after == RecDelete(file, k)
             c1    == IF nolog THEN cache ELSE seen.cache
             c0    == IF k <= c1.lno THEN Flushed(c1) ELSE c1
             n     == IF c0.nlines = OOBLNO THEN c0.nlines ELSE c0.nlines - 1
             c2    == [c0 EXCEPT !.nlines = n]
  <1>1. /\ file \in Seq(Text) /\ cache \in CacheType /\ marks \in [MarkName -> MarkType]
        /\ k \in 1..Len(file) /\ k \in Nat \ {0}
        /\ file' = after /\ cache' = FirstModify(c2, after) /\ marks' = MarksDelete(marks, k)
    BY DEF TypeOK, DbDelete
  <1>2. after \in Seq(Text) /\ Len(after) = Len(file) - 1
    BY <1>1, DeleteType
  <1>3. MarksOnLines(marks', file')
    BY <1>1, <1>2, MarksMove
  <1>4. c1 \in CacheType /\ c1.lno <= Len(file)
    BY <1>1, GetType, ReadsInFile DEF CacheInFile
  <1> HIDE DEF c1, after
  <1>5. c0 \in CacheType /\ c0.lno <= Len(after)
    BY <1>1, <1>2, <1>4, FlushedType DEF OOBLNO, CacheType
  <1> HIDE DEF c0
  <1>6. c2 \in CacheType /\ c2.lno <= Len(after)
    BY <1>5, FlushKeepsCache DEF CacheType, OOBLNO
  <1> HIDE DEF c2
  <1>7. CacheInFile'
    BY <1>1, <1>2, <1>6, ReadsInFile DEF CacheInFile
  <1> QED BY <1>3, <1>7

LEMMA AddPlaces ==
    ASSUME TypeOK, MarksOnLines(marks, file), CacheInFile, CountOf(cache, file),
           NEW op \in Added, NEW k \in 1..Len(file) + 1, NEW t \in Text,
           NEW keep \in BOOLEAN, NEW L, AddLine(op, k, t, keep, L)
    PROVE  MarksOnLines(marks', file') /\ CacheInFile'
  <1> DEFINE pad   == RecPad(file, k - 1, Blank)
             after == RecInsert(pad, k, t)
             c0    == IF keep THEN cache ELSE Flushed(cache)
             n     == IF c0.nlines = OOBLNO THEN c0.nlines ELSE c0.nlines + 1
             c1    == [c0 EXCEPT !.nlines = n]
             c2    == FirstModify(c1, after)
             c3    == IF nolog THEN c2 ELSE Get(c2, after, k).cache
  <1>1. /\ file \in Seq(Text) /\ cache \in CacheType /\ Len(file) \in Nat
        /\ marks \in [MarkName -> MarkType]
        /\ k \in Nat \ {0} /\ k - 1 \in Nat /\ k - 1 <= Len(file)
    BY DEF TypeOK
  <1>2. pad = file
    BY <1>1, TextAssumption, PadNothing
  <1>3. after \in Seq(Text) /\ Len(after) = Len(file) + 1
    BY <1>1, <1>2, InsertType
  <1>4. /\ file' = after /\ cache' = OnlyLineCache(c3, after)
        /\ marks' = IF OnlyLine(c3, after) THEN marks ELSE MarksInsert(marks, k)
    BY DEF AddLine
  <1> HIDE DEF after
  <1>5. /\ c0 \in CacheType /\ c0.lno <= Len(file) /\ c0.nlines = cache.nlines
    BY <1>1, FlushedType DEF OOBLNO, CacheInFile
  <1> HIDE DEF c0
  <1>6. n \in Nat /\ n \in {OOBLNO, Len(after)}
    BY <1>1, <1>3, <1>5 DEF CacheType, OOBLNO, CountOf
  <1> HIDE DEF n
  <1>7. c1 \in CacheType /\ c1.lno <= Len(after) /\ CountOf(c1, after)
    BY <1>1, <1>3, <1>5, <1>6 DEF CacheType, CountOf
  <1> HIDE DEF c1
  <1>8. c2 \in CacheType /\ c2.lno <= Len(after) /\ CountOf(c2, after)
    BY <1>3, <1>7, FirstModifyType, ReadsInFile DEF CountOf
  <1> HIDE DEF c2
  <1>9. c3 \in CacheType /\ c3.lno <= Len(after) /\ CountOf(c3, after)
    BY <1>1, <1>3, <1>8, GetType, ReadsInFile DEF CountOf
  <1> HIDE DEF c3
  <1>10. CacheInFile'
    BY <1>3, <1>4, <1>9, ReadsInFile DEF CacheInFile
  <1>11. MarksOnLines(marks', file')
    <2>1. CASE OnlyLine(c3, after)
      BY <1>1, <1>3, <1>4, <2>1, MarksMove
    <2>2. CASE ~OnlyLine(c3, after)
      <3>1. Len(after) # 1
        BY <1>3, <1>9, <2>2, FirstLineSeen
      <3>2. Len(file) > 0
        BY <1>1, <1>3, <3>1
      <3> QED BY <1>1, <1>3, <1>4, <2>2, <3>2, MarksMove
    <2> QED BY <2>1, <2>2
  <1> QED BY <1>10, <1>11

LEMMA SetPlaces ==
    ASSUME TypeOK, MarksOnLines(marks, file), CacheInFile,
           NEW k \in ValidLine(file), NEW t \in Text, NEW L, DbSet(k, t, L)
    PROVE  MarksOnLines(marks', file') /\ CacheInFile'
  <1> DEFINE old   == GetNoCache(cache, file, k)
             pad   == RecPad(file, k - 1, Blank)
             after == RecPut(pad, k, t)
             c1    == IF nolog THEN cache ELSE old.cache
             c2    == IF c1.lno = k THEN Flushed(c1) ELSE c1
             c3    == FirstModify(c2, after)
  <1>1. /\ file \in Seq(Text) /\ cache \in CacheType /\ Len(file) \in Nat
        /\ marks \in [MarkName -> MarkType]
        /\ k \in Nat \ {0} /\ k - 1 \in Nat /\ k - 1 <= Len(file) /\ k \in 1..Len(file) + 1
    BY DEF TypeOK, ValidLine, Longer
  <1>2. pad = file
    BY <1>1, TextAssumption, PadNothing
  <1>3. after \in Seq(Text) /\ Len(after) >= Len(file)
    <2>1. /\ RecPut(file, k, t) \in Seq(Text)
          /\ Len(RecPut(file, k, t)) = Longer(Len(file), k)
      BY <1>1, PutType
    <2> QED BY <1>1, <1>2, <2>1 DEF Longer
  <1>4. /\ file' = after /\ marks' = marks
        /\ cache' = IF nolog THEN c3 ELSE Get(c3, after, k).cache
    BY DEF DbSet
  <1> HIDE DEF after
  <1>5. c1 \in CacheType /\ c1.lno <= Len(file)
    BY <1>1, GetNoCacheType, ReadsInFile DEF CacheInFile
  <1> HIDE DEF c1
  <1>6. c2 \in CacheType /\ c2.lno <= Len(after)
    BY <1>1, <1>3, <1>5, FlushedType DEF OOBLNO, CacheType
  <1> HIDE DEF c2
  <1>7. c3 \in CacheType /\ c3.lno <= Len(after)
    BY <1>3, <1>6, FirstModifyType, ReadsInFile
  <1> HIDE DEF c3
  <1>8. CacheInFile'
    BY <1>1, <1>3, <1>4, <1>7, ReadsInFile DEF CacheInFile
  <1>9. MarksOnLines(marks', file')
    BY <1>1, <1>3, <1>4, MarksMove
  <1> QED BY <1>8, <1>9

\* And after each turn of a replay that has its line.
LEMMA TurnPlaces ==
    ASSUME TypeOK, MarksOnLines(marks, file), CacheInFile, CountOf(cache, file),
           NEW r \in Record, NEW L,
           \/ ReplayDone(L) \/ PassOver(L)
           \/ r.lno \in 1..Len(file) /\ (ReplayDelete(r.lno, L) \/ ReplaySet(r, L) \/ ReplayMark(r, L))
           \/ r.lno \in 1..Len(file) + 1 /\ ReplayInsert(r, L)
    PROVE  MarksOnLines(marks', file') /\ CacheInFile'
  <1>1. /\ r.lno \in Nat \ {0} /\ r.text \in Text /\ file \in Seq(Text)
        /\ marks \in [MarkName -> MarkType]
    BY DEF Record, TypeOK
  <1>2. CASE ReplayDone(L) \/ PassOver(L)
    BY <1>2 DEF ReplayDone, PassOver, CacheInFile
  <1>3. CASE r.lno \in 1..Len(file) /\ ReplayDelete(r.lno, L)
    BY <1>3, DeletePlaces DEF ReplayDelete
  <1>4. CASE r.lno \in 1..Len(file) /\ ReplaySet(r, L)
    BY <1>1, <1>4, SetPlaces DEF ReplaySet, ValidLine, Longer
  <1>5. CASE r.lno \in 1..Len(file) /\ ReplayMark(r, L)
    <2>1. r.lno \in ValidLine(file)
      BY <1>1, <1>5 DEF ValidLine, Longer
    <2> QED BY <1>1, <1>5, <2>1, MarksMove DEF ReplayMark, CacheInFile
  <1>6. CASE r.lno \in 1..Len(file) + 1 /\ ReplayInsert(r, L)
    <2>1. PICK keep \in BOOLEAN : AddLine("INSERT", r.lno, r.text, keep, L)
      BY <1>1, <1>6, AppendInsert DEF ReplayInsert
    <2> QED BY <1>1, <1>6, <2>1, AddPlaces DEF Added
  <1> QED BY <1>2, <1>3, <1>4, <1>5, <1>6

\* What is at stake in a session that is and stays regular.
Places == Regular => MarksOnLines(marks, file) /\ CacheInFile

LEMMA PlacesEdit ==
    ASSUME TypeOK, MarksOnLines(marks, file), CacheInFile, CountOf(cache, file), Edit
    PROVE  MarksOnLines(marks', file') /\ CacheInFile'
  <1>1. Len(file) \in Nat /\ cache.lno \in Nat
    BY DEF TypeOK, CacheType
  <1>2. CASE \E k \in 1..Len(file) : Delete(k)
    BY <1>2, DeletePlaces DEF Delete
  <1>3. ASSUME NEW k \in 0..Len(file), NEW t \in Text, AppendLine(k, t)
        PROVE  MarksOnLines(marks', file') /\ CacheInFile'
    <2>1. /\ AddLine("APPEND", k + 1, t, ~(k < cache.lno), lg)
          /\ k + 1 \in 1..Len(file) + 1 /\ (~(k < cache.lno)) \in BOOLEAN
      BY <1>1, <1>3 DEF AppendLine, DbAppend
    <2> QED BY <2>1, AddPlaces DEF Added
  <1>4. ASSUME NEW k \in ValidLine(file), NEW t \in Text, InsertLine(k, t)
        PROVE  MarksOnLines(marks', file') /\ CacheInFile'
    <2>1. /\ AddLine("INSERT", k, t, ~(k >= cache.lno), lg)
          /\ k \in 1..Len(file) + 1 /\ (~(k >= cache.lno)) \in BOOLEAN
      BY <1>1, <1>4 DEF InsertLine, DbInsert, ValidLine, Longer
    <2> QED BY <2>1, AddPlaces DEF Added
  <1>5. ASSUME NEW k \in ValidLine(file), NEW t \in Text, SetLine(k, t)
        PROVE  MarksOnLines(marks', file') /\ CacheInFile'
    BY <1>5, SetPlaces DEF SetLine
  <1> QED BY <1>2, <1>3, <1>4, <1>5 DEF Edit

LEMMA PlacesLook ==
    ASSUME TypeOK, MarksOnLines(marks, file), CacheInFile,
           Look \/ (\E dot \in BOOLEAN : Undo(dot)) \/ ExUndo \/ UndoLine
    PROVE  MarksOnLines(marks', file') /\ CacheInFile'
  <1>1. /\ file \in Seq(Text) /\ cache \in CacheType /\ Len(file) \in Nat
        /\ marks \in [MarkName -> MarkType]
    BY DEF TypeOK
  <1>2. file' = file
    BY DEF Look, ReadLine, ReadLast, UserMark, Motion, LogCursor, Undo, ExUndo, UndoLine, BeginReplay
  <1>3. CacheInFile'
    <2>1. CASE \E k \in 1..Len(file) + 1 : ReadLine(k)
      <3>1. PICK k \in 1..Len(file) + 1 : ReadLine(k)
        BY <2>1
      <3>2. cache' = Get(cache, file, k).cache /\ k \in Nat
        BY <1>1, <3>1 DEF ReadLine
      <3> QED BY <1>1, <1>2, <3>2, ReadsInFile DEF CacheInFile
    <2>2. CASE cache' = cache \/ cache' = Last(cache, file).cache
      BY <1>1, <1>2, <2>2, ReadsInFile DEF CacheInFile
    <2>3. cache' = cache \/ cache' = Last(cache, file).cache
          \/ \E k \in 1..Len(file) + 1 : ReadLine(k)
      <3>1. CASE Look
        <4>1. ASSUME NEW k, ReadLine(k) PROVE k \in 1..Len(file) + 1
          BY <4>1 DEF ReadLine
        <4> QED BY <3>1, <4>1 DEF Look, ReadLast, UserMark, Motion, LogCursor
      <3>2. CASE (\E dot \in BOOLEAN : Undo(dot)) \/ ExUndo \/ UndoLine
        BY <3>2 DEF Undo, ExUndo, UndoLine, BeginReplay
      <3> QED BY <3>1, <3>2
    <2> QED BY <2>1, <2>2, <2>3
  <1>4. \/ marks' = marks
        \/ \E names, user : lno \in ValidLine(file) /\ marks' = MarkSet(marks, names, lno, user)
    BY DEF Look, ReadLine, ReadLast, UserMark, Motion, LogCursor, Undo, ExUndo, UndoLine, BeginReplay
  <1>5. lno \in ValidLine(file) => lno \in Nat \ {0}
    BY <1>1 DEF ValidLine, Longer
  <1> QED BY <1>1, <1>2, <1>3, <1>4, <1>5, MarksMove

LEMMA PlacesReplay ==
    ASSUME TypeOK, LogInv, CountOf(cache, file), MarksOnLines(marks, file), CacheInFile,
           Replay, Regular'
    PROVE  MarksOnLines(marks', file') /\ CacheInFile'
  <1>1. CASE UndoStep \/ SetlineStep
    <2> DEFINE i == lg.cur - 1
               r == lg.rec[i]
               L == [lg EXCEPT !.cur = i]
    <2>1. pc \in {"undo", "setline"}
      BY <1>1 DEF UndoStep, SetlineStep
    <2>2. /\ i # 0 /\ r \in Record /\ Leads(r, lg.snap[i], lg.snap[lg.cur])
          /\ r.op # "RESET_B" => file = lg.snap[lg.cur]
          /\ r.op \in Added => r.lno \in 1..Len(file)
          /\ r.op = "DELETE" => r.lno \in 1..Len(file) + 1
          /\ r.op = "RESET_B" => r.lno \in 1..Len(file)
      BY <2>1, BackTurn, TakenBack
    <2>3. r.op = "MARK" => r.lno \in 1..Len(file)
      BY <2>2 DEF Leads, Added
    <2> HIDE DEF L, r
    <2>4. ~LeaveDone(L)
      BY DEF LeaveDone, Regular
    <2>5. \/ ReplayDone(L) \/ ReplayDone(lg) \/ PassOver(L)
          \/ r.op \in Added /\ ReplayDelete(r.lno, L)
          \/ r.op = "DELETE" /\ ReplayInsert(r, L)
          \/ r.op = "RESET_B" /\ ReplaySet(r, L)
          \/ r.op = "MARK" /\ ReplayMark(r, L)
      BY <1>1, <2>2, <2>4 DEF UndoStep, SetlineStep, L, r
    <2>6. CASE ReplayDone(lg)
      BY <2>2, <2>6, TurnPlaces
    <2> QED BY <2>2, <2>3, <2>5, <2>6, TurnPlaces
  <1>2. CASE RedoStep
    <2> DEFINE i == lg.cur + 1
               r == lg.rec[i]
               L == [lg EXCEPT !.cur = i]
               D == [L EXCEPT !.cur = i + 1]
    <2>1. pc = "redo"
      BY <1>2 DEF RedoStep
    <2>2. /\ i \in 1..lg.high - 1 /\ i \in 1..Len(lg.rec) /\ file = lg.snap[i]
          /\ ~(i > Len(lg.rec))
      BY <2>1, ForwardTurn DEF TypeOK, LogOK, LogType
    <2>3. Leads(r, file, lg.snap[i + 1]) /\ r \in Record
      BY <2>2 DEF LogInv, LogShape, TypeOK, LogOK, LogType
    <2> HIDE DEF L, r, D
    <2>4. \/ ReplayDone(D) \/ PassOver(L)
          \/ r.op \in Added /\ ReplayInsert(r, L)
          \/ r.op = "DELETE" /\ ReplayDelete(r.lno, L)
          \/ r.op = "RESET_F" /\ ReplaySet(r, L)
          \/ r.op = "MARK" /\ ReplayMark(r, L)
      BY <1>2, <2>2 DEF RedoStep, L, r, D
    <2>5. CASE ReplayDone(D)
      BY <2>3, <2>5, TurnPlaces
    <2>6. /\ r.op \in Added => r.lno \in 1..Len(file) + 1
          /\ r.op \in {"DELETE", "RESET_F", "MARK"} => r.lno \in 1..Len(file)
      BY <2>3 DEF Leads, Added
    <2> QED BY <2>3, <2>4, <2>5, <2>6, TurnPlaces
  <1> QED BY <1>1, <1>2 DEF Replay

\* In a regular session the marks that are set are on lines of the file, after
\* any changes, undos and redos (mark_insdel(), and the LOG_MARK records).
THEOREM MarksCorrect == Spec => []MarksInFile
  <1>1. Init => Places
    <2> SUFFICES ASSUME Init PROVE MarksOnLines(marks, file) /\ CacheInFile
      BY DEF Places
    <2>1. file \in Seq(Text) /\ cache.lno = 0
      BY TypeInit DEF Init, TypeOK
    <2>2. 1 \in ValidLine(file)
      BY <2>1 DEF ValidLine, Longer
    <2> QED BY <2>1, <2>2 DEF Init, MarksOnLines, CacheInFile, NoMark
  <1>2. ASSUME IndInv, Places, [Next]_vars PROVE Places'
    <2> SUFFICES ASSUME Regular' PROVE MarksOnLines(marks', file') /\ CacheInFile'
      BY DEF Places, MarksOnLines, CacheInFile
    <2>1. CASE UNCHANGED vars
      BY <1>2, <2>1 DEF vars, Places, Regular, MarksOnLines, CacheInFile
    <2>2. CASE Next
      <3>1. /\ TypeOK /\ LogInv /\ CountOf(cache, file)
            /\ MarksOnLines(marks, file) /\ CacheInFile
        BY <1>2, <2>2, RegularBefore DEF IndInv, CountCoherent, CountOf, Places
      <3> QED BY <2>2, <3>1, PlacesEdit, PlacesLook, PlacesReplay DEF Next
    <2> QED BY <1>2, <2>1, <2>2
  <1>3. Places => MarksInFile
    BY DEF Places, MarksOnLines, MarksInFile
  <1> QED BY <1>1, <1>2, <1>3, LogCorrect, PTL DEF Spec
=============================================================================
