--------------------------- MODULE RecoveryProofs ---------------------------
(***************************************************************************)
(* The theorems about the files of recoverable sessions, for any number of *)
(* editors, listings and recoveries.                                       *)
(***************************************************************************)
EXTENDS Recovery, FiniteSetTheorems, WellFoundedInduction, TLAPS

-----------------------------------------------------------------------------
(* The inductive invariant. *)

Idle == {"none", "never"}
Building(e) == e.pc \in {"lock", "header"}
Preserving(e) == e.copy # None \/ {"presync", "mkcopy"} \cap {e.pc, e.then} # {}
Setup == {"header", "snap", "snapping", "chmod"}

\* The mail file with which the session is recovered, or :preserve's is made.
Named(e) == e.mail # None /\ (e.pc = "header" => e.copy # None)

\* Recovery was turned off by a failure.
Failed(e) == ~e.on /\ e.mail # None /\ e.pc \notin Setup

\* What the record of one process looks like at each point.
Shape(e) ==
    /\ e.pc \in Idle \cup Scanning =>
          e.bak = None /\ e.mail = None /\ e.copy = None /\ ~e.on /\ e.then = "none"
    /\ e.pc \in Idle => e.best = None
    /\ e.fd # None => e.fd \notin e.todo
    /\ e.best # None => e.best \notin e.todo /\ e.best # e.fd
    /\ e.pc \notin Idle \cup Scanning => e.bak # None /\ e.best = None
    /\ e.fd # None <=> e.pc \in {"lock", "header", "scanlock", "scanread"}
    /\ e.copy # None => /\ e.pc \in {"copy", "lock", "header"} /\ e.on /\ ~e.first /\ e.mail # None
                        /\ e.copy # e.bak /\ e.mail # e.fd
    /\ e.pc = "copy" => e.copy # None
    /\ e.pc = "lock" /\ e.copy = None => e.mail = None
    /\ e.pc = "header" /\ e.copy = None => e.mail = e.fd
    /\ e.pc \in {"snap", "snapping", "chmod"} => e.mail # None
    /\ e.pc \in {"lock"} \cup Setup /\ e.copy = None =>
          /\ ~e.on /\ ~e.first /\ e.then \in {"cmd", "presync"}
          /\ e.then = "cmd" => e.dirty
    /\ e.pc \in {"presync", "mkcopy", "sync"} => e.on
    /\ "mkcopy" \in {e.pc, e.then} \/ e.pc = "presync" => ~e.first
    /\ e.pc = "sync" => e.then \in {"wait", "exit", "mkcopy"} /\ ~e.dirty
    /\ e.on /\ ~e.first => e.mail # None
    /\ ~e.first /\ e.mail = None => e.pc = "lock" \/ ~e.on
    /\ e.pc = "wait" /\ e.dirty => ~(e.on /\ e.mod)

Shapes == \A p \in Proc : Shape(ed[p])

Lonely == \A p \in Proc : Preserving(ed[p]) \/ Failed(ed[p]) => Alone(p)

Locks ==
    \A p \in Proc :
        /\ \A m \in Mail : mail[m].lock = p => m \in {ed[p].mail, ed[p].fd, ed[p].best}
        /\ At(p, "scanread") => mail[ed[p].fd].lock = p
        /\ At(p, "scanlock") => mail[ed[p].fd].lock # p
        /\ ed[p].best # None => mail[ed[p].best].lock = p

\* The mail file being made is nobody else's and has no headers.
Builds ==
    \A p \in Proc : Building(ed[p]) =>
        /\ mail[ed[p].fd].there /\ mail[ed[p].fd].path = None
        /\ At(p, "header") /\ ed[p].fd \notin unlocked => mail[ed[p].fd].lock = p
        /\ At(p, "lock") => mail[ed[p].fd].lock # p
        /\ ed[p].copy # None => ed[p].fd \notin unlocked /\ mail[ed[p].fd].lock \in {None, p}
        /\ \A q \in Proc \ {p} : ed[q].mail # ed[p].fd /\ ed[q].best # ed[p].fd
                                 /\ (Building(ed[q]) => ed[q].fd # ed[p].fd)

OnePath ==
    /\ \A m, n \in Mail : mail[m].path = mail[n].path /\ mail[m].path # None => m = n
    /\ \A m \in Mail : mail[m].path # None => mail[m].there

Names ==
    \A p \in Proc :
        /\ ed[p].bak # None /\ ~Named(ed[p]) => \A m \in Mail : mail[m].path # ed[p].bak
        /\ ed[p].copy # None => \A m \in Mail : mail[m].path # ed[p].copy
        /\ Named(ed[p]) =>
              \/ mail[ed[p].mail].path = ed[p].bak
              \/ mail[ed[p].mail].path = None /\ (~bak[ed[p].bak].there \/ Failed(ed[p]))

Shares ==
    \A p \in Proc : \A q \in Proc \ {p} :
        /\ ed[p].bak = ed[q].bak /\ ed[p].bak # None => ed[p].mail = ed[q].mail /\ ed[p].mail # None
        /\ ed[p].mail = ed[q].mail /\ ed[p].mail # None => ed[p].mail \in unlocked

\* What a session that got the lock can rely on.
Holding(p) ==
    ed[p].mail \notin unlocked /\ ed[p].bak # None =>
        /\ ~At(p, "unlink") => bak[ed[p].bak].there
        /\ Named(ed[p]) /\ ~Failed(ed[p]) =>
              /\ mail[ed[p].mail].there /\ mail[ed[p].mail].lock = p
              /\ mail[ed[p].mail].path = ed[p].bak
        /\ ~At(p, "unlink") /\ ed[p].on /\ ~ed[p].first => ~bak[ed[p].bak].x
        /\ /\ ed[p].on /\ ~ed[p].first /\ ed[p].mod /\ ~ed[p].dirty
           /\ ed[p].pc \notin {"presync", "sync", "unlink"}
           => bak[ed[p].bak].data = ed[p].text

Holdings == \A p \in Proc : Holding(p)

Copies ==
    \A p \in Proc : ed[p].copy # None => bak[ed[p].copy].there /\ ~bak[ed[p].copy].x

Removed == \A p \in Proc : At(p, "unlink") => ~bak[ed[p].bak].there

Owed ==
    \A o \in owed :
        /\ mail[o.mail].there /\ mail[o.mail].path = o.bak /\ o.mail \notin unlocked
        /\ bak[o.bak].there /\ bak[o.bak].data = o.data /\ ~bak[o.bak].x
        /\ \A p \in Proc : /\ o.bak \notin {ed[p].bak, ed[p].copy} /\ o.mail # ed[p].mail
                           /\ ed[p].pc \notin Scanning => o.mail # ed[p].fd

Accounted ==
    /\ \A b \in Bak : bak[b].there =>
          <<"bak", b>> \in left \/ \E p \in Proc : b = ed[p].bak \/ b = ed[p].copy
    /\ \A m \in Mail : mail[m].there =>
          <<"mail", m>> \in left \/ \E p \in Proc : m = ed[p].mail \/ (m = ed[p].fd /\ ed[p].pc \notin Scanning)

IInv ==
    /\ TypeOK /\ Shapes /\ Lonely /\ Locks /\ Builds /\ OnePath /\ Names /\ Shares /\ Holdings /\ Copies
    /\ Removed /\ Owed /\ Accounted
-----------------------------------------------------------------------------
(* Facts about the types, and about the operators actions are made of. *)

\* No name is that of no file or nobody, and no mark is a text.
LEMMA Distinct ==
    ASSUME BoundsAssumption, ProcAssumption
    PROVE  /\ None \notin Bak /\ None \notin Mail /\ None \notin Proc
           /\ Empty \notin Version /\ Torn \notin Version
  BY BoundsAssumption, ProcAssumption
     DEF None, Bak, Mail, Empty, Torn, Version, BoundsAssumption, ProcAssumption

Types ==
    /\ ed \in [Proc -> Editor]
    /\ bak \in [Bak -> BakFile] /\ mail \in [Mail -> MailFile]
    /\ unlocked \subseteq Mail /\ owed \subseteq [mail : Mail, bak : Bak, data : Version]
    /\ None \notin Bak /\ None \notin Mail /\ None \notin Proc

\* What is known of one process.
LEMMA Known ==
    ASSUME BoundsAssumption, ProcAssumption, IInv, NEW p \in Proc
    PROVE  Types /\ TypeOK /\ ed[p] \in Editor /\ Shape(ed[p]) /\ Holding(p)
  BY Distinct DEF Types, TypeOK, IInv, Shapes, Holdings

\* While a process makes a preserved copy, or goes on after a failure, no other
\* runs.
LEMMA Solitude ==
    ASSUME IInv, NEW p \in Proc, NEW q \in Proc, p # q,
           Preserving(ed[p]) \/ Failed(ed[p])
    PROVE  ed[q].pc = "never"
  BY DEF IInv, Lonely, Alone, At

Others(p) == \A q \in Proc \ {p} : ed'[q] = ed[q]

\* One process moves.
LEMMA BecomesFacts ==
    ASSUME Types, NEW p \in Proc, NEW e \in Editor, Becomes(p, e)
    PROVE  ed' \in [Proc -> Editor] /\ ed'[p] = e /\ Others(p)
  BY DEF Types, Becomes, Others

-----------------------------------------------------------------------------
(* The steps of a session that touch no file but its backing file, which   *)
(* stays.                                                                  *)

SameFiles(e, f) ==
    e.bak = f.bak /\ e.mail = f.mail /\ e.copy = f.copy /\ e.best = f.best /\ e.fd = f.fd

OwnBakOnly(p) ==
    /\ bak' \in [Bak -> BakFile]
    /\ \A b \in Bak : b # ed[p].bak => bak'[b] = bak[b]
    /\ \A b \in Bak : bak'[b].there = bak[b].there

QuietMove(p, e) ==
    /\ Becomes(p, e) /\ e \in Editor /\ Shape(e) /\ SameFiles(e, ed[p])
    /\ ed[p].pc \notin Idle \cup Scanning \cup {"lock", "header", "unlink"}
    /\ e.pc \notin Idle \cup Scanning \cup {"lock", "header", "unlink"}
    /\ Failed(ed[p]) => Failed(e)
    /\ Preserving(e) \/ Failed(e) => Alone(p)
    /\ e.mail \notin unlocked /\ e.on /\ ~e.first =>
          /\ ~bak'[e.bak].x
          /\ e.mod /\ ~e.dirty /\ e.pc \notin {"presync", "sync"} => bak'[e.bak].data = e.text

\* They preserve the invariant.
LEMMA Quiet ==
    ASSUME BoundsAssumption, ProcAssumption, IInv, NEW p \in Proc, NEW e, QuietMove(p, e),
           OwnBakOnly(p), UNCHANGED <<mail, history>>, disk' \in Version, ver' \in Version
    PROVE  IInv'
  <1> DEFINE o == ed[p]
  <1>1. /\ Types /\ TypeOK /\ o \in Editor /\ Shape(o) /\ Holding(p)
        /\ mail' = mail /\ owed' = owed /\ left' = left /\ unlocked' = unlocked
    BY Known DEF history
  <1>2. ed' \in [Proc -> Editor] /\ ed'[p] = e /\ Others(p)
    BY <1>1, BecomesFacts DEF QuietMove
  <1>3. TypeOK' /\ Types'
    BY <1>1, <1>2 DEF TypeOK, Types, OwnBakOnly
  <1>4. /\ SameFiles(e, o) /\ o.bak # None /\ o.bak \in Bak
        /\ Named(e) <=> Named(o)
        /\ ~Building(o) /\ ~Building(e)
        /\ o.pc \notin Idle \cup Scanning \cup {"header", "unlink", "scanread", "scanlock", "never"}
        /\ e.pc \notin Idle \cup Scanning \cup {"header", "unlink", "scanread", "scanlock"}
    BY <1>1 DEF QuietMove, Named, SameFiles, Building, Shape, Editor, Idle, Scanning
  <1> USE DEF IInv
  <1>5. Shapes'
    BY <1>2 DEF Shapes, QuietMove, Others
  <1>6. Lonely'
    <2> SUFFICES ASSUME NEW q \in Proc, Preserving(ed'[q]) \/ Failed(ed'[q]),
                        NEW r \in Proc \ {q}
                 PROVE  ed'[r].pc = "never"
      BY DEF Lonely, Alone, At
    <2>1. Alone(q)
      BY <1>2 DEF Lonely, QuietMove, Others
    <2> QED BY <2>1, <1>2, <1>4 DEF Alone, At, Others
  <1>7. Locks'
    BY <1>1, <1>2, <1>4 DEF Locks, At, Others, SameFiles
  <1>8. Builds'
    BY <1>1, <1>2, <1>4 DEF Builds, At, Others, SameFiles
  <1>9. OnePath'
    BY <1>1 DEF OnePath
  <1>10. Names'
    BY <1>1, <1>2, <1>4 DEF Names, OwnBakOnly, QuietMove, Others, SameFiles, Types, Editor
  <1>11. Shares'
    BY <1>1, <1>2, <1>4 DEF Shares, Others, SameFiles
  <1>12. Holdings'
    <2> SUFFICES ASSUME NEW q \in Proc PROVE Holding(q)'
      BY DEF Holdings
    <2>1. CASE q = p
      BY <2>1, <1>1, <1>2, <1>4 DEF Holding, QuietMove, OwnBakOnly, At, SameFiles
    <2>2. CASE q # p /\ ed[q].bak \in Bak
      <3>1. ed'[q] = ed[q] /\ Holding(q)
        BY <2>2, <1>2 DEF Holdings, Others
      <3>2. CASE ed[q].bak # o.bak
        BY <2>2, <3>1, <3>2, <1>1 DEF Holding, At, OwnBakOnly
      <3>3. CASE ed[q].bak = o.bak
        <4>1. ed[q].mail \in unlocked
          BY <2>2, <3>3, <1>4 DEF Shares
        <4> QED BY <4>1, <1>1, <3>1 DEF Holding
      <3> QED BY <3>2, <3>3
    <2>3. CASE q # p /\ ed[q].bak \notin Bak
      BY <2>3, <1>2, <1>3 DEF Holding, Types, Editor, Others
    <2> QED BY <2>1, <2>2, <2>3
  <1>13. Copies'
    <2> SUFFICES ASSUME NEW q \in Proc, ed'[q].copy # None
                 PROVE  bak'[ed'[q].copy].there /\ ~bak'[ed'[q].copy].x
      BY DEF Copies
    <2>1. q = p
      BY <1>2, <1>4, Solitude DEF Others, Preserving
    <2>2. o.copy = e.copy /\ o.copy # o.bak
      BY <2>1, <1>1, <1>2 DEF QuietMove, SameFiles, Shape
    <2>3. o.copy \in Bak
      BY <2>1, <2>2, <1>1, <1>2 DEF Editor
    <2> QED BY <2>1, <2>2, <2>3, <1>2 DEF Copies, OwnBakOnly
  <1>14. Removed'
    <2> SUFFICES ASSUME NEW q \in Proc, ed'[q].pc = "unlink" PROVE ~bak'[ed'[q].bak].there
      BY DEF Removed, At
    <2>1. ed'[q] = ed[q]
      BY <1>2, <1>4 DEF Others
    <2>2. ed[q].bak # None
      BY <2>1 DEF Shapes, Shape, Idle, Scanning
    <2>3. ed[q].bak \in Bak
      BY <2>2, <1>1 DEF Types, Editor
    <2> QED BY <2>1, <2>3 DEF Removed, At, OwnBakOnly
  <1>15. Owed'
    <2>1. \A k \in owed : bak'[k.bak] = bak[k.bak]
      BY <1>1 DEF Owed, OwnBakOnly, Types
    <2>2. \A q \in Proc : SameFiles(ed'[q], ed[q]) /\ (ed[q].pc \in Scanning => ed'[q].pc \in Scanning)
      BY <1>2, <1>4 DEF Others, SameFiles
    <2>3. \A q \in Proc : (ed'[q].pc \in Scanning => ed[q].pc \in Scanning)
      BY <1>2, <1>4 DEF Others
    <2> QED BY <1>1, <2>1, <2>2, <2>3 DEF Owed, SameFiles
  <1>16. Accounted'
    BY <1>1, <1>2, <1>4 DEF Accounted, Others, SameFiles, OwnBakOnly
  <1> QED
    BY <1>3, <1>5, <1>6, <1>7, <1>8, <1>9, <1>10, <1>11, <1>12, <1>13, <1>14, <1>15, <1>16


\* A command begins.
LEMMA BeginStep ==
    ASSUME BoundsAssumption, ProcAssumption, IInv, NEW p \in Proc, Begin(p)
    PROVE  IInv'
  <1> DEFINE o == ed[p]
             e == [o EXCEPT !.pc = "cmd"]
  <1>1. Types /\ TypeOK /\ o \in Editor /\ Shape(o) /\ Holding(p)
    BY Known
  <1>2. e \in Editor
    BY <1>1 DEF Editor, Point
  <1>3. OwnBakOnly(p)
    BY <1>1 DEF Begin, OwnBakOnly, Types
  <1>4. QuietMove(p, e)
    BY <1>1, <1>2 DEF Begin, At, QuietMove, SameFiles, Shape, Failed, Preserving, Idle, Scanning, Setup,
                      Editor, Holding, IInv, Lonely
  <1> QED
    BY <1>3, <1>4, Quiet, <1>1 DEF Begin, TypeOK

\* :write touches no file of the recovery directory.
LEMMA WriteStep ==
    ASSUME BoundsAssumption, ProcAssumption, IInv, NEW p \in Proc, Write(p)
    PROVE  IInv'
  <1> DEFINE o == ed[p]
             e == [o EXCEPT !.mod = FALSE]
  <1>1. Types /\ TypeOK /\ o \in Editor /\ Shape(o) /\ Holding(p)
    BY Known
  <1>2. e \in Editor
    BY <1>1 DEF Editor
  <1>3. OwnBakOnly(p)
    BY <1>1 DEF Write, OwnBakOnly, Types
  <1>4. QuietMove(p, e)
    BY <1>1, <1>2 DEF Write, At, QuietMove, SameFiles, Shape, Failed, Preserving, Idle, Scanning, Setup,
                      Editor, Holding, IInv, Lonely
  <1> QED
    BY <1>3, <1>4, Quiet, <1>1 DEF Write, TypeOK

\* The points the records of processes are set to.
LEMMA Points ==
    /\ {"none", "wait", "cmd", "lock", "header", "snap", "snapping", "chmod"} \subseteq Point
    /\ {"presync", "sync", "mkcopy", "copy", "exit", "unlink", "scan", "scanlock", "scanread"} \subseteq Point
  BY DEF Point

\* Writing to its backing file is all a session does to the files.
LEMMA OwnData ==
    ASSUME Types, NEW p \in Proc, Shape(ed[p]), ed[p].pc \notin Idle \cup Scanning,
           NEW d, d \in Version \cup {Empty, Torn}, SetData(ed[p].bak, d)
    PROVE  OwnBakOnly(p) /\ bak'[ed[p].bak].x = bak[ed[p].bak].x /\ bak'[ed[p].bak].data = d
  <1> DEFINE b == ed[p].bak
  <1>1. b \in Bak
    BY DEF Types, Shape, Editor
  <1>2. bak' = [bak EXCEPT ![b].data = d]
    BY DEF SetData
  <1> HIDE DEF b
  <1>3. /\ bak' \in [Bak -> BakFile] /\ \A c \in Bak : c # b => bak'[c] = bak[c]
        /\ bak'[b].there = bak[b].there /\ bak'[b].x = bak[b].x /\ bak'[b].data = d
    BY <1>1, <1>2 DEF Types, BakFile
  <1> QED BY <1>3 DEF OwnBakOnly, b

\* rcv_sync() is done: the text is in the backing file.
LEMMA EndSyncStep ==
    ASSUME BoundsAssumption, ProcAssumption, IInv, NEW p \in Proc, EndSync(p)
    PROVE  IInv'
  <1> DEFINE o == ed[p]
             n == IF o.then = "exit" THEN TRUE ELSE o.norm
             e == [o EXCEPT !.pc = o.then, !.then = "none", !.norm = n]
  <1>1. Types /\ TypeOK /\ o \in Editor /\ Shape(o) /\ Holding(p)
    BY Known
  <1>2. e \in Editor
    <2>1. "none" \in Point /\ n \in BOOLEAN
      BY <1>1, Points DEF Editor
    <2> HIDE DEF n
    <2> QED BY <1>1, <2>1 DEF Editor
  <1>3. o.bak \in Bak /\ o.text \in Version \cup {Empty, Torn}
    BY <1>1 DEF EndSync, At, Shape, Editor, Idle, Scanning
  <1>4. OwnBakOnly(p) /\ bak'[o.bak].x = bak[o.bak].x /\ bak'[o.bak].data = o.text
    <2>1. SetData(o.bak, o.text) /\ o.pc \notin Idle \cup Scanning
      BY DEF EndSync, At, Idle, Scanning
    <2> QED BY <1>1, <1>3, <2>1, OwnData
  <1>5. /\ e.pc = o.then /\ e.then = "none" /\ SameFiles(e, o) /\ e.on = o.on /\ e.first = o.first
        /\ e.mod = o.mod /\ e.dirty = o.dirty /\ e.text = o.text /\ e.todo = o.todo
    <2> HIDE DEF n
    <2> QED BY <1>1 DEF Editor, SameFiles
  <1>6. o.pc = "sync" /\ Becomes(p, e)
    BY DEF EndSync, At
  <1> HIDE DEF e
  <1>7. o.on /\ o.then \in {"wait", "exit", "mkcopy"} /\ Shape(e)
    BY <1>1, <1>5, <1>6 DEF Shape, SameFiles, Idle, Scanning, Setup
  <1>8. e.on /\ ~e.first /\ e.mail \notin unlocked => ~bak'[e.bak].x
    BY <1>1, <1>4, <1>5, <1>6, <1>7 DEF Holding, At, Shape, SameFiles, Idle, Scanning
  <1>9. Preserving(e) => Preserving(o)
    BY <1>1, <1>5, <1>6 DEF Preserving, Shape, SameFiles
  <1>10. QuietMove(p, e)
    BY <1>2, <1>4, <1>5, <1>6, <1>7, <1>8, <1>9 DEF QuietMove, Failed, Idle, Scanning, Setup, IInv, Lonely, SameFiles
  <1> QED
    BY <1>4, <1>10, Quiet, <1>1 DEF EndSync, TypeOK

\* The command that ends the session.
LEMMA QuitStep ==
    ASSUME BoundsAssumption, ProcAssumption, IInv, NEW p \in Proc, Quit(p)
    PROVE  IInv'
  <1> DEFINE o == ed[p]
             e == [o EXCEPT !.pc = "exit"]
  <1>1. Types /\ TypeOK /\ o \in Editor /\ Shape(o) /\ Holding(p)
    BY Known
  <1>2. e \in Editor
    BY <1>1, Points DEF Editor
  <1>3. OwnBakOnly(p)
    BY <1>1 DEF Quit, OwnBakOnly, Types
  <1>4. QuietMove(p, e)
    BY <1>1, <1>2 DEF Quit, At, QuietMove, SameFiles, Shape, Failed, Preserving, Idle, Scanning, Setup,
                      Editor, Holding, IInv, Lonely
  <1> QED
    BY <1>3, <1>4, Quiet, <1>1 DEF Quit, TypeOK

\* Recovery stays off.
LEMMA SnapFailsStep ==
    ASSUME BoundsAssumption, ProcAssumption, IInv, NEW p \in Proc, SnapFails(p)
    PROVE  IInv'
  <1> DEFINE o == ed[p]
             e == [o EXCEPT !.pc = "cmd", !.then = "none"]
  <1>1. Types /\ TypeOK /\ o \in Editor /\ Shape(o) /\ Holding(p)
    BY Known
  <1>2. e \in Editor
    BY <1>1, Points DEF Editor
  <1>3. OwnBakOnly(p)
    BY <1>1 DEF SnapFails, OwnBakOnly, Types
  <1>4. QuietMove(p, e)
    BY <1>1, <1>2 DEF SnapFails, At, QuietMove, SameFiles, Shape, Failed, Preserving, Idle, Scanning, Setup,
                      Editor, Holding, IInv, Lonely
  <1> QED
    BY <1>3, <1>4, Quiet, <1>1 DEF SnapFails, TypeOK

\* The first copy of the text begins...
LEMMA BeginSnapStep ==
    ASSUME BoundsAssumption, ProcAssumption, IInv, NEW p \in Proc, BeginSnap(p)
    PROVE  IInv'
  <1> DEFINE o == ed[p]
             e == [o EXCEPT !.pc = "snapping"]
  <1>1. Types /\ TypeOK /\ o \in Editor /\ Shape(o) /\ Holding(p)
    BY Known
  <1>2. e \in Editor
    BY <1>1, Points DEF Editor
  <1>3. OwnBakOnly(p) /\ bak'[o.bak].x = bak[o.bak].x /\ bak'[o.bak].data = Torn
    <2>1. SetData(o.bak, Torn) /\ o.pc \notin Idle \cup Scanning
      BY DEF BeginSnap, At, Idle, Scanning
    <2>2. Torn \in Version \cup {Empty, Torn}
      BY <1>1 DEF Editor
    <2> QED BY <1>1, <2>1, <2>2, OwnData
  <1>4. QuietMove(p, e)
    BY <1>1, <1>2, <1>3 DEF BeginSnap, At, QuietMove, SameFiles, Shape, Failed, Preserving, Idle, Scanning, Setup,
                      Editor, Holding, IInv, Lonely
  <1> QED
    BY <1>3, <1>4, Quiet, <1>1 DEF BeginSnap, TypeOK

\* ...and is complete.
LEMMA EndSnapStep ==
    ASSUME BoundsAssumption, ProcAssumption, IInv, NEW p \in Proc, EndSnap(p)
    PROVE  IInv'
  <1> DEFINE o == ed[p]
             e == [o EXCEPT !.pc = "chmod"]
  <1>1. Types /\ TypeOK /\ o \in Editor /\ Shape(o) /\ Holding(p)
    BY Known
  <1>2. e \in Editor
    BY <1>1, Points DEF Editor
  <1>3. OwnBakOnly(p) /\ bak'[o.bak].x = bak[o.bak].x /\ bak'[o.bak].data = o.text
    <2>1. SetData(o.bak, o.text) /\ o.pc \notin Idle \cup Scanning
      BY DEF EndSnap, At, Idle, Scanning
    <2>2. o.text \in Version \cup {Empty, Torn}
      BY <1>1 DEF Editor
    <2> QED BY <1>1, <2>1, <2>2, OwnData
  <1>4. QuietMove(p, e)
    BY <1>1, <1>2, <1>3 DEF EndSnap, At, QuietMove, SameFiles, Shape, Failed, Preserving, Idle, Scanning, Setup,
                      Editor, Holding, IInv, Lonely
  <1> QED
    BY <1>3, <1>4, Quiet, <1>1 DEF EndSnap, TypeOK

\* The session goes on without recovery.
LEMMA SyncFailsStep ==
    ASSUME BoundsAssumption, ProcAssumption, IInv, NEW p \in Proc, SyncFails(p)
    PROVE  IInv'
  <1> DEFINE o == ed[p]
             t == IF o.then = "mkcopy" THEN "cmd" ELSE o.then
             e == [o EXCEPT !.pc = t, !.then = "none", !.on = FALSE, !.norm = FALSE]
  <1>1. Types /\ TypeOK /\ o \in Editor /\ Shape(o) /\ Holding(p)
    BY Known
  <1>2. t \in Point /\ o.pc = "sync" /\ Alone(p)
    BY <1>1, Points DEF SyncFails, At, Editor
  <1>3. Becomes(p, e) /\ t \in {"wait", "exit", "cmd"}
    BY <1>1, <1>2 DEF SyncFails, Shape
  <1> HIDE DEF t
  <1>4. e \in Editor
    BY <1>1, <1>2, Points DEF Editor
  <1>5. OwnBakOnly(p)
    BY <1>1 DEF SyncFails, OwnBakOnly, Types
  <1>6. QuietMove(p, e)
    BY <1>1, <1>2, <1>3, <1>4 DEF QuietMove, SameFiles, Shape, Failed, Preserving, Idle, Scanning, Setup, Editor
  <1> QED
    BY <1>5, <1>6, Quiet, <1>1 DEF SyncFails, TypeOK

\* The x bit goes, and the file is believed to be recoverable.
LEMMA ChmodStep ==
    ASSUME BoundsAssumption, ProcAssumption, IInv, NEW p \in Proc, Chmod(p)
    PROVE  IInv'
  <1> DEFINE o == ed[p]
             b == o.bak
             e == [o EXCEPT !.pc = o.then, !.then = "none", !.on = TRUE]
  <1>1. Types /\ TypeOK /\ o \in Editor /\ Shape(o) /\ Holding(p)
    BY Known
  <1>2. o.pc = "chmod" /\ Becomes(p, e) /\ bak' = [bak EXCEPT ![b].x = FALSE]
    BY DEF Chmod, At
  <1>3. e \in Editor
    BY <1>1, Points DEF Editor
  <1>4. b \in Bak
    BY <1>1, <1>2 DEF Shape, Editor, Idle, Scanning
  <1>5. o.copy = None
    BY <1>1, <1>2 DEF Shape
  <1>6. OwnBakOnly(p) /\ ~bak'[b].x
    <2>1. bak' = [bak EXCEPT ![b].x = FALSE] /\ bak \in [Bak -> BakFile]
      BY <1>1, <1>2 DEF Types
    <2> HIDE DEF b
    <2>2. bak' \in [Bak -> BakFile]
      <3> DEFINE r == bak[b]
      <3>1. r \in BakFile
        BY <2>1, <1>4
      <3>2. bak' = [bak EXCEPT ![b] = [r EXCEPT !.x = FALSE]]
        BY <2>1
      <3> HIDE DEF r
      <3>3. [r EXCEPT !.x = FALSE] \in BakFile
        BY <3>1 DEF BakFile
      <3> QED BY <2>1, <1>4, <3>2, <3>3
    <2>3. \A c \in Bak : (c # b => bak'[c] = bak[c]) /\ bak'[c].there = bak[c].there
      BY <2>1, <1>4 DEF BakFile
    <2>4. ~bak'[b].x
      BY <2>1, <1>4 DEF BakFile
    <2> QED BY <2>2, <2>3, <2>4 DEF OwnBakOnly, b
  <1>7. QuietMove(p, e)
    BY <1>1, <1>2, <1>3, <1>5, <1>6 DEF QuietMove, SameFiles, Shape, Failed, Preserving, Idle, Scanning, Setup,
                      Editor, IInv, Lonely
  <1> QED
    BY <1>6, <1>7, Quiet, <1>1 DEF Chmod, TypeOK

\* rcv_sync(), for whichever caller.
LEMMA SyncStep ==
    ASSUME BoundsAssumption, ProcAssumption, IInv, NEW p \in Proc, NEW then,
           RcvSync(p, ed[p], then), UNCHANGED <<mail, history, disk, ver>>,
           \/ ed[p].pc = "cmd" /\ then = "wait"
           \/ ed[p].pc \in {"wait", "cmd"} /\ then = "exit"
           \/ ed[p].pc = "presync" /\ then = "mkcopy"
    PROVE  IInv'
  <1> DEFINE o == ed[p]
             e == [o EXCEPT !.pc = "sync", !.then = then, !.dirty = FALSE]
             f == [o EXCEPT !.pc = then]
  <1>1. Types /\ TypeOK /\ o \in Editor /\ Shape(o) /\ Holding(p)
    BY Known
  <1>2. then \in Point
    BY Points
  <1>3. disk' \in Version /\ ver' \in Version
    BY <1>1 DEF TypeOK
  <1>4. CASE o.on /\ o.mod
    <2>1. e \in Editor /\ Becomes(p, e)
      BY <1>1, <1>2, <1>4, Points DEF Editor, RcvSync
    <2>2. OwnBakOnly(p) /\ bak'[o.bak].x = bak[o.bak].x
      <3>1. SetData(o.bak, Torn) /\ o.pc \notin Idle \cup Scanning
        BY <1>4 DEF RcvSync, Idle, Scanning
      <3> QED BY <1>1, <3>1, OwnData
    <2>3. QuietMove(p, e)
      BY <1>1, <1>2, <1>4, <2>1, <2>2 DEF At, QuietMove, SameFiles, Shape, Failed, Preserving, Idle, Scanning,
                      Setup, Editor, Holding, IInv, Lonely
    <2> QED BY <1>3, <2>2, <2>3, Quiet DEF history
  <1>5. CASE ~(o.on /\ o.mod)
    <2>1. f \in Editor /\ Becomes(p, f)
      BY <1>1, <1>2, <1>5 DEF Editor, RcvSync
    <2>2. OwnBakOnly(p) /\ bak' = bak
      BY <1>1, <1>5 DEF RcvSync, OwnBakOnly, Types
    <2>3. QuietMove(p, f)
      BY <1>1, <1>2, <1>5, <2>1, <2>2 DEF At, QuietMove, SameFiles, Shape, Failed, Preserving, Idle, Scanning,
                      Setup, Editor, Holding, IInv, Lonely
    <2> QED BY <1>3, <2>2, <2>3, Quiet DEF history
  <1> QED BY <1>4, <1>5

\* A hangup, and :preserve, sync the text...
LEMMA HangupStep ==
    ASSUME BoundsAssumption, ProcAssumption, IInv, NEW p \in Proc, Hangup(p)
    PROVE  IInv'
  BY SyncStep DEF Hangup, At, history

\* :preserve syncs the text first.
LEMMA PreserveSyncStep ==
    ASSUME BoundsAssumption, ProcAssumption, IInv, NEW p \in Proc, PreserveSync(p)
    PROVE  IInv'
  BY SyncStep DEF PreserveSync, At, history

\* ...and so does the end of a command that changed it.
LEMMA EndCommandStep ==
    ASSUME BoundsAssumption, ProcAssumption, IInv, NEW p \in Proc, EndCommand(p)
    PROVE  IInv'
  <1> DEFINE o == ed[p]
             e == [o EXCEPT !.pc = "wait"]
  <1>1. CASE o.dirty
    BY <1>1, SyncStep DEF EndCommand, At, history
  <1>2. CASE ~o.dirty
    <2>1. Types /\ TypeOK /\ o \in Editor /\ Shape(o) /\ Holding(p)
      BY Known
    <2>2. e \in Editor
      BY <2>1, Points DEF Editor
    <2>3. OwnBakOnly(p) /\ bak' = bak
      BY <1>2, <2>1 DEF EndCommand, OwnBakOnly, Types
    <2>4. QuietMove(p, e)
      BY <1>2, <2>1, <2>2, <2>3 DEF EndCommand, At, QuietMove, SameFiles, Shape, Failed, Preserving, Idle,
                      Scanning, Setup, Editor, Holding, IInv, Lonely
    <2> QED BY <2>3, <2>4, Quiet, <2>1 DEF EndCommand, TypeOK
  <1> QED BY <1>1, <1>2

-----------------------------------------------------------------------------
(* New files. *)

\* Names are taken in order.
LEMMA LeastIsOne ==
    ASSUME NEW S, S \subseteq Nat, S # {}
    PROVE  Least(S) \in S
  <1> DEFINE R == OpToRel(<, Nat)
  <1>1. IsWellFoundedOn(R, Nat)
    BY NatLessThanWellFounded
  <1>2. \A a, b \in Nat : b < a => <<b, a>> \in R
    BY DEF OpToRel
  <1> HIDE DEF R
  <1>3. \E a \in S : \A b \in S : ~(<<b, a>> \in R)
    BY <1>1, WFMin
  <1>4. \E a \in S : \A b \in S : a <= b
    <2>1. PICK a \in S : \A b \in S : ~(<<b, a>> \in R)
      BY <1>3
    <2>2. ASSUME NEW b \in S PROVE a <= b
      <3>1. a \in Nat /\ b \in Nat
        OBVIOUS
      <3>2. ~(b < a)
        BY <1>2, <2>1, <3>1
      <3> QED BY <3>1, <3>2
    <2> QED BY <2>2
  <1> QED BY <1>4 DEF Least

\* A new name is one nobody uses.
LEMMA NewNames ==
    ASSUME BoundsAssumption
    PROVE  /\ UnusedBak # {} => NewBak \in UnusedBak
           /\ UnusedMail # {} => NewMail \in UnusedMail
  <1>1. UnusedBak \subseteq Nat /\ UnusedMail \subseteq Nat
    BY DEF UnusedBak, UnusedMail, Bak, Mail
  <1> QED BY <1>1, LeastIsOne DEF NewBak, NewMail

\* The files are the same but for one mail file.
OneMail(m) == mail' \in [Mail -> MailFile] /\ \A n \in Mail \ {m} : mail'[n] = mail[n]

Building1(p, e, m) ==
    /\ Becomes(p, e) /\ e \in Editor /\ Shape(e)
    /\ ed[p].pc \notin Idle \cup Scanning \cup {"lock", "header", "unlink", "presync", "sync"}
    /\ e.pc = "lock" /\ e.fd = m
    /\ e.bak = ed[p].bak /\ e.mail = ed[p].mail /\ e.copy = ed[p].copy /\ e.best = ed[p].best
    /\ Preserving(e) \/ Failed(e) => Alone(p)
    /\ e.on => /\ ed[p].on /\ e.first = ed[p].first /\ e.mod = ed[p].mod /\ e.dirty = ed[p].dirty
               /\ e.text = ed[p].text

CopyOnly(p) ==
    /\ bak' \in [Bak -> BakFile]
    /\ \A b \in Bak : b # ed[p].copy => bak'[b] = bak[b]
    /\ \A b \in Bak : bak'[b].there = bak[b].there /\ bak'[b].x = bak[b].x

\* rcv_mailfile() begins: a session's first, or a preserved copy's.
LEMMA Build ==
    ASSUME BoundsAssumption, ProcAssumption, IInv, NEW p \in Proc, NEW e, UnusedMail # {},
           Building1(p, e, NewMail), MakeMail, CopyOnly(p),
           UNCHANGED <<owed, left>>, disk' \in Version, ver' \in Version
    PROVE  IInv'
  <1> DEFINE o == ed[p]
             m == NewMail
  <1>1. /\ Types /\ TypeOK /\ o \in Editor /\ Shape(o) /\ Holding(p)
        /\ owed' = owed /\ left' = left /\ unlocked' = unlocked \ {m}
    BY Known DEF MakeMail
  <1>2. /\ m \in Mail /\ ~mail[m].there /\ mail[m].lock = None
        /\ \A q \in Proc : m \notin {ed[q].mail, ed[q].fd, ed[q].best} \cup ed[q].todo
    BY NewNames DEF UnusedMail
  <1>3. mail' = [mail EXCEPT ![m] = [NoMailFile EXCEPT !.there = TRUE]] /\ Building1(p, e, m)
    BY DEF MakeMail
  <1> HIDE DEF m
  <1>4. /\ OneMail(m) /\ mail'[m].there /\ mail'[m].path = None /\ mail'[m].lock = None
    <2> DEFINE z == NoMailFile
               r == [z EXCEPT !.there = TRUE]
    <2>1. z \in MailFile /\ z.path = None /\ z.lock = None
      <3>1. 0 \in 0..MaxMail
        BY DEF BoundsAssumption
      <3> QED BY <3>1 DEF MailFile, NoMailFile
    <2> HIDE DEF z
    <2>3. r \in MailFile
      BY <2>1 DEF MailFile
    <2>4. r.there /\ r.path = None /\ r.lock = None
      BY <2>1 DEF MailFile
    <2> HIDE DEF r
    <2>5. mail' = [mail EXCEPT ![m] = r] /\ r \in MailFile /\ mail \in [Mail -> MailFile]
      BY <1>1, <1>3, <2>3 DEF r, z, Types
    <2> QED BY <1>2, <2>4, <2>5 DEF OneMail
  <1>5. ed' \in [Proc -> Editor] /\ ed'[p] = e /\ Others(p)
    BY <1>1, BecomesFacts DEF Building1
  <1>6. TypeOK' /\ Types'
    BY <1>1, <1>4, <1>5 DEF TypeOK, Types, CopyOnly, OneMail
  <1>7. /\ o.bak # None /\ o.bak \in Bak /\ o.fd = None /\ o.copy # o.bak
        /\ Named(e) <=> Named(o)
        /\ ~Building(o) /\ Building(e) /\ ~Failed(o) /\ ~Failed(e)
    BY <1>1 DEF Building1, Named, Failed, Building, Shape, Editor, Idle, Scanning, Setup
  <1> USE DEF IInv
  <1>8. Shapes'
    BY <1>5 DEF Shapes, Building1, Others
  <1>9. Lonely'
    <2> SUFFICES ASSUME NEW q \in Proc, Preserving(ed'[q]) \/ Failed(ed'[q]),
                        NEW r \in Proc \ {q}
                 PROVE  ed'[r].pc = "never"
      BY DEF Lonely, Alone, At
    <2>1. Alone(q)
      BY <1>5 DEF Lonely, Building1, Others
    <2>2. o.pc # "never"
      BY DEF Building1, Idle
    <2> QED BY <2>1, <2>2, <1>5 DEF Alone, At, Others
  <1>10. Locks'
    <2> SUFFICES ASSUME NEW q \in Proc
                 PROVE  /\ \A n \in Mail : mail'[n].lock = q => n \in {ed'[q].mail, ed'[q].fd, ed'[q].best}
                        /\ ed'[q].pc = "scanread" => mail'[ed'[q].fd].lock = q
                        /\ ed'[q].pc = "scanlock" => mail'[ed'[q].fd].lock # q
                        /\ ed'[q].best # None => mail'[ed'[q].best].lock = q
      BY DEF Locks, At
    <2>1. \A n \in Mail : mail[n].lock = q => n \in {ed[q].mail, ed[q].fd, ed[q].best}
      BY DEF Locks
    <2>2. \A n \in Mail : mail'[n].lock = q => n \in {ed'[q].mail, ed'[q].fd, ed'[q].best}
      BY <2>1, <1>1, <1>2, <1>3, <1>4, <1>5, <1>7 DEF OneMail, Others, Types, Building1
    <2>3. ed[q] \in Editor /\ Shape(ed[q]) /\ (ed[q].best # None => mail[ed[q].best].lock = q)
          /\ (ed[q].pc = "scanread" => mail[ed[q].fd].lock = q)
          /\ (ed[q].pc = "scanlock" => mail[ed[q].fd].lock # q)
      BY <1>1 DEF Types, Shapes, Locks, At
    <2>4. CASE q = p
      BY <2>2, <2>3, <2>4, <1>5, <1>7 DEF Building1, Shape
    <2>5. CASE q # p
      <3>1. ed'[q] = ed[q]
        BY <2>5, <1>5 DEF Others
      <3>2. ed[q].best # None => ed[q].best \in Mail /\ ed[q].best # m
        BY <2>3, <1>2 DEF Editor
      <3>3. ed[q].pc \in {"scanread", "scanlock"} => ed[q].fd \in Mail /\ ed[q].fd # m
        BY <2>3, <1>2 DEF Editor, Shape
      <3> QED BY <2>2, <2>3, <3>1, <3>2, <3>3, <1>4 DEF OneMail
    <2> QED BY <2>4, <2>5
  <1>11. Builds'
    <2> SUFFICES ASSUME NEW q \in Proc, Building(ed'[q])
                 PROVE  /\ mail'[ed'[q].fd].there /\ mail'[ed'[q].fd].path = None
                        /\ ed'[q].pc = "header" /\ ed'[q].fd \notin unlocked' => mail'[ed'[q].fd].lock = q
                        /\ ed'[q].pc = "lock" => mail'[ed'[q].fd].lock # q
                        /\ ed'[q].copy # None => ed'[q].fd \notin unlocked' /\ mail'[ed'[q].fd].lock \in {None, q}
                        /\ \A r \in Proc \ {q} : ed'[r].mail # ed'[q].fd /\ ed'[r].best # ed'[q].fd
                                              /\ (Building(ed'[r]) => ed'[r].fd # ed'[q].fd)
      BY DEF Builds, At
    <2>1. CASE q = p
      BY <2>1, <1>1, <1>2, <1>3, <1>4, <1>5 DEF Building1, Others
    <2>2. CASE q # p
      <3>1. ed'[q] = ed[q] /\ ed[q].fd # m
        BY <2>2, <1>2, <1>5 DEF Others
      <3>2. ed[q].fd \in Mail
        BY <1>1, <3>1 DEF Types, Editor, Shapes, Shape, Building
      <3>3. mail'[ed[q].fd] = mail[ed[q].fd]
        BY <1>4, <3>1, <3>2 DEF OneMail
      <3>4. \A r \in Proc \ {q} : ed'[r].mail # ed'[q].fd /\ ed'[r].best # ed'[q].fd
                                              /\ (Building(ed'[r]) => ed'[r].fd # ed'[q].fd)
        BY <1>3, <1>5, <2>2, <3>1 DEF Builds, Building1, Others
      <3> QED BY <1>1, <3>1, <3>3, <3>4 DEF Builds, At
    <2> QED BY <2>1, <2>2
  <1>12. OnePath'
    BY <1>4 DEF OnePath, OneMail
  <1>13. Names'
    <2> SUFFICES ASSUME NEW q \in Proc
                 PROVE  /\ ed'[q].bak # None /\ ~Named(ed'[q]) => \A n \in Mail : mail'[n].path # ed'[q].bak
                        /\ ed'[q].copy # None => \A n \in Mail : mail'[n].path # ed'[q].copy
                        /\ Named(ed'[q]) =>
                              \/ mail'[ed'[q].mail].path = ed'[q].bak
                              \/ mail'[ed'[q].mail].path = None /\ (~bak'[ed'[q].bak].there \/ Failed(ed'[q]))
      BY DEF Names
    <2>1. /\ ed'[q].bak = ed[q].bak /\ ed'[q].copy = ed[q].copy /\ ed'[q].mail = ed[q].mail
          /\ Named(ed'[q]) <=> Named(ed[q])
          /\ Failed(ed'[q]) <=> Failed(ed[q])
      BY <1>3, <1>5, <1>7 DEF Others, Building1
    <2>2. \A n \in Mail : mail'[n].path = mail[n].path \/ mail'[n].path = None
      BY <1>4 DEF OneMail
    <2>3. ed[q].bak \in Bak \cup {None} /\ ed[q].copy \in Bak \cup {None} /\ ed[q].mail \in Mail \cup {None}
      BY <1>1 DEF Types, Editor
    <2>4. Named(ed[q]) => mail'[ed[q].mail] = mail[ed[q].mail] /\ ed[q].bak # None
      <3>1. Named(ed[q]) => ed[q].bak # None
        BY DEF Named, Shapes, Shape
      <3> QED BY <3>1, <2>3, <1>2, <1>4 DEF OneMail, Named
    <2>5. Named(ed[q]) => bak'[ed[q].bak].there = bak[ed[q].bak].there
      BY <2>3, <2>4, <1>1 DEF CopyOnly, Types
    <2>6. \A n \in Mail : ed[q].bak # None => mail'[n].path # ed[q].bak \/ mail[n].path = ed[q].bak
      BY <2>2
    <2>7. \A n \in Mail : ed[q].copy # None => mail'[n].path # ed[q].copy \/ mail[n].path = ed[q].copy
      BY <2>2
    <2> QED BY <2>1, <2>4, <2>5, <2>6, <2>7 DEF Names
  <1>14. Shares'
    <2>1. \A q \in Proc : ed'[q].bak = ed[q].bak /\ ed'[q].mail = ed[q].mail
      BY <1>3, <1>5 DEF Others, Building1
    <2> QED BY <1>1, <1>2, <2>1 DEF Shares
  <1>15. Holdings'
    <2> SUFFICES ASSUME NEW q \in Proc, ed'[q].bak # None PROVE Holding(q)'
      BY DEF Holdings, Holding
    <2>1. /\ ed'[q].bak = ed[q].bak /\ ed'[q].mail = ed[q].mail
          /\ Named(ed'[q]) <=> Named(ed[q])
          /\ Failed(ed'[q]) <=> Failed(ed[q])
      BY <1>3, <1>5, <1>7 DEF Others, Building1
    <2>2. ed[q].bak \in Bak /\ ed[q].mail \in Mail \cup {None} /\ Holding(q)
      BY <2>1, <1>1 DEF Types, Editor, Holdings
    <2>3. bak'[ed[q].bak] = bak[ed[q].bak]
      <3>1. o.copy # ed[q].bak \/ (o.copy # None /\ q # p)
        BY <2>2, <1>1, <1>7 DEF Types
      <3>2. CASE o.copy # None /\ q # p
        <4>1. ed[q].pc = "never"
          BY <3>2, Solitude DEF Preserving
        <4> QED BY <4>1, <2>1 DEF Shapes, Shape, Idle
      <3> QED BY <3>1, <3>2, <2>2 DEF CopyOnly
    <2>4. ed[q].mail # None => mail'[ed[q].mail] = mail[ed[q].mail]
      BY <2>2, <1>2, <1>4 DEF OneMail
    <2>5. ed[q].mail \notin unlocked' => ed[q].mail \notin unlocked
      BY <1>1, <1>2
    <2>6. CASE q = p
      <3>1. /\ ~At(p, "unlink") /\ e.pc = "lock" /\ o.pc \notin {"presync", "sync", "unlink"}
            /\ e.on => /\ o.on /\ e.first = o.first /\ e.mod = o.mod /\ e.dirty = o.dirty /\ e.text = o.text
        BY <1>3 DEF Building1, At
      <3>2. SUFFICES ASSUME ed[p].mail \notin unlocked PROVE Holding(p)'
        BY <2>1, <2>5, <2>6 DEF Holding
      <3>3. bak'[e.bak].there
        BY <2>1, <2>2, <2>3, <2>6, <3>1, <3>2, <1>5 DEF Holding
      <3>4. Named(e) /\ ~Failed(e) => /\ mail'[e.mail].there /\ mail'[e.mail].lock = p
                                      /\ mail'[e.mail].path = e.bak
        BY <2>1, <2>2, <2>4, <2>6, <3>2, <1>5 DEF Holding, Named
      <3>5. e.on /\ ~e.first => ~bak'[e.bak].x /\ (e.mod /\ ~e.dirty => bak'[e.bak].data = e.text)
        BY <2>1, <2>2, <2>3, <2>6, <3>1, <3>2, <1>5 DEF Holding
      <3> QED BY <3>3, <3>4, <3>5, <1>5 DEF Holding
    <2>7. CASE q # p
      BY <2>1, <2>2, <2>3, <2>4, <2>5, <2>7, <1>5 DEF Holding, At, Others, Named
    <2> QED BY <2>6, <2>7
  <1>16. Copies'
    BY <1>1, <1>3, <1>5 DEF Copies, Others, Building1, CopyOnly, Types, Editor
  <1>17. Removed'
    BY <1>1, <1>3, <1>5 DEF Removed, At, Others, Building1, CopyOnly, Types, Editor, Shapes, Shape, Idle, Scanning
  <1>18. Owed'
    <2> SUFFICES ASSUME NEW k \in owed
                 PROVE  /\ mail'[k.mail].there /\ mail'[k.mail].path = k.bak /\ k.mail \notin unlocked'
                        /\ bak'[k.bak].there /\ bak'[k.bak].data = k.data /\ ~bak'[k.bak].x
                        /\ \A q \in Proc : /\ k.bak \notin {ed'[q].bak, ed'[q].copy} /\ k.mail # ed'[q].mail
                                           /\ ed'[q].pc \notin Scanning => k.mail # ed'[q].fd
      BY <1>1 DEF Owed
    <2>1. /\ mail[k.mail].there /\ mail[k.mail].path = k.bak /\ k.mail \notin unlocked
          /\ bak[k.bak].there /\ bak[k.bak].data = k.data /\ ~bak[k.bak].x
          /\ \A q \in Proc : /\ k.bak \notin {ed[q].bak, ed[q].copy} /\ k.mail # ed[q].mail
                             /\ ed[q].pc \notin Scanning => k.mail # ed[q].fd
      BY DEF Owed
    <2>2. k.mail \in Mail /\ k.bak \in Bak /\ k.mail # m
      BY <1>1, <1>2, <2>1 DEF Types
    <2>3. mail'[k.mail] = mail[k.mail] /\ bak'[k.bak] = bak[k.bak]
      BY <2>1, <2>2, <1>4 DEF OneMail, CopyOnly
    <2> QED BY <1>1, <2>1, <2>2, <2>3, <1>3, <1>5 DEF Others, Building1
  <1>19. Accounted'
    <2>1. \A q \in Proc : /\ ed'[q].bak = ed[q].bak /\ ed'[q].copy = ed[q].copy /\ ed'[q].mail = ed[q].mail
                          /\ ed[q].fd # None /\ ed[q].pc \notin Scanning =>
                                ed'[q].fd = ed[q].fd /\ ed'[q].pc \notin Scanning
      BY <1>3, <1>5, <1>7 DEF Others, Building1
    <2>2. \A b \in Bak : bak'[b].there => bak[b].there
      BY DEF CopyOnly
    <2>3. \A n \in Mail \ {m} : mail'[n] = mail[n] /\ n # None
      BY <1>1, <1>4 DEF OneMail, Types
    <2>4. ed'[p].fd = m /\ ed'[p].pc \notin Scanning
      BY <1>3, <1>5 DEF Building1, Scanning
    <2> QED BY <1>1, <2>1, <2>2, <2>3, <2>4 DEF Accounted
  <1> QED
    BY <1>6, <1>8, <1>9, <1>10, <1>11, <1>12, <1>13, <1>14, <1>15, <1>16, <1>17, <1>18, <1>19

\* rcv_init(), for a first change or for :preserve.
LEMMA InitStep ==
    ASSUME BoundsAssumption, ProcAssumption, IInv, NEW p \in Proc, NEW e, NEW then,
           RcvInit(p, e, then), e \in Editor, Shape(e), SameFiles(e, ed[p]),
           ed[p].pc = "cmd", e.pc = "cmd", e.first, e.on = ed[p].on, e.then = ed[p].then,
           e.todo = ed[p].todo,
           \/ then = "cmd" /\ e.dirty
           \/ then = "presync" /\ e.on /\ Alone(p),
           UNCHANGED <<bak, owed, left>>, disk' \in Version, ver' \in Version
    PROVE  IInv'
  <1> DEFINE o == ed[p]
  <1>1. Types /\ TypeOK /\ o \in Editor /\ Shape(o) /\ Holding(p) /\ then \in Point
    BY Known, Points
  <1>2. /\ Preserving(e) \/ Failed(e) => Alone(p)
        /\ e.fd = None /\ e.copy = None /\ e.best = None /\ e.bak # None
    <2>1. (Preserving(e) => Preserving(o)) /\ (Failed(e) => Failed(o))
      BY DEF Preserving, Failed, SameFiles
    <2>2. Preserving(o) \/ Failed(o) => Alone(p)
      BY DEF IInv, Lonely
    <2> QED BY <2>1, <2>2 DEF Shape, Idle, Scanning
  <1>3. OwnBakOnly(p) /\ CopyOnly(p)
    BY <1>1 DEF OwnBakOnly, CopyOnly, Types
  <1> DEFINE g == [e EXCEPT !.first = FALSE]
  <1>g. /\ g \in Editor /\ SameFiles(g, e) /\ ~g.first /\ g.on = e.on /\ g.pc = e.pc /\ g.then = e.then
        /\ g.dirty = e.dirty /\ g.todo = e.todo
    BY DEF Editor, SameFiles
  <1> HIDE DEF g
  <1>4. CASE ~e.on /\ Becomes(p, [g EXCEPT !.pc = then]) /\ UNCHANGED <<mail, unlocked>>
    <2> DEFINE f == [g EXCEPT !.pc = then]
    <2>1. /\ f \in Editor /\ f.pc = "cmd" /\ SameFiles(f, e) /\ f.on = e.on /\ ~f.first /\ f.then = e.then
          /\ f.dirty = e.dirty /\ f.todo = e.todo
      BY <1>1, <1>4, <1>g DEF Editor, SameFiles
    <2> HIDE DEF f
    <2>2. Shape(f)
      BY <1>2, <1>4, <2>1 DEF Shape, SameFiles, Idle, Scanning, Setup
    <2>3. (Preserving(f) => Preserving(e)) /\ (Failed(f) <=> Failed(e)) /\ (Failed(e) <=> Failed(o))
      BY <2>1 DEF Preserving, Failed, SameFiles, Setup
    <2>4. QuietMove(p, f)
      BY <1>2, <1>4, <2>1, <2>2, <2>3 DEF QuietMove, SameFiles, Idle, Scanning, f
    <2> QED BY <1>3, <1>4, <2>4, Quiet DEF history
  <1>5. CASE /\ e.on /\ e.mail # None
             /\ Becomes(p, [g EXCEPT !.pc = "chmod", !.on = FALSE, !.then = then])
             /\ UNCHANGED <<mail, unlocked>>
    <2> DEFINE f == [g EXCEPT !.pc = "chmod", !.on = FALSE, !.then = then]
    <2>1. /\ f \in Editor /\ f.pc = "chmod" /\ SameFiles(f, e) /\ ~f.on /\ ~f.first /\ f.then = then
          /\ f.dirty = e.dirty /\ f.todo = e.todo
      <3>0. f = [g EXCEPT !.pc = "chmod", !.on = FALSE, !.then = then] /\ "chmod" \in Point
        BY Points
      <3> HIDE DEF f
      <3>1. f \in Editor /\ f.pc = "chmod" /\ ~f.on /\ f.then = then /\ SameFiles(f, g)
            /\ f.first = g.first /\ f.dirty = g.dirty /\ f.todo = g.todo
        <4>1. g \in Editor /\ then \in Point
          BY <1>1, <1>g
        <4>2. f \in Editor
          BY <3>0, <4>1 DEF Editor
        <4> QED BY <3>0, <4>1, <4>2 DEF Editor, SameFiles
      <3> QED BY <3>1, <1>g DEF SameFiles
    <2> HIDE DEF f
    <2>2. Shape(f)
      BY <1>2, <1>5, <2>1 DEF Shape, SameFiles, Idle, Scanning, Setup
    <2>3. (Preserving(f) => Alone(p)) /\ ~Failed(f) /\ ~Failed(o)
      BY <1>2, <1>5, <2>1 DEF Preserving, Failed, SameFiles, Setup
    <2>4. QuietMove(p, f)
      BY <1>2, <1>5, <2>1, <2>2, <2>3 DEF QuietMove, SameFiles, Idle, Scanning, f
    <2> QED BY <1>3, <1>5, <2>4, Quiet DEF history
  <1>6. CASE /\ e.on /\ e.mail = None /\ UnusedMail # {} /\ MakeMail
             /\ Becomes(p, [g EXCEPT !.pc = "lock", !.on = FALSE, !.then = then, !.fd = NewMail])
    <2> DEFINE m == NewMail
               f == [g EXCEPT !.pc = "lock", !.on = FALSE, !.then = then, !.fd = m]
    <2>1. m \in Mail /\ \A q \in Proc : m \notin ed[q].todo
      BY <1>6, NewNames DEF UnusedMail
    <2>2. Building1(p, f, m)
      <3>1. Becomes(p, f)
        BY <1>6
      <3> HIDE DEF m
      <3>0. f = [g EXCEPT !.pc = "lock", !.on = FALSE, !.then = then, !.fd = m] /\ "lock" \in Point
        BY Points
      <3> HIDE DEF f
      <3>2. /\ f \in Editor /\ f.pc = "lock" /\ ~f.on /\ f.then = then /\ f.fd = m
            /\ f.bak = g.bak /\ f.mail = g.mail /\ f.copy = g.copy /\ f.best = g.best
            /\ f.first = g.first /\ f.dirty = g.dirty /\ f.todo = g.todo
        <4>1. g \in Editor /\ then \in Point
          BY <1>1, <1>g
        <4>2. f \in Editor
          BY <2>1, <3>0, <4>1 DEF Editor
        <4> QED BY <3>0, <4>1, <4>2 DEF Editor
      <3>4. Shape(f)
        BY <1>1, <1>2, <1>6, <1>g, <2>1, <3>2 DEF Types, Shape, SameFiles, Idle, Scanning, Setup
      <3>5. (Preserving(f) => Alone(p)) /\ ~Failed(f)
        BY <1>2, <1>6, <1>g, <3>2 DEF Preserving, Failed, SameFiles
      <3> QED
        BY <3>1, <3>2, <3>4, <3>5, <1>g, <1>6 DEF Building1, SameFiles, Idle, Scanning
    <2> QED BY <1>3, <1>6, <2>2, Build
  <1> QED BY <1>4, <1>5, <1>6 DEF RcvInit, g

\* A change to the text, with rcv_init() when it is the first.
LEMMA ChangeStep ==
    ASSUME BoundsAssumption, ProcAssumption, IInv, NEW p \in Proc, Change(p)
    PROVE  IInv'
  <1> DEFINE o == ed[p]
             v == ver + 1
             e == [o EXCEPT !.text = v, !.mod = TRUE, !.dirty = TRUE]
  <1>1. /\ Types /\ TypeOK /\ o \in Editor /\ Shape(o) /\ Holding(p)
        /\ disk' \in Version /\ ver' \in Version /\ v \in Version /\ o.pc = "cmd"
    <2>1. ver \in 0..MaxVer /\ ver < MaxVer /\ ver' = v /\ disk' = disk /\ o.pc = "cmd"
      BY Known DEF Change, At, TypeOK, Version
    <2>2. MaxVer \in Nat
      BY DEF BoundsAssumption
    <2> QED BY <2>1, <2>2, Known DEF Version, TypeOK
  <1>2. IF o.first THEN RcvInit(p, e, "cmd") ELSE Becomes(p, e) /\ UNCHANGED <<mail, unlocked>>
    BY DEF Change
  <1>3. e = [o EXCEPT !.text = v, !.mod = TRUE, !.dirty = TRUE] /\ UNCHANGED <<bak, owed, left>>
    BY DEF Change
  <1> HIDE DEF e, v
  <1>4. e \in Editor
    BY <1>1, <1>3 DEF Editor
  <1>5. /\ e.pc = "cmd" /\ SameFiles(e, o) /\ e.first = o.first /\ e.on = o.on /\ e.then = o.then
        /\ e.todo = o.todo /\ e.dirty
    BY <1>1, <1>3, <1>4 DEF Editor, SameFiles
  <1>6. Shape(e)
    BY <1>1, <1>5 DEF Shape, SameFiles, Idle, Scanning, Setup
  <1>7. CASE o.first
    BY <1>1, <1>2, <1>3, <1>4, <1>5, <1>6, <1>7, InitStep
  <1>8. CASE ~o.first
    <2>1. OwnBakOnly(p) /\ bak' = bak
      BY <1>1, <1>3 DEF OwnBakOnly, Types
    <2>2. (Preserving(e) => Preserving(o)) /\ (Failed(e) <=> Failed(o))
      BY <1>1, <1>5 DEF Preserving, Failed, SameFiles
    <2>3. e.on /\ ~e.first /\ e.mail \notin unlocked => ~bak[e.bak].x
      BY <1>1, <1>5 DEF Holding, At, SameFiles, Shape, Idle, Scanning
    <2>4. QuietMove(p, e)
      BY <1>1, <1>2, <1>4, <1>5, <1>6, <1>8, <2>1, <2>2, <2>3 DEF QuietMove, Idle, Scanning, IInv, Lonely
    <2> QED BY <1>1, <1>2, <1>3, <1>8, <2>1, <2>4, Quiet DEF history
  <1> QED BY <1>7, <1>8

\* :preserve begins, with rcv_init() when nothing was changed yet.
LEMMA PreserveStep ==
    ASSUME BoundsAssumption, ProcAssumption, IInv, NEW p \in Proc, Preserve(p)
    PROVE  IInv'
  <1> DEFINE o == ed[p]
             e == [o EXCEPT !.pc = "presync"]
  <1>1. /\ Types /\ TypeOK /\ o \in Editor /\ Shape(o) /\ Holding(p) /\ o.pc = "cmd" /\ o.on /\ Alone(p)
        /\ UNCHANGED <<bak, owed, left>> /\ disk' \in Version /\ ver' \in Version
    BY Known DEF Preserve, At, TypeOK
  <1>2. CASE o.first
    <2>1. RcvInit(p, o, "presync") /\ SameFiles(o, o)
      BY <1>2 DEF Preserve, SameFiles
    <2> QED BY <1>1, <1>2, <2>1, InitStep
  <1>3. CASE ~o.first
    <2>1. Becomes(p, e) /\ UNCHANGED <<mail, unlocked>> /\ e \in Editor
      BY <1>1, <1>3, Points DEF Preserve, Editor
    <2>2. OwnBakOnly(p) /\ bak' = bak
      BY <1>1 DEF OwnBakOnly, Types
    <2>3. QuietMove(p, e)
      BY <1>1, <1>3, <2>1, <2>2 DEF At, QuietMove, SameFiles, Shape, Failed, Preserving, Idle, Scanning, Setup,
                      Editor, Holding, IInv, Lonely
    <2> QED BY <1>1, <2>1, <2>2, <2>3, Quiet DEF history
  <1> QED BY <1>2, <1>3

\* rcv_copy() is done, and a mail file for the copy is made.
LEMMA EndCopyStep ==
    ASSUME BoundsAssumption, ProcAssumption, IInv, NEW p \in Proc, EndCopy(p)
    PROVE  IInv'
  <1> DEFINE o == ed[p]
             m == NewMail
             d == bak[o.bak].data
             c == o.copy
             e == [o EXCEPT !.pc = "lock", !.fd = m]
  <1>1. /\ Types /\ TypeOK /\ o \in Editor /\ Shape(o) /\ Holding(p) /\ o.pc = "copy"
        /\ UnusedMail # {} /\ MakeMail /\ UNCHANGED <<owed, left>> /\ disk' \in Version /\ ver' \in Version
    BY Known DEF EndCopy, At, TypeOK
  <1>2. /\ bak' = [bak EXCEPT ![c].data = d] /\ Becomes(p, e)
    BY DEF EndCopy, SetData
  <1>3. m \in Mail /\ m \notin o.todo /\ m # o.mail /\ m # o.best
    BY <1>1, NewNames DEF UnusedMail
  <1>4. c \in Bak /\ d \in Version \cup {Empty, Torn} /\ bak \in [Bak -> BakFile]
    BY <1>1 DEF Shape, Editor, Idle, Scanning, Types, BakFile
  <1>5. CopyOnly(p)
    <2> HIDE DEF c, d
    <2>1. bak' \in [Bak -> BakFile]
      BY <1>2, <1>4 DEF BakFile
    <2>2. \A b \in Bak : b # c => bak'[b] = bak[b]
      BY <1>2, <1>4
    <2>3. \A b \in Bak : bak'[b].there = bak[b].there /\ bak'[b].x = bak[b].x
      BY <1>2, <1>4 DEF BakFile
    <2> QED BY <2>1, <2>2, <2>3 DEF CopyOnly, c
  <1>6. Building1(p, e, m)
    <2>1. e = [o EXCEPT !.pc = "lock", !.fd = m] /\ "lock" \in Point
      BY Points
    <2> HIDE DEF e, m
    <2>2. e \in Editor
      BY <1>1, <1>3, <2>1 DEF Editor
    <2>3. /\ e.pc = "lock" /\ e.fd = m /\ e.bak = o.bak /\ e.mail = o.mail /\ e.copy = o.copy /\ e.best = o.best
          /\ e.on = o.on /\ e.first = o.first /\ e.mod = o.mod /\ e.dirty = o.dirty /\ e.text = o.text
          /\ e.todo = o.todo /\ e.then = o.then
      BY <1>1, <2>1, <2>2 DEF Editor
    <2>4. Shape(e)
      BY <1>1, <1>3, <2>3 DEF Types, Shape, Idle, Scanning, Setup
    <2>5. Preserving(o) /\ (Failed(e) => Failed(o))
      BY <1>1, <2>3 DEF Preserving, Failed, Shape, Setup
    <2> QED BY <1>1, <1>2, <2>2, <2>3, <2>4, <2>5 DEF Building1, Idle, Scanning, IInv, Lonely
  <1> QED BY <1>1, <1>5, <1>6, Build

\* The files are the same but for one backing file.
OneBak(b) == bak' \in [Bak -> BakFile] /\ \A c \in Bak \ {b} : bak'[c] = bak[c]

\* A process that does nothing, as a record.
LEMMA NobodyFacts ==
    ASSUME BoundsAssumption
    PROVE  /\ Nobody \in Editor /\ Nobody.pc = "none" /\ Nobody.then = "none" /\ Nobody.bak = None
           /\ Nobody.mail = None /\ Nobody.fd = None /\ Nobody.copy = None /\ ~Nobody.on /\ Nobody.first
           /\ ~Nobody.mod /\ ~Nobody.dirty /\ Nobody.todo = {} /\ Nobody.best = None
  BY Points DEF Nobody, Editor

\* file_init() makes a backing file of its own.
LEMMA OpenStep ==
    ASSUME BoundsAssumption, ProcAssumption, IInv, NEW p \in Proc, Open(p)
    PROVE  IInv'
  <1> DEFINE o == ed[p]
             b == NewBak
             n == [there |-> TRUE, x |-> TRUE, data |-> Empty]
             z == Nobody
             e == [z EXCEPT !.pc = "wait", !.text = disk, !.bak = b, !.on = TRUE]
  <1>1. /\ Types /\ TypeOK /\ o \in Editor /\ Shape(o) /\ o.pc = "none"
        /\ disk' = disk /\ ver' = ver /\ mail' = mail /\ owed' = owed /\ left' = left /\ unlocked' = unlocked
    BY Known DEF Open, At, history
  <1>2. /\ b \in Bak /\ ~bak[b].there /\ \A m \in Mail : mail[m].path # b
        /\ \A q \in Proc : b # ed[q].bak /\ b # ed[q].copy
    BY NewNames DEF UnusedBak, Open
  <1>3. bak' = [bak EXCEPT ![b] = n] /\ Becomes(p, e)
    BY DEF Open
  <1>4. /\ e.pc = "wait" /\ e.bak = b /\ e.on /\ e.then = "none" /\ e.first /\ ~e.mod /\ ~e.dirty
        /\ e.mail = None /\ e.fd = None /\ e.copy = None /\ e.best = None /\ e.todo = {} /\ e \in Editor
    <2>1. /\ z \in Editor /\ z.pc = "none" /\ z.then = "none" /\ z.bak = None
          /\ z.mail = None /\ z.fd = None /\ z.copy = None /\ ~z.on /\ z.first
          /\ ~z.mod /\ ~z.dirty /\ z.todo = {} /\ z.best = None
      BY NobodyFacts
    <2>2. disk \in Version /\ "wait" \in Point
      BY <1>1, Points DEF TypeOK
    <2>3. e = [z EXCEPT !.pc = "wait", !.text = disk, !.bak = b, !.on = TRUE]
      OBVIOUS
    <2> HIDE DEF e, z, b
    <2>4. e \in Editor
      BY <1>2, <2>1, <2>2, <2>3 DEF Editor
    <2> QED BY <2>1, <2>3, <2>4 DEF Editor
  <1> HIDE DEF b, e, n
  <1>5. OneBak(b) /\ bak'[b].there
    <2>1. n \in BakFile /\ n.there
      BY DEF BakFile, n
    <2> QED BY <1>1, <1>2, <1>3, <2>1 DEF OneBak, Types
  <1>6. ed' \in [Proc -> Editor] /\ ed'[p] = e /\ Others(p)
    BY <1>1, <1>3, <1>4, BecomesFacts
  <1>7. TypeOK' /\ Types'
    BY <1>1, <1>5, <1>6 DEF TypeOK, Types, OneBak
  <1>8. o.mail = None /\ o.copy = None /\ o.bak = None /\ o.fd = None /\ o.best = None
    BY <1>1 DEF Shape, Idle
  <1>9. ~Named(e) /\ ~Building(e) /\ ~Failed(e) /\ ~Preserving(e) /\ Shape(e)
    BY <1>1, <1>2, <1>4 DEF Named, Building, Failed, Preserving, Shape, Idle, Scanning, Setup, Types
  <1>10. \A q \in Proc \ {p} : ed'[q] = ed[q] /\ Shape(ed[q]) /\ ed[q] \in Editor
                              /\ ~Preserving(ed[q]) /\ ~Failed(ed[q])
    BY <1>1, <1>6, Solitude DEF Others, IInv, Shapes, Types
  <1> USE DEF IInv
  <1>11. Shapes' /\ Lonely'
    BY <1>6, <1>9, <1>10 DEF Shapes, Lonely
  <1>12. Locks'
    BY <1>1, <1>4, <1>6, <1>8, <1>10 DEF Locks, At
  <1>13. Builds'
    <2> SUFFICES ASSUME NEW q \in Proc \ {p}, Building(ed[q])
                 PROVE  \A r \in Proc \ {q} : ed'[r].mail # ed[q].fd /\ ed'[r].best # ed[q].fd
                                              /\ (Building(ed'[r]) => ed'[r].fd # ed[q].fd)
      BY <1>1, <1>6, <1>9, <1>10 DEF Builds, At
    <2>1. ed[q].fd # None
      BY <1>10 DEF Shape, Building
    <2> QED BY <2>1, <1>4, <1>6, <1>9, <1>10 DEF Builds
  <1>14. OnePath'
    BY <1>1 DEF OnePath
  <1>15. Names'
    BY <1>1, <1>2, <1>4, <1>5, <1>6, <1>9, <1>10 DEF Names, OneBak, Editor, Named, Shape
  <1>16. Shares'
    BY <1>1, <1>2, <1>4, <1>6, <1>10 DEF Shares
  <1>17. Holdings'
    <2>1. Holding(p)'
      BY <1>1, <1>4, <1>5, <1>6, <1>9 DEF Holding, At
    <2>2. ASSUME NEW q \in Proc \ {p} PROVE Holding(q)'
      <3>1. ed[q].bak # None => bak'[ed[q].bak] = bak[ed[q].bak]
        BY <1>2, <1>5, <1>10 DEF OneBak, Editor
      <3>2. Holding(q)
        BY DEF Holdings
      <3> QED BY <1>1, <1>10, <3>1, <3>2 DEF Holding, At
    <2> QED BY <2>1, <2>2 DEF Holdings
  <1>18. Copies'
    BY <1>4, <1>6, <1>10 DEF Copies, Preserving
  <1>19. Removed'
    BY <1>1, <1>2, <1>4, <1>5, <1>6, <1>10 DEF Removed, At, OneBak, Editor, Shape, Idle, Scanning
  <1>20. Owed'
    <2> SUFFICES ASSUME NEW k \in owed
                 PROVE  /\ mail'[k.mail].there /\ mail'[k.mail].path = k.bak /\ k.mail \notin unlocked'
                        /\ bak'[k.bak].there /\ bak'[k.bak].data = k.data /\ ~bak'[k.bak].x
                        /\ \A q \in Proc : /\ k.bak \notin {ed'[q].bak, ed'[q].copy} /\ k.mail # ed'[q].mail
                                           /\ ed'[q].pc \notin Scanning => k.mail # ed'[q].fd
      BY <1>1 DEF Owed
    <2>1. /\ mail[k.mail].there /\ mail[k.mail].path = k.bak /\ k.mail \notin unlocked
          /\ bak[k.bak].there /\ bak[k.bak].data = k.data /\ ~bak[k.bak].x
          /\ \A q \in Proc : /\ k.bak \notin {ed[q].bak, ed[q].copy} /\ k.mail # ed[q].mail
                             /\ ed[q].pc \notin Scanning => k.mail # ed[q].fd
      BY DEF Owed
    <2>2. k.mail \in Mail /\ k.bak \in Bak /\ k.mail # None /\ k.bak # None /\ k.bak # b
      BY <1>1, <1>2, <2>1 DEF Types
    <2>3. mail'[k.mail] = mail[k.mail] /\ bak'[k.bak] = bak[k.bak]
      BY <2>2, <1>1, <1>5 DEF OneBak
    <2> QED BY <1>1, <2>1, <2>2, <2>3, <1>4, <1>6, <1>10
  <1>21. Accounted'
    <2>1. \A c \in Bak \ {b} : bak'[c] = bak[c] /\ c # None
      BY <1>1, <1>5 DEF OneBak, Types
    <2>2. ed'[p].bak = b
      BY <1>4, <1>6
    <2>3. \A m \in Mail : m # None
      BY <1>1 DEF Types
    <2> QED BY <1>1, <1>6, <1>8, <1>10, <2>1, <2>2, <2>3 DEF Accounted
  <1> QED
    BY <1>7, <1>11, <1>12, <1>13, <1>14, <1>15, <1>16, <1>17, <1>18, <1>19, <1>20, <1>21

-----------------------------------------------------------------------------
(* The steps of vi -r, until it has recovered a file. *)

ScanMove(p, e) ==
    /\ Becomes(p, e) /\ e \in Editor /\ Shape(e)
    /\ {ed[p].pc, e.pc} \subseteq {"none"} \cup Scanning
    /\ mail' \in [Mail -> MailFile]
    /\ \A n \in Mail : mail'[n].lock = p => n \in {e.fd, e.best}
    /\ e.pc = "scanread" => mail'[e.fd].lock = p
    /\ e.pc = "scanlock" => mail'[e.fd].lock # p
    /\ e.best # None => /\ mail'[e.best].lock = p
                        /\ e.best = ed[p].best \/ mail[e.best].path # None
    /\ \A n \in Mail : mail'[n].lock # mail[n].lock => mail[n].lock \in {None, p} /\ mail'[n].lock \in {None, p}
    /\ \A n \in Mail :
          \/ mail'[n].there = mail[n].there /\ mail'[n].path = mail[n].path
          \/ /\ mail[n].lock = p /\ mail[n].path # None /\ ~bak[mail[n].path].there
             /\ ~mail'[n].there /\ mail'[n].path = None
    /\ left' \subseteq left
    /\ \A b \in Bak : <<"bak", b>> \in left => <<"bak", b>> \in left'
    /\ \A n \in Mail : mail'[n].there /\ <<"mail", n>> \in left => <<"mail", n>> \in left'

\* They preserve the invariant: what they lock nobody else relies on, and the
\* mail files they remove name a backing file that is gone.
LEMMA Scan ==
    ASSUME BoundsAssumption, ProcAssumption, IInv, NEW p \in Proc, NEW e, ScanMove(p, e),
           UNCHANGED <<disk, ver, bak, owed, unlocked>>
    PROVE  IInv'
  <1> DEFINE o == ed[p]
  <1>1. /\ Types /\ TypeOK /\ o \in Editor /\ Shape(o)
        /\ disk' = disk /\ ver' = ver /\ bak' = bak /\ owed' = owed /\ unlocked' = unlocked
    BY Known
  <1>2. ed' \in [Proc -> Editor] /\ ed'[p] = e /\ Others(p)
    BY <1>1, BecomesFacts DEF ScanMove
  <1>3. TypeOK' /\ Types'
    BY <1>1, <1>2 DEF TypeOK, Types, ScanMove
  <1>4. /\ o.bak = None /\ o.mail = None /\ o.copy = None /\ e.bak = None /\ e.mail = None /\ e.copy = None
        /\ ~Named(e) /\ ~Building(e) /\ ~Failed(e) /\ ~Preserving(e) /\ o.pc # "never" /\ ~Building(o)
        /\ e.pc # "unlink" /\ (e.pc \in Scanning \/ e.fd = None) /\ (o.pc \in Scanning \/ o.fd = None)
    BY <1>1 DEF ScanMove, Shape, Idle, Scanning, Named, Building, Failed, Preserving, Setup
  <1>5. \A q \in Proc \ {p} : ed'[q] = ed[q] /\ Shape(ed[q]) /\ ed[q] \in Editor
                              /\ ~Preserving(ed[q]) /\ ~Failed(ed[q])
    BY <1>1, <1>2, <1>4, Solitude DEF Others, IInv, Shapes, Types
  <1>6. /\ \A n \in Mail : mail'[n].path # None => mail'[n].path = mail[n].path
        /\ \A n \in Mail : mail'[n].there => mail[n].there
        /\ \A n \in Mail : mail'[n].path # None => mail'[n].there = mail[n].there
        /\ \A n \in Mail : mail[n].path = None => mail'[n].there = mail[n].there /\ mail'[n].path = None
        /\ \A n \in Mail, q \in Proc \ {p} : mail[n].lock = q =>
              mail'[n].lock = q /\ mail'[n].there = mail[n].there /\ mail'[n].path = mail[n].path
        /\ \A n \in Mail, q \in Proc \ {p} : mail'[n].lock = q => mail[n].lock = q
    <2>1. \A q \in Proc \ {p} : q \notin {None, p}
      BY <1>1 DEF Types
    <2> QED BY <2>1 DEF ScanMove
  <1> USE DEF IInv
  <1>7. Shapes' /\ Lonely'
    BY <1>2, <1>4, <1>5 DEF Shapes, Lonely, ScanMove
  <1>8. Locks'
    <2> SUFFICES ASSUME NEW q \in Proc
                 PROVE  /\ \A n \in Mail : mail'[n].lock = q => n \in {ed'[q].mail, ed'[q].fd, ed'[q].best}
                        /\ ed'[q].pc = "scanread" => mail'[ed'[q].fd].lock = q
                        /\ ed'[q].pc = "scanlock" => mail'[ed'[q].fd].lock # q
                        /\ ed'[q].best # None => mail'[ed'[q].best].lock = q
      BY DEF Locks, At
    <2>1. CASE q = p
      BY <2>1, <1>2 DEF ScanMove
    <2>2. CASE q # p
      <3>1. /\ \A n \in Mail : mail[n].lock = q => n \in {ed[q].mail, ed[q].fd, ed[q].best}
            /\ ed[q].pc = "scanread" => mail[ed[q].fd].lock = q /\ ed[q].fd \in Mail
            /\ ed[q].pc = "scanlock" => mail[ed[q].fd].lock # q /\ ed[q].fd \in Mail
            /\ ed[q].best # None => mail[ed[q].best].lock = q /\ ed[q].best \in Mail
        BY <2>2, <1>5 DEF Locks, At, Editor, Shape
      <3> QED BY <2>2, <3>1, <1>5, <1>6
    <2> QED BY <2>1, <2>2
  <1>9. Builds'
    <2> SUFFICES ASSUME NEW q \in Proc \ {p}, Building(ed[q])
                 PROVE  /\ mail'[ed[q].fd].there /\ mail'[ed[q].fd].path = None
                        /\ ed[q].pc = "header" /\ ed[q].fd \notin unlocked => mail'[ed[q].fd].lock = q
                        /\ ed[q].pc = "lock" => mail'[ed[q].fd].lock # q
                        /\ \A r \in Proc \ {q} : ed'[r].mail # ed[q].fd /\ ed'[r].best # ed[q].fd
                                              /\ (Building(ed'[r]) => ed'[r].fd # ed[q].fd)
      BY <1>1, <1>2, <1>4, <1>5 DEF Builds, At, Preserving
    <2>1. ed[q].fd \in Mail /\ ed[q].fd # None
      BY <1>1, <1>5 DEF Editor, Shape, Building
    <2>2. mail[ed[q].fd].there /\ mail[ed[q].fd].path = None
      BY DEF Builds
    <2>3. e.best # ed[q].fd
      BY <2>1, <2>2 DEF Builds, ScanMove
    <2> QED BY <2>1, <2>2, <2>3, <1>2, <1>4, <1>5, <1>6 DEF Builds, At
  <1>10. OnePath'
    BY <1>6 DEF OnePath
  <1>11. Names'
    <2> SUFFICES ASSUME NEW q \in Proc \ {p}
                 PROVE  /\ ed[q].bak # None /\ ~Named(ed[q]) => \A n \in Mail : mail'[n].path # ed[q].bak
                        /\ Named(ed[q]) =>
                              \/ mail'[ed[q].mail].path = ed[q].bak
                              \/ mail'[ed[q].mail].path = None /\ (~bak[ed[q].bak].there \/ Failed(ed[q]))
      BY <1>1, <1>2, <1>4, <1>5 DEF Names, Preserving
    <2>1. ed[q].bak # None /\ ~Named(ed[q]) => \A n \in Mail : mail'[n].path # ed[q].bak
      BY <1>6 DEF Names
    <2>2. ASSUME Named(ed[q])
          PROVE  \/ mail'[ed[q].mail].path = ed[q].bak
                 \/ mail'[ed[q].mail].path = None /\ ~bak[ed[q].bak].there
      <3>1. ed[q].mail \in Mail
        BY <2>2, <1>5 DEF Named, Editor
      <3>2. \/ mail[ed[q].mail].path = ed[q].bak
            \/ mail[ed[q].mail].path = None /\ ~bak[ed[q].bak].there
        BY <2>2, <1>5 DEF Names
      <3> QED BY <3>1, <3>2 DEF ScanMove
    <2> QED BY <2>1, <2>2
  <1>12. Shares'
    BY <1>1, <1>2, <1>4, <1>5 DEF Shares
  <1>13. Holdings'
    <2> SUFFICES ASSUME NEW q \in Proc \ {p} PROVE Holding(q)'
      BY <1>2, <1>4 DEF Holdings, Holding
    <2>1. Holding(q) /\ (Named(ed[q]) => ed[q].mail \in Mail)
      BY <1>5 DEF Holdings, Named, Editor
    <2> QED BY <2>1, <1>1, <1>5, <1>6 DEF Holding, At
  <1>14. Copies' /\ Removed'
    BY <1>1, <1>2, <1>4, <1>5 DEF Copies, Removed, At
  <1>15. Owed'
    <2> SUFFICES ASSUME NEW k \in owed
                 PROVE  /\ mail'[k.mail].there /\ mail'[k.mail].path = k.bak
                        /\ \A q \in Proc : /\ k.bak \notin {ed'[q].bak, ed'[q].copy} /\ k.mail # ed'[q].mail
                                           /\ ed'[q].pc \notin Scanning => k.mail # ed'[q].fd
      BY <1>1 DEF Owed
    <2>1. /\ mail[k.mail].there /\ mail[k.mail].path = k.bak /\ bak[k.bak].there
          /\ \A q \in Proc : /\ k.bak \notin {ed[q].bak, ed[q].copy} /\ k.mail # ed[q].mail
                             /\ ed[q].pc \notin Scanning => k.mail # ed[q].fd
      BY DEF Owed
    <2>2. k.mail \in Mail /\ k.bak \in Bak /\ k.mail # None /\ k.bak # None
      BY <1>1 DEF Types
    <2>3. mail'[k.mail].there /\ mail'[k.mail].path = k.bak
      BY <2>1, <2>2 DEF ScanMove
    <2> QED BY <2>1, <2>2, <2>3, <1>2, <1>4, <1>5
  <1>16. Accounted'
    <2>1. \A b \in Bak : b # None
      BY <1>1 DEF Types
    <2>2. \A n \in Mail : n # None
      BY <1>1 DEF Types
    <2>3. \A b \in Bak : bak'[b].there =>
              <<"bak", b>> \in left' \/ \E q \in Proc : b = ed'[q].bak \/ b = ed'[q].copy
      <3> SUFFICES ASSUME NEW b \in Bak, bak[b].there
                   PROVE  <<"bak", b>> \in left' \/ \E q \in Proc : b = ed'[q].bak \/ b = ed'[q].copy
        BY <1>1
      <3>1. CASE <<"bak", b>> \in left
        BY <3>1 DEF ScanMove
      <3>2. CASE \E q \in Proc : b = ed[q].bak \/ b = ed[q].copy
        BY <3>2, <2>1, <1>4, <1>5
      <3> QED BY <3>1, <3>2 DEF Accounted
    <2>4. ASSUME NEW n \in Mail, mail'[n].there
          PROVE  \/ <<"mail", n>> \in left'
                 \/ \E q \in Proc : n = ed'[q].mail \/ (n = ed'[q].fd /\ ed'[q].pc \notin Scanning)
      <3>1. mail[n].there
        BY <2>4, <1>6
      <3>2. CASE <<"mail", n>> \in left
        BY <2>4, <3>2 DEF ScanMove
      <3>3. CASE \E q \in Proc : n = ed[q].mail \/ (n = ed[q].fd /\ ed[q].pc \notin Scanning)
        BY <3>3, <2>2, <1>4, <1>5
      <3> QED BY <3>1, <3>2, <3>3 DEF Accounted
    <2> QED BY <2>3, <2>4 DEF Accounted
  <1> QED
    BY <1>3, <1>7, <1>8, <1>9, <1>10, <1>11, <1>12, <1>13, <1>14, <1>15, <1>16

\* Closing mail files, and removing one.
LEMMA UnlockFacts ==
    ASSUME NEW files \in [Mail -> MailFile], NEW p \in Proc, NEW M
    PROVE  /\ Unlock(files, p, M) \in [Mail -> MailFile]
           /\ \A n \in Mail : /\ Unlock(files, p, M)[n].there = files[n].there
                              /\ Unlock(files, p, M)[n].path = files[n].path
                              /\ Unlock(files, p, M)[n].lock =
                                     IF n \in M /\ files[n].lock = p THEN None ELSE files[n].lock
  <1> DEFINE u(n) == IF n \in M /\ files[n].lock = p THEN [files[n] EXCEPT !.lock = None] ELSE files[n]
  <1>1. ASSUME NEW n \in Mail
        PROVE  /\ u(n) \in MailFile /\ u(n).there = files[n].there /\ u(n).path = files[n].path
               /\ u(n).lock = IF n \in M /\ files[n].lock = p THEN None ELSE files[n].lock
    <2> DEFINE r == files[n]
    <2>1. r \in MailFile
      OBVIOUS
    <2> HIDE DEF r
    <2>2. /\ [r EXCEPT !.lock = None] \in MailFile /\ [r EXCEPT !.lock = None].there = r.there
          /\ [r EXCEPT !.lock = None].path = r.path /\ [r EXCEPT !.lock = None].lock = None
      BY <2>1 DEF MailFile
    <2> QED BY <2>1, <2>2 DEF r
  <1>2. Unlock(files, p, M) = [n \in Mail |-> u(n)]
    BY DEF Unlock
  <1> HIDE DEF u
  <1> QED BY <1>1, <1>2

\* Removing a mail file; who has it locked keeps it so.
LEMMA RmMailFacts ==
    ASSUME BoundsAssumption, NEW files \in [Mail -> MailFile], NEW m \in Mail
    PROVE  /\ RmMail(files, m) \in [Mail -> MailFile]
           /\ \A n \in Mail \ {m} : RmMail(files, m)[n] = files[n]
           /\ ~RmMail(files, m)[m].there /\ RmMail(files, m)[m].path = None
           /\ RmMail(files, m)[m].lock = files[m].lock
  <1> DEFINE z == NoMailFile
             l == files[m].lock
             r == [z EXCEPT !.lock = l]
  <1>1. z \in MailFile /\ ~z.there /\ z.path = None
    <2>1. 0 \in 0..MaxMail
      BY DEF BoundsAssumption
    <2> QED BY <2>1 DEF MailFile, NoMailFile
  <1>2. l \in Proc \cup {None}
    BY DEF MailFile
  <1>3. RmMail(files, m) = [files EXCEPT ![m] = r]
    BY DEF RmMail
  <1> HIDE DEF z, l
  <1>4. r \in MailFile /\ ~r.there /\ r.path = None /\ r.lock = l
    BY <1>1, <1>2 DEF MailFile
  <1> HIDE DEF r
  <1> QED BY <1>3, <1>4 DEF l

\* vi -r reads the recovery directory.
LEMMA BeginScanStep ==
    ASSUME BoundsAssumption, ProcAssumption, IInv, NEW p \in Proc, NEW reads \in BOOLEAN, BeginScan(p, reads)
    PROVE  IInv'
  <1> DEFINE z == Nobody
             t == {m \in Mail : mail[m].there}
             e == [z EXCEPT !.pc = "scan", !.reads = reads, !.todo = t]
  <1>1. /\ Types /\ ed[p] \in Editor /\ Shape(ed[p]) /\ ed[p].pc = "none" /\ Becomes(p, e)
        /\ UNCHANGED <<disk, ver, bak, mail, owed, left, unlocked>>
    BY Known DEF BeginScan, At, history
  <1>2. /\ z \in Editor /\ z.bak = None /\ z.mail = None /\ z.fd = None /\ z.copy = None /\ ~z.on
        /\ z.then = "none" /\ z.first /\ z.best = None /\ t \subseteq Mail /\ "scan" \in Point
    BY NobodyFacts, Points
  <1>3. e = [z EXCEPT !.pc = "scan", !.reads = reads, !.todo = t]
    OBVIOUS
  <1> HIDE DEF z, t, e
  <1>4. e \in Editor
    BY <1>2, <1>3 DEF Editor
  <1>5. /\ e.pc = "scan" /\ e.bak = None /\ e.mail = None /\ e.fd = None /\ e.copy = None /\ ~e.on
        /\ e.then = "none" /\ e.first /\ e.best = None
    BY <1>2, <1>3, <1>4 DEF Editor
  <1>6. Shape(e)
    BY <1>5 DEF Shape, Idle, Scanning, Setup
  <1>7. \A n \in Mail : mail[n].lock # p
    BY <1>1 DEF Types, IInv, Locks, Shape, Idle
  <1>8. ScanMove(p, e)
    BY <1>1, <1>4, <1>5, <1>6, <1>7 DEF ScanMove, Scanning, Types
  <1> QED BY <1>1, <1>8, Scan

\* The next mail file is opened; it was not looked at before, and is not the best.
LEMMA ScanOpenStep ==
    ASSUME BoundsAssumption, ProcAssumption, IInv, NEW p \in Proc, NEW m \in Mail, ScanOpen(p, m)
    PROVE  IInv'
  <1> DEFINE o == ed[p]
             t == o.todo \ {m}
             e == IF mail[m].there THEN [o EXCEPT !.pc = "scanlock", !.fd = m, !.todo = t]
                                   ELSE [o EXCEPT !.todo = t]
  <1>1. /\ Types /\ o \in Editor /\ Shape(o) /\ o.pc = "scan" /\ m \in o.todo /\ Becomes(p, e)
        /\ UNCHANGED <<disk, ver, bak, mail, owed, left, unlocked>>
    BY Known DEF ScanOpen, At, history
  <1>2. t \subseteq Mail /\ m \notin t /\ t \subseteq o.todo
    BY <1>1 DEF Editor
  <1>3. e = IF mail[m].there THEN [o EXCEPT !.pc = "scanlock", !.fd = m, !.todo = t]
                             ELSE [o EXCEPT !.todo = t]
    OBVIOUS
  <1> HIDE DEF t, e
  <1>4. e \in Editor
    BY <1>1, <1>2, <1>3, Points DEF Editor
  <1>5. /\ e.bak = o.bak /\ e.mail = o.mail /\ e.copy = o.copy /\ e.on = o.on /\ e.then = o.then
        /\ e.first = o.first /\ e.best = o.best /\ e.todo = t
        /\ (e.pc = "scanlock" /\ e.fd = m) \/ (e.pc = "scan" /\ e.fd = o.fd)
    BY <1>1, <1>2, <1>3, <1>4 DEF Editor
  <1>6. o.fd = None /\ o.bak = None /\ o.mail = None /\ o.copy = None /\ ~o.on /\ o.then = "none" /\ o.best # m
    BY <1>1 DEF Types, Shape, Scanning
  <1>7. Shape(e)
    <2>1. /\ e.fd # None => e.fd \notin e.todo
          /\ e.best # None => e.best \notin e.todo /\ e.best # e.fd
      BY <1>1, <1>2, <1>5, <1>6 DEF Shape
    <2>2. e.fd # None <=> e.pc = "scanlock"
      BY <1>1, <1>5, <1>6 DEF Types
    <2> QED BY <1>1, <1>5, <1>6, <2>1, <2>2 DEF Shape, Idle, Scanning, Setup
  <1>8. \A n \in Mail : mail[n].lock = p => n = o.best
    BY <1>1, <1>6 DEF Types, IInv, Locks
  <1>9. o.best # None => mail[o.best].lock = p
    BY DEF IInv, Locks
  <1>10. ScanMove(p, e)
    BY <1>1, <1>4, <1>5, <1>6, <1>7, <1>8, <1>9 DEF ScanMove, Scanning, Types
  <1> QED BY <1>1, <1>10, Scan

\* A mail file nobody has locked is locked, whoever is about to lock it.
LEMMA ScanLockStep ==
    ASSUME BoundsAssumption, ProcAssumption, IInv, NEW p \in Proc, ScanLock(p)
    PROVE  IInv'
  <1> DEFINE o == ed[p]
             m == o.fd
  <1>1. /\ Types /\ o \in Editor /\ Shape(o) /\ o.pc = "scanlock"
        /\ UNCHANGED <<disk, ver, bak, owed, left, unlocked>>
    BY Known DEF ScanLock, At, history
  <1>2. /\ m \in Mail /\ m # None /\ o.bak = None /\ o.mail = None /\ o.copy = None /\ ~o.on
        /\ o.then = "none" /\ o.best # m
    BY <1>1 DEF Types, Shape, Scanning, Editor
  <1>3. /\ \A n \in Mail : mail[n].lock = p => n = o.best
        /\ mail[m].lock # p /\ (o.best # None => mail[o.best].lock = p)
    BY <1>1, <1>2 DEF Types, IInv, Locks, At
  <1>4. CASE mail[m].lock = None /\ mail' = [mail EXCEPT ![m].lock = p]
             /\ Becomes(p, [o EXCEPT !.pc = "scanread"])
    <2> DEFINE e == [o EXCEPT !.pc = "scanread"]
    <2>1. e \in Editor
      BY <1>1, Points DEF Editor
    <2>2. /\ e.pc = "scanread" /\ e.bak = o.bak /\ e.mail = o.mail /\ e.copy = o.copy /\ e.on = o.on
          /\ e.then = o.then /\ e.first = o.first /\ e.best = o.best /\ e.todo = o.todo /\ e.fd = m
      BY <1>1 DEF Editor
    <2> HIDE DEF e
    <2>3. Shape(e)
      BY <1>1, <1>2, <2>2 DEF Shape, Idle, Scanning, Setup
    <2> HIDE DEF m
    <2>4. mail' \in [Mail -> MailFile]
      BY <1>1, <1>2, <1>4 DEF Types, MailFile
    <2>5. /\ \A n \in Mail : mail'[n].there = mail[n].there /\ mail'[n].path = mail[n].path
          /\ \A n \in Mail : n # m => mail'[n].lock = mail[n].lock
          /\ mail'[m].lock = p
      BY <1>1, <1>2, <1>4 DEF Types, MailFile
    <2>6. o.best # None => o.best \in Mail
      BY <1>1 DEF Editor
    <2>7. /\ \A n \in Mail : mail'[n].lock = p => n \in {m, o.best}
          /\ o.best # None => mail'[o.best].lock = p
      BY <1>2, <1>3, <2>5, <2>6
    <2>8. ScanMove(p, e)
      BY <1>1, <1>2, <1>4, <2>1, <2>2, <2>3, <2>4, <2>5, <2>7 DEF ScanMove, Scanning, Types, e
    <2> QED BY <1>1, <2>8, Scan
  <1>5. CASE mail' = mail /\ Becomes(p, [o EXCEPT !.pc = "scan", !.fd = None])
    <2> DEFINE e == [o EXCEPT !.pc = "scan", !.fd = None]
    <2>1. e \in Editor
      BY <1>1, Points DEF Editor
    <2>2. /\ e.pc = "scan" /\ e.bak = o.bak /\ e.mail = o.mail /\ e.copy = o.copy /\ e.on = o.on
          /\ e.then = o.then /\ e.first = o.first /\ e.best = o.best /\ e.todo = o.todo /\ e.fd = None
      BY <1>1 DEF Editor
    <2> HIDE DEF e
    <2>3. Shape(e)
      BY <1>1, <1>2, <2>2 DEF Shape, Idle, Scanning, Setup
    <2>4. ScanMove(p, e)
      BY <1>1, <1>2, <1>3, <1>5, <2>1, <2>2, <2>3 DEF ScanMove, Scanning, Types, e
    <2> QED BY <1>1, <2>4, Scan
  <1> QED BY <1>4, <1>5 DEF ScanLock

\* Closing mail files makes them nobody's.
LEMMA UnlockMove ==
    ASSUME Types, NEW p \in Proc, NEW files \in [Mail -> MailFile], NEW M,
           \A n \in Mail : files[n].lock = mail[n].lock,
           mail' = Unlock(files, p, M)
    PROVE  /\ mail' \in [Mail -> MailFile]
           /\ \A n \in Mail : mail'[n].there = files[n].there /\ mail'[n].path = files[n].path
           /\ \A n \in Mail : mail'[n].lock # mail[n].lock => mail[n].lock = p /\ mail'[n].lock = None
           /\ \A n \in Mail : mail'[n].lock = p => mail[n].lock = p /\ n \notin M
           /\ \A n \in Mail : n \notin M => mail'[n].lock = mail[n].lock
  BY UnlockFacts DEF Types

\* The mail file that was looked at is closed.
LEMMA DismissStep ==
    ASSUME BoundsAssumption, ProcAssumption, IInv, NEW p \in Proc, ed[p].pc = "scanread",
           NEW files \in [Mail -> MailFile], Dismiss(p, files, ed[p].fd),
           \A n \in Mail : files[n].lock = mail[n].lock,
           \A n \in Mail :
              \/ files[n].there = mail[n].there /\ files[n].path = mail[n].path
              \/ /\ n = ed[p].fd /\ mail[n].path # None /\ ~bak[mail[n].path].there
                 /\ ~files[n].there /\ files[n].path = None,
           UNCHANGED <<disk, ver, bak, owed, unlocked>>, left' \subseteq left,
           \A b \in Bak : <<"bak", b>> \in left => <<"bak", b>> \in left',
           \A n \in Mail : mail'[n].there /\ <<"mail", n>> \in left => <<"mail", n>> \in left'
    PROVE  IInv'
  <1> DEFINE o == ed[p]
             m == o.fd
             e == [o EXCEPT !.pc = "scan", !.fd = None]
  <1>1. /\ Types /\ o \in Editor /\ Shape(o) /\ o.pc = "scanread" /\ Becomes(p, e)
        /\ mail' = Unlock(files, p, {m})
    BY Known DEF Dismiss
  <1>2. /\ m \in Mail /\ m # None /\ o.bak = None /\ o.mail = None /\ o.copy = None /\ ~o.on
        /\ o.then = "none" /\ o.best # m
    BY <1>1 DEF Types, Shape, Scanning, Editor
  <1>3. /\ \A n \in Mail : mail[n].lock = p => n \in {m, o.best}
        /\ mail[m].lock = p /\ (o.best # None => mail[o.best].lock = p)
    BY <1>1, <1>2 DEF Types, IInv, Locks, At
  <1> HIDE DEF m
  <1>4. /\ mail' \in [Mail -> MailFile]
        /\ \A n \in Mail : mail'[n].there = files[n].there /\ mail'[n].path = files[n].path
        /\ \A n \in Mail : mail'[n].lock # mail[n].lock => mail[n].lock = p /\ mail'[n].lock = None
        /\ \A n \in Mail : mail'[n].lock = p => mail[n].lock = p /\ n # m
        /\ \A n \in Mail : n # m => mail'[n].lock = mail[n].lock
    <2> DEFINE M == {m}
    <2>1. mail' = Unlock(files, p, M) /\ \A n \in Mail : n \in M <=> n = m
      BY <1>1
    <2> HIDE DEF M
    <2>2. Types
      BY <1>1
    <2>3. /\ mail' \in [Mail -> MailFile]
          /\ \A n \in Mail : mail'[n].there = files[n].there /\ mail'[n].path = files[n].path
          /\ \A n \in Mail : mail'[n].lock # mail[n].lock => mail[n].lock = p /\ mail'[n].lock = None
          /\ \A n \in Mail : mail'[n].lock = p => mail[n].lock = p /\ n \notin M
          /\ \A n \in Mail : n \notin M => mail'[n].lock = mail[n].lock
      BY <2>1, <2>2, UnlockMove
    <2> QED BY <2>1, <2>3
  <1>5. e \in Editor
    BY <1>1, Points DEF Editor
  <1>6. /\ e.pc = "scan" /\ e.bak = o.bak /\ e.mail = o.mail /\ e.copy = o.copy /\ e.on = o.on
        /\ e.then = o.then /\ e.first = o.first /\ e.best = o.best /\ e.todo = o.todo /\ e.fd = None
    BY <1>1 DEF Editor
  <1> HIDE DEF e
  <1>7. Shape(e)
    BY <1>1, <1>2, <1>6 DEF Shape, Idle, Scanning, Setup
  <1>8. o.best # None => mail'[o.best].lock = p
    BY <1>1, <1>2, <1>3, <1>4 DEF Editor
  <1>9. \A n \in Mail :
          \/ mail'[n].there = mail[n].there /\ mail'[n].path = mail[n].path
          \/ /\ mail[n].lock = p /\ mail[n].path # None /\ ~bak[mail[n].path].there
             /\ ~mail'[n].there /\ mail'[n].path = None
    BY <1>3, <1>4 DEF m
  <1>10. ScanMove(p, e)
    BY <1>1, <1>2, <1>3, <1>4, <1>5, <1>6, <1>7, <1>8, <1>9 DEF ScanMove, Scanning
  <1> QED BY <1>10, Scan

\* A mail file without a backing file: nobody who relies on it is left.
LEMMA ScanRejectStep ==
    ASSUME BoundsAssumption, ProcAssumption, IInv, NEW p \in Proc, ScanReject(p)
    PROVE  IInv'
  <1> DEFINE m == ed[p].fd
             b == mail[m].path
             r == RmMail(mail, m)
  <1>1. /\ Types /\ ed[p] \in Editor /\ Shape(ed[p]) /\ ed[p].pc = "scanread" /\ TypeOK
        /\ UNCHANGED <<disk, ver, bak, owed, unlocked>>
    BY Known DEF ScanReject, At
  <1>2. m \in Mail
    BY <1>1 DEF Types, Shape, Scanning, Editor
  <1>3. left' = {f \in left : f[1] = "mail" => mail'[f[2]].there}
    BY DEF ScanReject
  <1>4. /\ left' \subseteq left
        /\ \A c \in Bak : <<"bak", c>> \in left => <<"bak", c>> \in left'
        /\ \A n \in Mail : mail'[n].there /\ <<"mail", n>> \in left => <<"mail", n>> \in left'
    BY <1>3
  <1>5. CASE Dismiss(p, mail, m)
    BY <1>1, <1>4, <1>5, DismissStep DEF Types
  <1>6. CASE b # None /\ ~bak[b].there /\ Dismiss(p, r, m)
    <2>1. /\ r \in [Mail -> MailFile] /\ \A n \in Mail \ {m} : r[n] = mail[n]
          /\ ~r[m].there /\ r[m].path = None /\ r[m].lock = mail[m].lock
      BY <1>1, <1>2, RmMailFacts DEF Types
    <2> HIDE DEF r
    <2>2. \A n \in Mail : r[n].lock = mail[n].lock
      BY <2>1
    <2>3. \A n \in Mail :
              \/ r[n].there = mail[n].there /\ r[n].path = mail[n].path
              \/ /\ n = ed[p].fd /\ mail[n].path # None /\ ~bak[mail[n].path].there
                 /\ ~r[n].there /\ r[n].path = None
      BY <1>6, <2>1
    <2> QED BY <1>1, <1>4, <1>6, <2>1, <2>2, <2>3, DismissStep
  <1> QED BY <1>5, <1>6 DEF ScanReject

\* A mail file with a backing file: the best so far stays locked.
LEMMA ScanAcceptStep ==
    ASSUME BoundsAssumption, ProcAssumption, IInv, NEW p \in Proc, ScanAccept(p)
    PROVE  IInv'
  <1> DEFINE o == ed[p]
             m == o.fd
             g == o.best
             e == [o EXCEPT !.pc = "scan", !.fd = None, !.best = m]
  <1>1. /\ Types /\ o \in Editor /\ Shape(o) /\ o.pc = "scanread" /\ mail[m].path # None
        /\ UNCHANGED <<disk, ver, bak, owed, left, unlocked>>
    BY Known DEF ScanAccept, At, history
  <1>2. CASE Dismiss(p, mail, m)
    BY <1>1, <1>2, DismissStep DEF Types
  <1>3. CASE mail' = Unlock(mail, p, {g}) /\ Becomes(p, e)
    <2>1. /\ m \in Mail /\ m # None /\ o.bak = None /\ o.mail = None /\ o.copy = None /\ ~o.on
          /\ o.then = "none" /\ g # m /\ m \notin o.todo
      BY <1>1 DEF Types, Shape, Scanning, Editor
    <2>2. (\A n \in Mail : mail[n].lock = p => n \in {m, g}) /\ mail[m].lock = p
      BY <1>1, <2>1 DEF Types, IInv, Locks, At
    <2>3. /\ mail' \in [Mail -> MailFile]
          /\ \A n \in Mail : mail'[n].there = mail[n].there /\ mail'[n].path = mail[n].path
          /\ \A n \in Mail : mail'[n].lock # mail[n].lock => mail[n].lock = p /\ mail'[n].lock = None
          /\ \A n \in Mail : mail'[n].lock = p => mail[n].lock = p /\ n # g
          /\ \A n \in Mail : n # g => mail'[n].lock = mail[n].lock
      <3> DEFINE M == {g}
      <3>1. mail' = Unlock(mail, p, M) /\ \A n \in Mail : n \in M <=> n = g
        BY <1>3
      <3> HIDE DEF M
      <3>2. Types /\ mail \in [Mail -> MailFile]
        BY <1>1 DEF Types
      <3>3. /\ mail' \in [Mail -> MailFile]
            /\ \A n \in Mail : mail'[n].there = mail[n].there /\ mail'[n].path = mail[n].path
            /\ \A n \in Mail : mail'[n].lock # mail[n].lock => mail[n].lock = p /\ mail'[n].lock = None
            /\ \A n \in Mail : mail'[n].lock = p => mail[n].lock = p /\ n \notin M
            /\ \A n \in Mail : n \notin M => mail'[n].lock = mail[n].lock
        BY <3>1, <3>2, UnlockMove
      <3> QED BY <3>1, <3>3
    <2>4. mail'[m].lock = p
      BY <2>1, <2>2, <2>3
    <2>5. e \in Editor
      BY <1>1, <2>1, Points DEF Editor
    <2>6. /\ e.pc = "scan" /\ e.bak = o.bak /\ e.mail = o.mail /\ e.copy = o.copy /\ e.on = o.on
          /\ e.then = o.then /\ e.first = o.first /\ e.best = m /\ e.todo = o.todo /\ e.fd = None
      BY <1>1 DEF Editor
    <2> HIDE DEF e
    <2>7. Shape(e)
      BY <1>1, <2>1, <2>6 DEF Shape, Idle, Scanning, Setup
    <2>8. ScanMove(p, e)
      BY <1>1, <1>3, <2>1, <2>2, <2>3, <2>4, <2>5, <2>6, <2>7 DEF ScanMove, Scanning
    <2> QED BY <1>1, <2>8, Scan
  <1> QED BY <1>2, <1>3 DEF ScanAccept

\* Nothing was found.
LEMMA ScanEndsStep ==
    ASSUME BoundsAssumption, ProcAssumption, IInv, NEW p \in Proc, ScanEnds(p)
    PROVE  IInv'
  <1>1. /\ Types /\ ed[p] \in Editor /\ Shape(ed[p]) /\ ed[p].pc = "scan" /\ ed[p].best = None
        /\ Becomes(p, Nobody) /\ UNCHANGED <<disk, ver, bak, mail, owed, left, unlocked>>
    BY Known DEF ScanEnds, At, history
  <1> DEFINE z == Nobody
  <1>2. /\ z \in Editor /\ z.pc = "none" /\ z.bak = None /\ z.mail = None /\ z.fd = None /\ z.copy = None /\ ~z.on
        /\ z.then = "none" /\ z.first /\ z.best = None /\ Becomes(p, z)
    BY <1>1, NobodyFacts
  <1> HIDE DEF z
  <1>3. Shape(z)
    BY <1>2 DEF Shape, Idle, Scanning, Setup
  <1>4. \A n \in Mail : mail[n].lock # p
    BY <1>1 DEF Types, IInv, Locks, Shape, Scanning
  <1>5. ScanMove(p, z)
    BY <1>1, <1>2, <1>3, <1>4 DEF ScanMove, Scanning, Types
  <1> QED BY <1>1, <1>5, Scan

\* rcv_read() has found a file: the session that takes it over starts.
LEMMA RecoverStep ==
    ASSUME BoundsAssumption, ProcAssumption, IInv, NEW p \in Proc, Recover(p)
    PROVE  IInv'
  <1> DEFINE o == ed[p]
             m == o.best
             b == mail[m].path
             z == Nobody
             t == IF bak[b].data = Empty THEN Torn ELSE bak[b].data
             e == [z EXCEPT !.pc = "wait", !.bak = b, !.mail = m, !.text = t, !.on = TRUE, !.mod = TRUE]
  <1>1. /\ Types /\ TypeOK /\ o \in Editor /\ Shape(o) /\ o.pc = "scan" /\ m # None
        /\ disk' = disk /\ ver' = ver /\ bak' = bak /\ unlocked' = unlocked
    BY Known DEF Recover, At
  <1>2. /\ m \in Mail /\ mail[m].lock = p /\ b \in Bak \cup {None}
    BY <1>1 DEF Editor, IInv, Locks, Types, MailFile
  <1>3. \A n \in Mail : mail[n].lock = p => n = m
    BY <1>1 DEF Types, IInv, Locks, Shape, Scanning
  <1>4. /\ z \in Editor /\ z.pc = "none" /\ z.bak = None /\ z.mail = None /\ z.fd = None /\ z.copy = None /\ ~z.on
        /\ z.then = "none" /\ z.first /\ ~z.dirty /\ z.best = None /\ z.todo = {}
    BY NobodyFacts
  <1>5. ASSUME mail' = Unlock(mail, p, {m}), Becomes(p, z), owed' = owed, left' = left
        PROVE  IInv'
    <2> DEFINE M == {m}
    <2>1. mail' = Unlock(mail, p, M) /\ \A n \in Mail : n \in M <=> n = m
      BY <1>5
    <2> HIDE DEF M, m, b, z
    <2>2. Types /\ mail \in [Mail -> MailFile]
      BY <1>1 DEF Types
    <2>3. /\ mail' \in [Mail -> MailFile]
          /\ \A n \in Mail : mail'[n].there = mail[n].there /\ mail'[n].path = mail[n].path
          /\ \A n \in Mail : mail'[n].lock # mail[n].lock => mail[n].lock = p /\ mail'[n].lock = None
          /\ \A n \in Mail : mail'[n].lock = p => mail[n].lock = p /\ n \notin M
      BY <2>1, <2>2, UnlockMove
    <2>4. \A n \in Mail : mail'[n].lock # p
      BY <1>3, <2>1, <2>3
    <2>5. Shape(z)
      BY <1>4 DEF Shape, Idle, Scanning, Setup
    <2>6. ScanMove(p, z)
      BY <1>1, <1>4, <1>5, <2>3, <2>4, <2>5 DEF ScanMove, Scanning
    <2> QED BY <1>1, <1>5, <2>6, Scan
  <1>6. ASSUME b # None, bak[b].there, Becomes(p, e), mail' = mail,
               owed' = {k \in owed : k.mail # m}, left' = left \ {<<"mail", m>>, <<"bak", b>>}
        PROVE  IInv'
    <2>1. /\ b \in Bak /\ mail[m].path = b /\ mail[m].there
      BY <1>2, <1>6 DEF IInv, OnePath
    <2> DEFINE d == bak[b].data
    <2>2. t \in Version \cup {Torn} /\ "wait" \in Point
      <3>1. d \in Version \cup {Empty, Torn}
        BY <1>1, <2>1 DEF Types, BakFile
      <3> QED BY <3>1, Points
    <2>3. e = [z EXCEPT !.pc = "wait", !.bak = b, !.mail = m, !.text = t, !.on = TRUE, !.mod = TRUE]
      OBVIOUS
    <2>4. Becomes(p, e) /\ owed' = {k \in owed : k.mail # m} /\ left' = left \ {<<"mail", m>>, <<"bak", b>>}
          /\ mail' = mail /\ bak[b].there
      BY <1>6
    <2> HIDE DEF e, z, t, b, m, d
    <2>5. e \in Editor
      BY <1>2, <1>4, <2>1, <2>2, <2>3 DEF Editor
    <2>6. /\ e.pc = "wait" /\ e.bak = b /\ e.mail = m /\ e.on /\ e.then = "none" /\ e.first /\ ~e.dirty
          /\ e.fd = None /\ e.copy = None /\ e.best = None
      BY <1>4, <2>3, <2>5 DEF Editor
    <2>7. ed' \in [Proc -> Editor] /\ ed'[p] = e /\ Others(p)
      BY <1>1, <2>4, <2>5, BecomesFacts
    <2>8. TypeOK' /\ Types'
      <3>1. left' \subseteq left /\ owed' \subseteq owed
        BY <2>4
      <3> QED BY <1>1, <2>4, <2>7, <3>1 DEF TypeOK, Types
    <2>9. o.mail = None /\ o.copy = None /\ o.bak = None /\ o.fd = None
      BY <1>1 DEF Shape, Scanning
    <2>10. Named(e) /\ ~Building(e) /\ ~Failed(e) /\ ~Preserving(e) /\ Shape(e)
      BY <1>1, <1>2, <2>1, <2>6 DEF Named, Building, Failed, Preserving, Shape, Idle, Scanning, Setup, Types
    <2>11. \A q \in Proc \ {p} : ed'[q] = ed[q] /\ Shape(ed[q]) /\ ed[q] \in Editor
                                /\ ~Preserving(ed[q]) /\ ~Failed(ed[q])
      BY <1>1, <2>7, Solitude DEF Others, IInv, Shapes, Types
    <2> USE DEF IInv
    <2>12. Shapes' /\ Lonely'
      BY <2>7, <2>10, <2>11 DEF Shapes, Lonely
    <2>13. Locks'
      BY <1>1, <1>3, <2>4, <2>6, <2>7, <2>11 DEF Locks, At
    <2>14. ASSUME NEW q \in Proc \ {p}, Building(ed[q])
           PROVE  ed[q].fd # None /\ ed[q].fd \in Mail /\ mail[ed[q].fd].path = None /\ ed[q].fd # m
      <3>1. ed[q].fd # None /\ ed[q].fd \in Mail
        BY <2>11, <2>14 DEF Shape, Building, Editor
      <3>2. mail[ed[q].fd].path = None
        BY <2>14 DEF Builds
      <3>3. b # None
        BY <1>1, <2>1 DEF Types
      <3> QED BY <2>1, <3>1, <3>2, <3>3
    <2>15. Builds'
      <3> SUFFICES ASSUME NEW q \in Proc \ {p}, Building(ed[q])
                   PROVE  \A r \in Proc \ {q} : ed'[r].mail # ed[q].fd /\ ed'[r].best # ed[q].fd
                                              /\ (Building(ed'[r]) => ed'[r].fd # ed[q].fd)
        BY <1>1, <2>4, <2>7, <2>10, <2>11 DEF Builds, At
      <3> QED BY <2>14, <2>6, <2>7, <2>10, <2>11 DEF Builds
    <2>16. OnePath'
      BY <2>4 DEF OnePath
    <2>17. Names'
      BY <1>1, <2>1, <2>4, <2>6, <2>7, <2>10, <2>11 DEF Names
    <2>18. ASSUME NEW q \in Proc \ {p}, ed[q].mail = m
           PROVE  m \in unlocked
      <3>1. ed[q].bak # None
        BY <1>1, <1>2, <2>11, <2>18 DEF Types, Shape
      <3>2. CASE Named(ed[q])
        BY <3>1, <3>2, <1>2, <2>11, <2>18 DEF Holdings, Holding
      <3>3. CASE ~Named(ed[q])
        <4>1. ed[q].pc = "header" /\ ed[q].copy = None
          BY <1>1, <1>2, <2>18, <3>3 DEF Types, Named
        <4>2. Building(ed[q]) /\ ed[q].fd = m
          BY <4>1, <2>11, <2>18 DEF Building, Shape
        <4> QED BY <4>2, <2>14
      <3> QED BY <3>2, <3>3
    <2>19. ASSUME NEW q \in Proc \ {p}, ed[q].bak = b
           PROVE  ed[q].mail = m
      <3>1. b # None
        BY <1>1, <2>1 DEF Types
      <3>2. Named(ed[q])
        BY <1>2, <2>1, <2>19, <3>1 DEF Names
      <3>3. mail[ed[q].mail].path = b
        BY <3>2, <2>4, <2>11, <2>19 DEF Names
      <3>4. ed[q].mail \in Mail
        BY <3>2, <2>11 DEF Named, Editor
      <3> QED BY <1>2, <2>1, <3>1, <3>3, <3>4 DEF OnePath
    <2>20. Shares'
      <3>1. m # None
        BY <1>1
      <3> QED BY <1>1, <2>6, <2>7, <2>11, <2>18, <2>19, <3>1 DEF Shares
    <2>21. Holdings'
      <3>1. Holding(p)'
        BY <1>1, <1>2, <2>1, <2>4, <2>6, <2>7, <2>10 DEF Holding, At
      <3>2. ASSUME NEW q \in Proc \ {p} PROVE Holding(q)'
        BY <1>1, <2>4, <2>11 DEF Holdings, Holding, At
      <3> QED BY <3>1, <3>2 DEF Holdings
    <2>22. Copies' /\ Removed'
      BY <1>1, <2>6, <2>7, <2>11 DEF Copies, Removed, At
    <2>23. Owed'
      <3> SUFFICES ASSUME NEW k \in owed, k.mail # m
                   PROVE  /\ mail[k.mail].there /\ mail[k.mail].path = k.bak /\ k.mail \notin unlocked
                          /\ bak[k.bak].there /\ bak[k.bak].data = k.data /\ ~bak[k.bak].x
                          /\ \A q \in Proc : /\ k.bak \notin {ed'[q].bak, ed'[q].copy} /\ k.mail # ed'[q].mail
                                             /\ ed'[q].pc \notin Scanning => k.mail # ed'[q].fd
        BY <1>1, <2>4 DEF Owed
      <3>1. /\ mail[k.mail].there /\ mail[k.mail].path = k.bak /\ k.mail \notin unlocked
            /\ bak[k.bak].there /\ bak[k.bak].data = k.data /\ ~bak[k.bak].x
            /\ \A q \in Proc : /\ k.bak \notin {ed[q].bak, ed[q].copy} /\ k.mail # ed[q].mail
                               /\ ed[q].pc \notin Scanning => k.mail # ed[q].fd
        BY DEF Owed
      <3>2. k.mail \in Mail /\ k.bak \in Bak /\ k.mail # None /\ k.bak # None
        BY <1>1 DEF Types
      <3>3. k.bak # b
        BY <1>2, <2>1, <3>1, <3>2 DEF OnePath
      <3> QED BY <3>1, <3>2, <3>3, <2>6, <2>7, <2>11
    <2>24. Accounted'
      <3>1. \A c \in Bak \ {b} : c # None /\ (<<"bak", c>> \in left => <<"bak", c>> \in left')
        BY <1>1, <2>4 DEF Types
      <3>2. \A n \in Mail \ {m} : n # None /\ (<<"mail", n>> \in left => <<"mail", n>> \in left')
        BY <1>1, <2>4 DEF Types
      <3> QED BY <1>1, <2>4, <2>6, <2>7, <2>9, <2>11, <3>1, <3>2 DEF Accounted
    <2> QED
      BY <2>8, <2>12, <2>13, <2>15, <2>16, <2>17, <2>20, <2>21, <2>22, <2>23, <2>24
  <1>7. CASE b # None /\ bak[b].there
    BY <1>6, <1>7 DEF Recover
  <1>8. CASE ~(b # None /\ bak[b].there)
    BY <1>5, <1>8 DEF Recover
  <1> QED BY <1>7, <1>8

-----------------------------------------------------------------------------
(* The end of a session or of a listing, clean or not. *)

Leaves(p) ==
    /\ Becomes(p, Nobody) /\ ed[p].pc \notin Idle
    /\ mail' \in [Mail -> MailFile]
    /\ \A n \in Mail : mail'[n].lock = IF mail[n].lock = p THEN None ELSE mail[n].lock
    /\ \A n \in Mail :
          \/ mail'[n].there = mail[n].there /\ mail'[n].path = mail[n].path
          \/ ed[p].pc = "unlink" /\ n = ed[p].mail /\ ~mail'[n].there /\ mail'[n].path = None
    /\ \A k \in owed' \ owed :
          /\ k.mail = ed[p].mail /\ k.bak = ed[p].bak /\ k.data = bak[k.bak].data /\ k.data \in Version
          /\ ed[p].on /\ ed[p].mail \notin {None} \cup unlocked /\ ed[p].pc # "unlink"
          /\ ~ed[p].first \/ ~bak[k.bak].x
    /\ owed' \subseteq [mail : Mail, bak : Bak, data : Version]
    /\ left' \subseteq Files
    /\ \A b \in Bak : bak[b].there =>
          (<<"bak", b>> \in left \/ b = ed[p].bak \/ b = ed[p].copy => <<"bak", b>> \in left')
    /\ \A n \in Mail : mail'[n].there =>
          (\/ <<"mail", n>> \in left
           \/ n = ed[p].mail
           \/ n = ed[p].fd /\ ed[p].pc \notin Scanning
           => <<"mail", n>> \in left')

\* It preserves the invariant: what the user is promised is there, and no other
\* session has a claim to it.
LEMMA Leave ==
    ASSUME BoundsAssumption, ProcAssumption, IInv, NEW p \in Proc, Leaves(p),
           UNCHANGED <<disk, ver, bak, unlocked>>
    PROVE  IInv'
  <1> DEFINE o == ed[p]
             z == Nobody
  <1>1. /\ Types /\ TypeOK /\ o \in Editor /\ Shape(o) /\ Holding(p) /\ o.pc \notin Idle /\ Becomes(p, z)
        /\ disk' = disk /\ ver' = ver /\ bak' = bak /\ unlocked' = unlocked /\ mail' \in [Mail -> MailFile]
    BY Known DEF Leaves
  <1>2. /\ z \in Editor /\ z.pc = "none" /\ z.bak = None /\ z.mail = None /\ z.fd = None /\ z.copy = None /\ ~z.on
        /\ z.then = "none" /\ z.first /\ ~z.dirty /\ z.best = None /\ z.todo = {}
    BY NobodyFacts
  <1> HIDE DEF z
  <1>3. ed' \in [Proc -> Editor] /\ ed'[p] = z /\ Others(p)
    BY <1>1, <1>2, BecomesFacts
  <1>4. TypeOK' /\ Types'
    BY <1>1, <1>3 DEF TypeOK, Types, Leaves
  <1>5. ~Named(z) /\ ~Building(z) /\ ~Failed(z) /\ ~Preserving(z) /\ Shape(z)
    BY <1>2 DEF Named, Building, Failed, Preserving, Shape, Idle, Scanning, Setup
  <1>6. \A q \in Proc \ {p} : ed'[q] = ed[q] /\ Shape(ed[q]) /\ ed[q] \in Editor
                              /\ ~Preserving(ed[q]) /\ ~Failed(ed[q])
    BY <1>1, <1>3, Solitude DEF Others, IInv, Shapes, Types, Idle
  <1>7. \A n \in Mail, q \in Proc \ {p} : mail'[n].lock = q <=> mail[n].lock = q
    <2>1. \A q \in Proc \ {p} : q \notin {None, p}
      BY <1>1 DEF Types
    <2> QED BY <2>1 DEF Leaves
  <1>8. /\ \A n \in Mail : mail'[n].lock # p
        /\ \A n \in Mail : mail'[n].path # None => mail'[n].path = mail[n].path /\ mail'[n].there = mail[n].there
        /\ \A n \in Mail : mail'[n].there => mail[n].there
    BY <1>1 DEF Leaves, Types
  <1> USE DEF IInv
  <1>9. Shapes' /\ Lonely'
    BY <1>3, <1>5, <1>6 DEF Shapes, Lonely
  <1>10. Locks'
    <2> SUFFICES ASSUME NEW q \in Proc
                 PROVE  /\ \A n \in Mail : mail'[n].lock = q => n \in {ed'[q].mail, ed'[q].fd, ed'[q].best}
                        /\ ed'[q].pc = "scanread" => mail'[ed'[q].fd].lock = q
                        /\ ed'[q].pc = "scanlock" => mail'[ed'[q].fd].lock # q
                        /\ ed'[q].best # None => mail'[ed'[q].best].lock = q
      BY DEF Locks, At
    <2>1. CASE q = p
      BY <2>1, <1>2, <1>3, <1>8
    <2>2. CASE q # p
      <3>1. /\ \A n \in Mail : mail[n].lock = q => n \in {ed[q].mail, ed[q].fd, ed[q].best}
            /\ ed[q].pc = "scanread" => mail[ed[q].fd].lock = q /\ ed[q].fd \in Mail
            /\ ed[q].pc = "scanlock" => mail[ed[q].fd].lock # q /\ ed[q].fd \in Mail
            /\ ed[q].best # None => mail[ed[q].best].lock = q /\ ed[q].best \in Mail
        BY <2>2, <1>6 DEF Locks, At, Editor, Shape
      <3> QED BY <2>2, <3>1, <1>6, <1>7
    <2> QED BY <2>1, <2>2
  <1>11. ASSUME NEW q \in Proc \ {p}, Building(ed[q])
         PROVE  /\ ed[q].fd # None /\ ed[q].fd \in Mail /\ ed[q].fd # o.mail
                /\ mail'[ed[q].fd].there /\ mail'[ed[q].fd].path = None /\ mail[ed[q].fd].path = None
    <2>1. ed[q].fd # None /\ ed[q].fd \in Mail
      BY <1>6, <1>11 DEF Shape, Building, Editor
    <2>2. mail[ed[q].fd].path = None /\ mail[ed[q].fd].there /\ ed[q].fd # o.mail
      BY <1>11 DEF Builds
    <2> QED BY <2>1, <2>2 DEF Leaves
  <1>12. Builds'
    <2> SUFFICES ASSUME NEW q \in Proc \ {p}, Building(ed[q])
                 PROVE  /\ mail'[ed[q].fd].there /\ mail'[ed[q].fd].path = None
                        /\ ed[q].pc = "header" /\ ed[q].fd \notin unlocked => mail'[ed[q].fd].lock = q
                        /\ ed[q].pc = "lock" => mail'[ed[q].fd].lock # q
                        /\ \A r \in Proc \ {q} : ed'[r].mail # ed[q].fd /\ ed'[r].best # ed[q].fd
                                              /\ (Building(ed'[r]) => ed'[r].fd # ed[q].fd)
      BY <1>1, <1>3, <1>5, <1>6 DEF Builds, At, Preserving
    <2> QED BY <1>2, <1>3, <1>5, <1>6, <1>7, <1>11 DEF Builds, At
  <1>13. OnePath'
    BY <1>8 DEF OnePath
  <1>14. Names'
    <2> SUFFICES ASSUME NEW q \in Proc \ {p}
                 PROVE  /\ ed[q].bak # None /\ ~Named(ed[q]) => \A n \in Mail : mail'[n].path # ed[q].bak
                        /\ Named(ed[q]) =>
                              \/ mail'[ed[q].mail].path = ed[q].bak
                              \/ mail'[ed[q].mail].path = None /\ ~bak[ed[q].bak].there
      BY <1>1, <1>2, <1>3, <1>5, <1>6 DEF Names, Preserving
    <2>1. ed[q].bak # None /\ ~Named(ed[q]) => \A n \in Mail : mail'[n].path # ed[q].bak
      BY <1>8 DEF Names
    <2>2. ASSUME Named(ed[q])
          PROVE  \/ mail'[ed[q].mail].path = ed[q].bak
                 \/ mail'[ed[q].mail].path = None /\ ~bak[ed[q].bak].there
      <3>1. ed[q].mail \in Mail
        BY <2>2, <1>6 DEF Named, Editor
      <3>2. \/ mail[ed[q].mail].path = ed[q].bak
            \/ mail[ed[q].mail].path = None /\ ~bak[ed[q].bak].there
        BY <2>2, <1>6 DEF Names
      <3>3. CASE o.pc = "unlink" /\ ed[q].mail = o.mail
        <4>2. ed[q].pc # "never" /\ Named(o)
          BY <1>1, <2>2, <3>1, <3>3, <1>6 DEF Types, Shape, Idle, Named
        <4>3. \/ mail[o.mail].path = o.bak
              \/ mail[o.mail].path = None
          BY <4>2 DEF Names
        <4>4. ~bak[o.bak].there
          BY <3>3 DEF Removed, At
        <4>5. o.bak # None
          BY <1>1, <3>3 DEF Shape, Idle, Scanning
        <4> QED BY <3>1, <3>2, <3>3, <4>3, <4>4, <4>5, <1>8 DEF Leaves
      <3> QED BY <3>1, <3>2, <3>3 DEF Leaves
    <2> QED BY <2>1, <2>2
  <1>15. Shares'
    BY <1>1, <1>2, <1>3, <1>6 DEF Shares
  <1>16. Holdings'
    <2> SUFFICES ASSUME NEW q \in Proc \ {p} PROVE Holding(q)'
      BY <1>2, <1>3 DEF Holdings, Holding
    <2>1. Holding(q) /\ (Named(ed[q]) => ed[q].mail \in Mail /\ ed[q].mail # None)
      BY <1>6 DEF Holdings, Named, Editor
    <2>2. CASE ed[q].mail \in unlocked
      BY <2>2, <1>1, <1>6 DEF Holding
    <2>3. CASE ed[q].mail \notin unlocked
      <3>1. Named(ed[q]) => ed[q].mail # o.mail
        BY <2>1, <2>3 DEF Shares
      <3>2. Named(ed[q]) => /\ mail'[ed[q].mail].there = mail[ed[q].mail].there
                            /\ mail'[ed[q].mail].path = mail[ed[q].mail].path
                            /\ mail'[ed[q].mail].lock = q <=> mail[ed[q].mail].lock = q
        BY <2>1, <3>1, <1>7 DEF Leaves
      <3> QED BY <2>1, <3>2, <1>1, <1>6 DEF Holding, At
    <2> QED BY <2>2, <2>3
  <1>17. Copies' /\ Removed'
    BY <1>1, <1>2, <1>3, <1>6 DEF Copies, Removed, At
  <1>18. Owed'
    <2> SUFFICES ASSUME NEW k \in owed'
                 PROVE  /\ mail'[k.mail].there /\ mail'[k.mail].path = k.bak /\ k.mail \notin unlocked
                        /\ bak[k.bak].there /\ bak[k.bak].data = k.data /\ ~bak[k.bak].x
                        /\ \A q \in Proc \ {p} : /\ k.bak \notin {ed[q].bak, ed[q].copy} /\ k.mail # ed[q].mail
                                                 /\ ed[q].pc \notin Scanning => k.mail # ed[q].fd
      <3>1. \A k \in owed' : k.mail # None /\ k.bak # None
        BY <1>1, <1>4 DEF Types
      <3> QED BY <3>1, <1>1, <1>2, <1>3, <1>6 DEF Owed
    <2>1. k.mail \in Mail /\ k.bak \in Bak /\ k.mail # None /\ k.bak # None
      BY <1>1, <1>4 DEF Types
    <2>2. CASE k \in owed
      <3>1. /\ mail[k.mail].there /\ mail[k.mail].path = k.bak /\ k.mail \notin unlocked
            /\ bak[k.bak].there /\ bak[k.bak].data = k.data /\ ~bak[k.bak].x
            /\ \A q \in Proc : /\ k.bak \notin {ed[q].bak, ed[q].copy} /\ k.mail # ed[q].mail
                               /\ ed[q].pc \notin Scanning => k.mail # ed[q].fd
        BY <2>2 DEF Owed
      <3> QED BY <2>1, <3>1 DEF Leaves
    <2>3. CASE k \notin owed
      <3>1. /\ k.mail = o.mail /\ k.bak = o.bak /\ k.data = bak[k.bak].data
            /\ o.on /\ o.mail \notin unlocked /\ o.pc # "unlink" /\ (~o.first \/ ~bak[k.bak].x)
        BY <2>3 DEF Leaves
      <3>2. Named(o) /\ ~Failed(o)
        BY <1>1, <2>1, <3>1 DEF Named, Failed, Shape, Setup
      <3>3. /\ mail[k.mail].there /\ mail[k.mail].path = k.bak /\ bak[k.bak].there /\ ~bak[k.bak].x
        BY <1>1, <2>1, <3>1, <3>2 DEF Holding, At
      <3>4. mail'[k.mail].there /\ mail'[k.mail].path = k.bak
        BY <2>1, <3>1, <3>3 DEF Leaves
      <3>5. ASSUME NEW q \in Proc \ {p}
            PROVE  /\ k.bak \notin {ed[q].bak, ed[q].copy} /\ k.mail # ed[q].mail
                   /\ ed[q].pc \notin Scanning => k.mail # ed[q].fd
        <4>1. k.bak # ed[q].bak /\ k.mail # ed[q].mail
          BY <2>1, <3>1 DEF Shares
        <4>2. ed[q].copy = None
          BY <1>6 DEF Preserving
        <4>3. ed[q].pc \notin Scanning => Building(ed[q]) \/ ed[q].fd = None
          BY <1>6 DEF Shape, Scanning, Building
        <4> QED BY <2>1, <3>3, <4>1, <4>2, <4>3, <1>11
      <3> QED BY <3>1, <3>3, <3>4, <3>5
    <2> QED BY <2>2, <2>3
  <1>19. Accounted'
    <2>1. \A b \in Bak : bak'[b].there =>
              <<"bak", b>> \in left' \/ \E q \in Proc : b = ed'[q].bak \/ b = ed'[q].copy
      <3> SUFFICES ASSUME NEW b \in Bak, bak[b].there
                   PROVE  <<"bak", b>> \in left' \/ \E q \in Proc : b = ed'[q].bak \/ b = ed'[q].copy
        BY <1>1
      <3>1. <<"bak", b>> \in left \/ \E q \in Proc : b = ed[q].bak \/ b = ed[q].copy
        BY DEF Accounted
      <3> QED BY <3>1, <1>6 DEF Leaves
    <2>2. ASSUME NEW n \in Mail, mail'[n].there
          PROVE  \/ <<"mail", n>> \in left'
                 \/ \E q \in Proc : n = ed'[q].mail \/ (n = ed'[q].fd /\ ed'[q].pc \notin Scanning)
      <3>1. \/ <<"mail", n>> \in left
            \/ \E q \in Proc : n = ed[q].mail \/ (n = ed[q].fd /\ ed[q].pc \notin Scanning)
        BY <2>2, <1>8 DEF Accounted
      <3> QED BY <2>2, <3>1, <1>6 DEF Leaves
    <2> QED BY <2>1, <2>2 DEF Accounted
  <1> QED
    BY <1>4, <1>9, <1>10, <1>12, <1>13, <1>14, <1>15, <1>16, <1>17, <1>18, <1>19

\* What the end of a session promises, and the files it has.
LEMMA PromiseFacts ==
    ASSUME Types, NEW e \in Editor, e.on => e.bak \in Bak, NEW k \in Promise(e)
    PROVE  /\ k.mail = e.mail /\ k.bak = e.bak /\ k.data = bak[k.bak].data /\ k.data \in Version
           /\ e.on /\ e.mail \notin {None} \cup unlocked /\ e.pc # "unlink"
           /\ ~e.first \/ ~bak[k.bak].x
           /\ k \in [mail : Mail, bak : Bak, data : Version]
  <1>1. /\ e.on /\ e.mail \notin {None} \cup unlocked /\ e.pc \notin {"sync", "unlink"}
        /\ ~e.first \/ ~bak[e.bak].x
        /\ k \in Pair(e.mail, e.bak)
    BY DEF Promise
  <1>2. bak[e.bak].data \in Version /\ k = [mail |-> e.mail, bak |-> e.bak, data |-> bak[e.bak].data]
    BY <1>1 DEF Pair
  <1>3. e.mail \in Mail /\ e.bak \in Bak
    BY <1>1 DEF Editor
  <1> QED BY <1>1, <1>2, <1>3

\* What the files of a session are, as names.
LEMMA FilesOfFacts ==
    ASSUME Types, NEW e \in Editor
    PROVE  /\ FilesOf(e) \subseteq Files
           /\ \A b \in Bak : <<"bak", b>> \in FilesOf(e) <=> b = e.bak \/ b = e.copy
           /\ \A n \in Mail : <<"mail", n>> \in FilesOf(e) <=> n = e.mail \/ (n = e.fd /\ e.pc \notin Scanning)
  <1> DEFINE B == {e.bak, e.copy} \ {None}
             fd == IF e.pc \in Scanning THEN None ELSE e.fd
             M == {e.mail, fd} \ {None}
  <1>1. B \subseteq Bak /\ M \subseteq Mail /\ None \notin Bak /\ None \notin Mail
    BY DEF Editor, Types
  <1>2. FilesOf(e) = ({"bak"} \X B) \cup ({"mail"} \X M)
    BY DEF FilesOf
  <1>3. /\ \A b \in Bak : b \in B <=> b = e.bak \/ b = e.copy
        /\ \A n \in Mail : n \in M <=> n = e.mail \/ (n = e.fd /\ e.pc \notin Scanning)
    BY <1>1
  <1> HIDE DEF B, M
  <1>4. /\ \A b \in Bak : <<"bak", b>> \in FilesOf(e) <=> b \in B
        /\ \A n \in Mail : <<"mail", n>> \in FilesOf(e) <=> n \in M
    BY <1>2
  <1> QED BY <1>1, <1>2, <1>3, <1>4 DEF Files

\* A session that ends where it is, its files left as they are.
LEMMA LeaveFiles ==
    ASSUME BoundsAssumption, ProcAssumption, IInv, NEW p \in Proc, ed[p].pc \notin Idle,
           Becomes(p, Nobody), mail' = Unlock(mail, p, Mail), owed' = owed \cup Promise(ed[p]),
           left' = left \cup FilesOf(ed[p]), UNCHANGED <<disk, ver, bak, unlocked>>
    PROVE  IInv'
  <1> DEFINE o == ed[p]
  <1>1. /\ Types /\ TypeOK /\ o \in Editor /\ Shape(o) /\ Becomes(p, Nobody) /\ o.pc \notin Idle
    BY Known
  <1>2. /\ mail' \in [Mail -> MailFile]
        /\ \A n \in Mail : /\ mail'[n].there = mail[n].there /\ mail'[n].path = mail[n].path
                           /\ mail'[n].lock = IF mail[n].lock = p THEN None ELSE mail[n].lock
    <2>1. mail \in [Mail -> MailFile]
      BY <1>1 DEF Types
    <2>2. /\ Unlock(mail, p, Mail) \in [Mail -> MailFile]
          /\ \A n \in Mail : /\ Unlock(mail, p, Mail)[n].there = mail[n].there
                             /\ Unlock(mail, p, Mail)[n].path = mail[n].path
                             /\ Unlock(mail, p, Mail)[n].lock =
                                  IF n \in Mail /\ mail[n].lock = p THEN None ELSE mail[n].lock
      BY <2>1, UnlockFacts
    <2> QED BY <2>2
  <1>3. o.on => o.bak \in Bak
    BY <1>1 DEF Shape, Editor, Idle, Scanning
  <1>4. /\ owed' = owed \cup Promise(o) /\ left' = left \cup FilesOf(o)
        /\ owed \subseteq [mail : Mail, bak : Bak, data : Version] /\ left \subseteq Files
    BY <1>1 DEF TypeOK
  <1>5. \A k \in Promise(o) :
          /\ k.mail = o.mail /\ k.bak = o.bak /\ k.data = bak[k.bak].data /\ k.data \in Version
          /\ o.on /\ o.mail \notin {None} \cup unlocked /\ o.pc # "unlink"
          /\ ~o.first \/ ~bak[k.bak].x
          /\ k \in [mail : Mail, bak : Bak, data : Version]
    BY <1>1, <1>3, PromiseFacts
  <1>6. /\ FilesOf(o) \subseteq Files
        /\ \A b \in Bak : <<"bak", b>> \in FilesOf(o) <=> b = o.bak \/ b = o.copy
        /\ \A n \in Mail : <<"mail", n>> \in FilesOf(o) <=> n = o.mail \/ (n = o.fd /\ o.pc \notin Scanning)
    BY <1>1, FilesOfFacts
  <1>7. Leaves(p)
    BY <1>1, <1>2, <1>4, <1>5, <1>6 DEF Leaves
  <1> QED BY <1>7, Leave

\* A process dies wherever it is.
LEMMA CrashStep ==
    ASSUME BoundsAssumption, ProcAssumption, IInv, NEW p \in Proc, Crash(p)
    PROVE  IInv'
  BY LeaveFiles DEF Crash, Idle

\* A session ends, its files preserved.
LEMMA ExitNormalStep ==
    ASSUME BoundsAssumption, ProcAssumption, IInv, NEW p \in Proc, ExitNormal(p)
    PROVE  IInv'
  BY LeaveFiles DEF ExitNormal, At, Idle

\* A clean end: the mail file goes after the backing file.
LEMMA UnlinkMailStep ==
    ASSUME BoundsAssumption, ProcAssumption, IInv, NEW p \in Proc, UnlinkMail(p)
    PROVE  IInv'
  <1> DEFINE o == ed[p]
             m == o.mail
             f == Unlock(mail, p, Mail)
  <1>1. /\ Types /\ TypeOK /\ o \in Editor /\ Shape(o) /\ Becomes(p, Nobody) /\ o.pc = "unlink"
        /\ mail' = (IF m = None THEN f ELSE RmMail(f, m)) /\ left' = left \ {<<"mail", m>>}
        /\ owed' = owed /\ UNCHANGED <<disk, ver, bak, unlocked>>
    BY Known DEF UnlinkMail, At
  <1>2. /\ f \in [Mail -> MailFile]
        /\ \A n \in Mail : /\ f[n].there = mail[n].there /\ f[n].path = mail[n].path
                           /\ f[n].lock = IF mail[n].lock = p THEN None ELSE mail[n].lock
    <2>1. mail \in [Mail -> MailFile]
      BY <1>1 DEF Types
    <2>2. /\ Unlock(mail, p, Mail) \in [Mail -> MailFile]
          /\ \A n \in Mail : /\ Unlock(mail, p, Mail)[n].there = mail[n].there
                             /\ Unlock(mail, p, Mail)[n].path = mail[n].path
                             /\ Unlock(mail, p, Mail)[n].lock =
                                  IF n \in Mail /\ mail[n].lock = p THEN None ELSE mail[n].lock
      BY <2>1, UnlockFacts
    <2> QED BY <2>2
  <1>3. m \in Mail \cup {None} /\ None \notin Mail /\ o.copy = None /\ o.fd = None
    BY <1>1 DEF Editor, Types, Shape
  <1>4. ~bak[o.bak].there
    BY <1>1 DEF IInv, Removed, At
  <1> HIDE DEF f
  <1>5. /\ mail' \in [Mail -> MailFile]
        /\ \A n \in Mail : mail'[n].lock = f[n].lock
        /\ \A n \in Mail :
              \/ n # m /\ mail'[n].there = f[n].there /\ mail'[n].path = f[n].path
              \/ n = m /\ ~mail'[n].there /\ mail'[n].path = None
    <2>1. CASE m = None
      BY <2>1, <1>1, <1>2, <1>3
    <2>2. CASE m # None
      <3>1. m \in Mail
        BY <2>2, <1>3
      <3>2. /\ RmMail(f, m) \in [Mail -> MailFile]
            /\ \A n \in Mail \ {m} : RmMail(f, m)[n] = f[n]
            /\ ~RmMail(f, m)[m].there /\ RmMail(f, m)[m].path = None
            /\ RmMail(f, m)[m].lock = f[m].lock
        BY <3>1, <1>2, RmMailFacts
      <3> QED BY <2>2, <3>1, <3>2, <1>1
    <2> QED BY <2>1, <2>2
  <1>6. /\ owed' \ owed = {} /\ owed \subseteq [mail : Mail, bak : Bak, data : Version] /\ left' \subseteq Files
        /\ \A b \in Bak : <<"bak", b>> \in left => <<"bak", b>> \in left'
        /\ \A n \in Mail : n # m /\ <<"mail", n>> \in left => <<"mail", n>> \in left'
    BY <1>1 DEF TypeOK
  <1>7. \A b \in Bak : b # None
    BY <1>1 DEF Types
  <1>8. Leaves(p)
    BY <1>1, <1>2, <1>3, <1>4, <1>5, <1>6, <1>7 DEF Leaves, Idle
  <1> QED BY <1>1, <1>8, Leave

-----------------------------------------------------------------------------
(* A process that runs alone: the rest of the invariant is about it. *)

Solo(p) ==
    /\ Shape(ed[p]) /\ ed[p].pc \notin Idle \cup Scanning
    /\ \A n \in Mail : mail[n].lock = None \/ (mail[n].lock = p /\ n \in {ed[p].mail, ed[p].fd})
    /\ Building(ed[p]) =>
        /\ mail[ed[p].fd].there /\ mail[ed[p].fd].path = None
        /\ At(p, "header") /\ ed[p].fd \notin unlocked => mail[ed[p].fd].lock = p
        /\ At(p, "lock") => mail[ed[p].fd].lock # p
        /\ ed[p].copy # None => ed[p].fd \notin unlocked
    /\ OnePath
    /\ ~Named(ed[p]) => \A m \in Mail : mail[m].path # ed[p].bak
    /\ ed[p].copy # None => (\A m \in Mail : mail[m].path # ed[p].copy)
                            /\ bak[ed[p].copy].there /\ ~bak[ed[p].copy].x
    /\ Named(ed[p]) =>
          \/ mail[ed[p].mail].path = ed[p].bak
          \/ mail[ed[p].mail].path = None /\ (~bak[ed[p].bak].there \/ Failed(ed[p]))
    /\ Holding(p)
    /\ At(p, "unlink") => ~bak[ed[p].bak].there
    /\ \A o \in owed :
        /\ mail[o.mail].there /\ mail[o.mail].path = o.bak /\ o.mail \notin unlocked
        /\ bak[o.bak].there /\ bak[o.bak].data = o.data /\ ~bak[o.bak].x
        /\ o.bak \notin {ed[p].bak, ed[p].copy} /\ o.mail \notin {ed[p].mail, ed[p].fd}
    /\ \A b \in Bak : bak[b].there => <<"bak", b>> \in left \/ b = ed[p].bak \/ b = ed[p].copy
    /\ \A m \in Mail : mail[m].there => <<"mail", m>> \in left \/ m = ed[p].mail \/ m = ed[p].fd

\* What the invariant says of a process that runs alone.
LEMMA Alone1 ==
    ASSUME BoundsAssumption, ProcAssumption, IInv, NEW p \in Proc, Alone(p), ed[p].pc \notin Idle \cup Scanning
    PROVE  Solo(p)
  <1>1. Types /\ TypeOK /\ ed[p] \in Editor /\ Shape(ed[p]) /\ Holding(p) /\ ed[p].bak # None /\ ed[p].best = None
    BY Known DEF Shape
  <1>2. \A q \in Proc \ {p} : /\ ed[q].pc = "never" /\ ed[q].bak = None /\ ed[q].mail = None /\ ed[q].copy = None
                              /\ ed[q].fd = None /\ ed[q].best = None
    BY DEF Alone, At, IInv, Shapes, Shape, Idle
  <1> USE DEF IInv
  <1>3. \A n \in Mail : mail[n].lock = None \/ (mail[n].lock = p /\ n \in {ed[p].mail, ed[p].fd})
    <2> SUFFICES ASSUME NEW n \in Mail, mail[n].lock # None
                 PROVE  mail[n].lock = p /\ n \in {ed[p].mail, ed[p].fd}
      OBVIOUS
    <2>1. mail[n].lock \in Proc /\ n # None
      BY <1>1 DEF Types, MailFile
    <2> QED BY <2>1, <1>1, <1>2 DEF Locks
  <1>4. /\ \A b \in Bak : bak[b].there => <<"bak", b>> \in left \/ b = ed[p].bak \/ b = ed[p].copy
        /\ \A m \in Mail : mail[m].there => <<"mail", m>> \in left \/ m = ed[p].mail \/ m = ed[p].fd
    <2>1. (\A b \in Bak : b # None) /\ (\A m \in Mail : m # None)
      BY <1>1 DEF Types
    <2> QED BY <2>1, <1>2 DEF Accounted
  <1> QED
    BY <1>1, <1>3, <1>4 DEF Solo, Builds, Names, Copies, Removed, Owed

\* If that holds of it after a step, so does the invariant.
LEMMA Alone2 ==
    ASSUME BoundsAssumption, ProcAssumption, IInv, NEW p \in Proc, Alone(p), Others(p), TypeOK', Solo(p)'
    PROVE  IInv'
  <1>1. Types' /\ Types
    BY Distinct DEF Types, TypeOK, IInv
  <1>2. \A q \in Proc \ {p} : /\ ed'[q].pc = "never" /\ ed'[q].bak = None /\ ed'[q].mail = None /\ ed'[q].copy = None
                              /\ ed'[q].fd = None /\ ed'[q].best = None /\ Shape(ed'[q])
                              /\ ~Building(ed'[q]) /\ ~Named(ed'[q])
                              /\ ~Failed(ed'[q]) /\ ~Preserving(ed'[q])
    BY DEF Alone, At, IInv, Shapes, Shape, Idle, Others, Building, Named, Failed, Preserving
  <1>3. /\ Shape(ed'[p]) /\ ed'[p].pc \notin Idle \cup Scanning /\ ed'[p].best = None
        /\ ed'[p].pc \notin {"scanread", "scanlock"} /\ ed'[p].bak # None
    BY DEF Solo, Shape, Scanning
  <1> USE DEF IInv
  <1>4. Shapes' /\ Lonely'
    BY <1>2, <1>3 DEF Shapes, Lonely, Alone, At
  <1>5. Locks'
    <2>1. \A n \in Mail : mail'[n].lock = None \/ (mail'[n].lock = p /\ n \in {ed'[p].mail, ed'[p].fd})
      BY DEF Solo
    <2>2. None \notin Proc
      BY <1>1 DEF Types
    <2> QED BY <2>1, <2>2, <1>2, <1>3 DEF Locks, At
  <1>6. Builds'
    <2> SUFFICES ASSUME Building(ed'[p])
                 PROVE  /\ mail'[ed'[p].fd].there /\ mail'[ed'[p].fd].path = None
                        /\ ed'[p].pc = "header" /\ ed'[p].fd \notin unlocked' => mail'[ed'[p].fd].lock = p
                        /\ ed'[p].pc = "lock" => mail'[ed'[p].fd].lock # p
                        /\ ed'[p].copy # None => ed'[p].fd \notin unlocked' /\ mail'[ed'[p].fd].lock \in {None, p}
                        /\ ed'[p].fd # None
      BY <1>2 DEF Builds, At
    <2>1. ed'[p].fd \in Mail /\ ed'[p].fd # None
      BY <1>1, <1>3 DEF Types, Editor, Shape, Building
    <2> QED BY <2>1 DEF Solo, At
  <1>7. OnePath' /\ Removed' /\ Copies'
    BY <1>2 DEF Solo, Removed, Copies, At
  <1>8. Names'
    BY <1>2, <1>3 DEF Solo, Names
  <1>9. Shares'
    BY <1>2, <1>3 DEF Shares
  <1>10. Holdings'
    BY <1>2 DEF Solo, Holdings, Holding
  <1>11. Owed'
    <2>1. \A k \in owed' : k.mail # None /\ k.bak # None
      BY <1>1 DEF Types
    <2> QED BY <2>1, <1>2 DEF Solo, Owed
  <1>12. Accounted'
    BY <1>3 DEF Solo, Accounted
  <1> QED BY <1>4, <1>5, <1>6, <1>7, <1>8, <1>9, <1>10, <1>11, <1>12

\* rcv_sync(RCV_SNAPSHOT) makes the backing file of the copy.
LEMMA BeginCopyStep ==
    ASSUME BoundsAssumption, ProcAssumption, IInv, NEW p \in Proc, BeginCopy(p)
    PROVE  IInv'
  <1> DEFINE o == ed[p]
             b == NewBak
             n == [there |-> TRUE, x |-> FALSE, data |-> Torn]
             e == [o EXCEPT !.pc = "copy", !.copy = b]
  <1>1. /\ Types /\ TypeOK /\ o \in Editor /\ Shape(o) /\ Holding(p) /\ o.pc = "mkcopy" /\ Alone(p)
        /\ disk' = disk /\ ver' = ver /\ mail' = mail /\ owed' = owed /\ left' = left /\ unlocked' = unlocked
    BY Known DEF BeginCopy, At, history, IInv, Lonely, Preserving
  <1>2. /\ b \in Bak /\ ~bak[b].there /\ \A m \in Mail : mail[m].path # b
        /\ b # o.bak /\ b # o.copy /\ b # None
    BY <1>1, NewNames DEF UnusedBak, BeginCopy, Types
  <1>3. bak' = [bak EXCEPT ![b] = n] /\ Becomes(p, e)
    BY DEF BeginCopy
  <1>4. /\ e.pc = "copy" /\ e.copy = b /\ e.bak = o.bak /\ e.mail = o.mail /\ e.fd = o.fd /\ e.best = o.best
        /\ e.todo = o.todo /\ e.on = o.on /\ e.then = o.then /\ e.first = o.first /\ e.mod = o.mod
        /\ e.dirty = o.dirty /\ e.text = o.text /\ e \in Editor
    <2>1. e = [o EXCEPT !.pc = "copy", !.copy = b] /\ "copy" \in Point
      BY Points
    <2> HIDE DEF e, b
    <2>2. e \in Editor
      BY <1>1, <1>2, <2>1 DEF Editor
    <2> QED BY <1>1, <2>1, <2>2 DEF Editor
  <1> HIDE DEF b, e, n
  <1>5. OneBak(b) /\ bak'[b].there /\ ~bak'[b].x
    <2>1. n \in BakFile /\ n.there /\ ~n.x
      BY DEF BakFile, n
    <2> QED BY <1>1, <1>2, <1>3, <2>1 DEF OneBak, Types
  <1>6. ed' \in [Proc -> Editor] /\ ed'[p] = e /\ Others(p)
    BY <1>1, <1>3, <1>4, BecomesFacts
  <1>7. TypeOK'
    BY <1>1, <1>5, <1>6 DEF TypeOK, OneBak
  <1>8. /\ o.copy = None /\ o.fd = None /\ o.bak # None /\ o.bak \in Bak /\ o.mail # None
        /\ o.pc \notin Idle \cup Scanning /\ Solo(p)
    BY <1>1, Alone1 DEF Shape, Idle, Scanning, Editor
  <1>9. /\ Shape(e) /\ Named(e) /\ Named(o) /\ ~Building(e) /\ ~Failed(e) /\ ~Failed(o)
        /\ e.pc \notin Idle \cup Scanning
    BY <1>1, <1>2, <1>4, <1>8 DEF Shape, Named, Building, Failed, Idle, Scanning, Setup
  <1>10. bak'[o.bak] = bak[o.bak]
    BY <1>2, <1>5, <1>8 DEF OneBak
  <1>11. Holding(p)'
    BY <1>1, <1>4, <1>6, <1>9, <1>10 DEF Holding, At
  <1>12. \A k \in owed :
          /\ mail[k.mail].there /\ mail[k.mail].path = k.bak /\ k.mail \notin unlocked
          /\ bak'[k.bak].there /\ bak'[k.bak].data = k.data /\ ~bak'[k.bak].x
          /\ k.bak \notin {e.bak, e.copy} /\ k.mail \notin {e.mail, e.fd}
    <2> SUFFICES ASSUME NEW k \in owed
                 PROVE  /\ mail[k.mail].there /\ mail[k.mail].path = k.bak /\ k.mail \notin unlocked
                        /\ bak'[k.bak].there /\ bak'[k.bak].data = k.data /\ ~bak'[k.bak].x
                        /\ k.bak \notin {e.bak, e.copy} /\ k.mail \notin {e.mail, e.fd}
      OBVIOUS
    <2>1. /\ mail[k.mail].there /\ mail[k.mail].path = k.bak /\ k.mail \notin unlocked
          /\ bak[k.bak].there /\ bak[k.bak].data = k.data /\ ~bak[k.bak].x
          /\ k.bak \notin {o.bak, o.copy} /\ k.mail \notin {o.mail, o.fd}
      BY <1>8 DEF Solo
    <2>2. k.bak \in Bak /\ k.bak # b
      BY <1>1, <1>2, <2>1 DEF Types
    <2> QED BY <1>4, <1>5, <2>1, <2>2 DEF OneBak
  <1>13. \A c \in Bak : bak'[c].there => <<"bak", c>> \in left \/ c = e.bak \/ c = e.copy
    <2>1. \A c \in Bak : c = b \/ bak'[c] = bak[c]
      BY <1>5 DEF OneBak
    <2>2. \A c \in Bak : c # None
      BY <1>1 DEF Types
    <2> QED BY <1>4, <1>8, <2>1, <2>2 DEF Solo
  <1>14. Solo(p)'
    BY <1>1, <1>2, <1>4, <1>5, <1>6, <1>8, <1>9, <1>10, <1>11, <1>12, <1>13 DEF Solo, At, OnePath
  <1> QED BY <1>1, <1>6, <1>7, <1>14, Alone2

\* Removing a backing file.
LEMMA RmBakFacts ==
    ASSUME Types, NEW c \in Bak
    PROVE  /\ RmBak(bak, c) \in [Bak -> BakFile] /\ ~RmBak(bak, c)[c].there
           /\ \A b \in Bak \ {c} : RmBak(bak, c)[b] = bak[b]
  <1> DEFINE n == NoBakFile
  <1>1. n \in BakFile /\ ~n.there /\ RmBak(bak, c) = [bak EXCEPT ![c] = n]
    BY DEF BakFile, NoBakFile, RmBak
  <1> HIDE DEF n
  <1> QED BY <1>1 DEF Types

\* The copy cannot be made.
LEMMA CopyFailsStep ==
    ASSUME BoundsAssumption, ProcAssumption, IInv, NEW p \in Proc, CopyFails(p)
    PROVE  IInv'
  <1> DEFINE o == ed[p]
             c == o.copy
             e == [o EXCEPT !.pc = "cmd", !.copy = None]
  <1>1. /\ Types /\ TypeOK /\ o \in Editor /\ Shape(o) /\ Holding(p) /\ o.pc = "copy" /\ Alone(p)
        /\ disk' = disk /\ ver' = ver /\ mail' = mail /\ owed' = owed /\ left' = left /\ unlocked' = unlocked
    BY Known DEF CopyFails, At, history
  <1>2. /\ c # None /\ c \in Bak /\ c # o.bak /\ o.fd = None /\ o.bak # None /\ o.bak \in Bak /\ o.mail # None
        /\ o.pc \notin Idle \cup Scanning /\ Solo(p)
    BY <1>1, Alone1 DEF Shape, Idle, Scanning, Editor
  <1>3. bak' = RmBak(bak, c) /\ Becomes(p, e)
    BY DEF CopyFails
  <1>4. /\ e.pc = "cmd" /\ e.copy = None /\ e.bak = o.bak /\ e.mail = o.mail /\ e.fd = o.fd /\ e.best = o.best
        /\ e.todo = o.todo /\ e.on = o.on /\ e.then = o.then /\ e.first = o.first /\ e.mod = o.mod
        /\ e.dirty = o.dirty /\ e.text = o.text /\ e \in Editor
    <2>1. e = [o EXCEPT !.pc = "cmd", !.copy = None] /\ "cmd" \in Point
      BY Points
    <2> HIDE DEF e
    <2>2. e \in Editor
      BY <1>1, <2>1 DEF Editor
    <2> QED BY <1>1, <2>1, <2>2 DEF Editor
  <1> HIDE DEF e
  <1>5. /\ bak' \in [Bak -> BakFile] /\ ~bak'[c].there
        /\ \A b \in Bak : b # c => bak'[b] = bak[b]
    BY <1>1, <1>2, <1>3, RmBakFacts
  <1>6. ed' \in [Proc -> Editor] /\ ed'[p] = e /\ Others(p)
    BY <1>1, <1>3, <1>4, BecomesFacts
  <1>7. TypeOK'
    BY <1>1, <1>5, <1>6 DEF TypeOK
  <1>8. /\ Shape(e) /\ Named(e) /\ Named(o) /\ ~Building(e) /\ ~Failed(e) /\ ~Failed(o)
        /\ e.pc \notin Idle \cup Scanning
    BY <1>1, <1>2, <1>4 DEF Shape, Named, Building, Failed, Idle, Scanning, Setup
  <1>9. bak'[o.bak] = bak[o.bak]
    BY <1>2, <1>5
  <1>10. Holding(p)'
    BY <1>1, <1>4, <1>6, <1>8, <1>9 DEF Holding, At
  <1>11. \A k \in owed :
          /\ mail[k.mail].there /\ mail[k.mail].path = k.bak /\ k.mail \notin unlocked
          /\ bak'[k.bak].there /\ bak'[k.bak].data = k.data /\ ~bak'[k.bak].x
          /\ k.bak \notin {e.bak, e.copy} /\ k.mail \notin {e.mail, e.fd}
    BY <1>1, <1>2, <1>4, <1>5 DEF Solo, Types
  <1>12. \A b \in Bak : bak'[b].there => <<"bak", b>> \in left \/ b = e.bak \/ b = e.copy
    BY <1>2, <1>4, <1>5 DEF Solo
  <1>13. Solo(p)'
    BY <1>1, <1>2, <1>4, <1>5, <1>6, <1>8, <1>9, <1>10, <1>11, <1>12 DEF Solo, At, OnePath
  <1> QED BY <1>1, <1>6, <1>7, <1>13, Alone2

\* The headers cannot be written, for the session or for a copy.
LEMMA HeaderFailsStep ==
    ASSUME BoundsAssumption, ProcAssumption, IInv, NEW p \in Proc, HeaderFails(p)
    PROVE  IInv'
  <1> DEFINE o == ed[p]
             m == o.fd
             c == o.copy
             e == [o EXCEPT !.pc = "cmd", !.then = "none", !.fd = None, !.copy = None]
  <1>1. /\ Types /\ TypeOK /\ o \in Editor /\ Shape(o) /\ Holding(p) /\ o.pc = "header" /\ Alone(p)
        /\ disk' = disk /\ ver' = ver /\ owed' = owed /\ unlocked' = unlocked
        /\ mail' = Unlock(mail, p, {m}) /\ Becomes(p, e)
        /\ bak' = (IF c = None THEN bak ELSE RmBak(bak, c))
        /\ left' = (IF c = None THEN left ELSE left \cup {<<"mail", m>>})
    BY Known DEF HeaderFails, At
  <1>2. /\ m \in Mail /\ m # None /\ o.bak # None /\ o.bak \in Bak /\ o.mail # None /\ Building(o)
        /\ o.pc \notin Idle \cup Scanning /\ Solo(p) /\ c \in Bak \cup {None}
        /\ \A n \in Mail : n # None
    BY <1>1, Alone1 DEF Shape, Idle, Scanning, Editor, Building, Types
  <1>3. /\ e.pc = "cmd" /\ e.then = "none" /\ e.copy = None /\ e.bak = o.bak /\ e.mail = o.mail /\ e.fd = None
        /\ e.best = o.best /\ e.todo = o.todo /\ e.on = o.on /\ e.first = o.first /\ e.mod = o.mod
        /\ e.dirty = o.dirty /\ e.text = o.text /\ e \in Editor
    <2>1. e = [o EXCEPT !.pc = "cmd", !.then = "none", !.fd = None, !.copy = None]
          /\ "cmd" \in Point /\ "none" \in Point
      BY Points
    <2> HIDE DEF e
    <2>2. e \in Editor
      BY <1>1, <2>1 DEF Editor
    <2> QED BY <1>1, <2>1, <2>2 DEF Editor
  <1>4. /\ mail' \in [Mail -> MailFile]
        /\ \A n \in Mail : /\ mail'[n].there = mail[n].there /\ mail'[n].path = mail[n].path
                           /\ mail'[n].lock = IF n = m /\ mail[n].lock = p THEN None ELSE mail[n].lock
    <2>1. mail \in [Mail -> MailFile]
      BY <1>1 DEF Types
    <2> DEFINE M == {m}
    <2>2. mail' = Unlock(mail, p, M) /\ \A n \in Mail : n \in M <=> n = m
      BY <1>1
    <2> HIDE DEF M
    <2>3. /\ mail' \in [Mail -> MailFile]
          /\ \A n \in Mail : /\ mail'[n].there = mail[n].there /\ mail'[n].path = mail[n].path
                             /\ mail'[n].lock = IF n \in M /\ mail[n].lock = p THEN None ELSE mail[n].lock
      BY <2>1, <2>2, UnlockFacts
    <2> QED BY <2>2, <2>3
  <1> HIDE DEF e
  <1>5. /\ bak' \in [Bak -> BakFile] /\ (c # None => ~bak'[c].there)
        /\ \A b \in Bak : b # c => bak'[b] = bak[b]
    <2>1. CASE c = None
      BY <2>1, <1>1 DEF Types
    <2>2. CASE c # None
      BY <2>2, <1>1, <1>2, RmBakFacts
    <2> QED BY <2>1, <2>2
  <1>6. ed' \in [Proc -> Editor] /\ ed'[p] = e /\ Others(p)
    BY <1>1, <1>3, BecomesFacts
  <1>7. TypeOK'
    <2>1. left' \subseteq Files
      BY <1>1, <1>2 DEF TypeOK, Files
    <2> QED BY <1>1, <1>4, <1>5, <1>6, <2>1 DEF TypeOK
  <1>8. c # o.bak /\ bak'[o.bak] = bak[o.bak]
    BY <1>1, <1>2, <1>5 DEF Shape
  <1>9. mail[m].path = None /\ \A b \in Bak : b # None
    BY <1>1, <1>2 DEF Solo, Types
  <1>10. /\ Shape(e) /\ Named(e) /\ ~Building(e) /\ e.pc \notin Idle \cup Scanning
         /\ c = None => ~Named(o) /\ Failed(e) /\ ~o.on /\ o.mail = m
         /\ c # None => Named(o) /\ ~Failed(o) /\ o.mail # m
    BY <1>1, <1>2, <1>3 DEF Shape, Named, Building, Failed, Idle, Scanning, Setup
  <1>11. Holding(p)'
    <2>1. CASE c = None
      BY <1>1, <1>3, <1>6, <1>8, <1>10, <2>1 DEF Holding, At
    <2>2. CASE c # None
      <3>1. o.mail \in Mail
        BY <1>1, <1>2 DEF Editor
      <3>2. /\ mail'[o.mail].there = mail[o.mail].there /\ mail'[o.mail].path = mail[o.mail].path
            /\ mail'[o.mail].lock = mail[o.mail].lock
        BY <1>4, <1>10, <2>2, <3>1
      <3>3. SUFFICES ASSUME o.mail \notin unlocked PROVE Holding(p)'
        BY <1>1, <1>3, <1>6 DEF Holding
      <3>4. /\ bak[o.bak].there /\ mail[o.mail].there /\ mail[o.mail].lock = p /\ mail[o.mail].path = o.bak
            /\ o.on /\ ~o.first => ~bak[o.bak].x
            /\ o.on /\ ~o.first /\ o.mod /\ ~o.dirty => bak[o.bak].data = o.text
        BY <1>1, <1>2, <1>10, <2>2, <3>3 DEF Holding, At
      <3>5. /\ bak'[e.bak].there /\ mail'[e.mail].there /\ mail'[e.mail].lock = p /\ mail'[e.mail].path = e.bak
            /\ e.on /\ ~e.first => ~bak'[e.bak].x
            /\ e.on /\ ~e.first /\ e.mod /\ ~e.dirty => bak'[e.bak].data = e.text
        BY <1>3, <1>8, <3>2, <3>4
      <3> QED BY <1>6, <3>5 DEF Holding
    <2> QED BY <2>1, <2>2
  <1>12. /\ ~Named(e) => \A n \in Mail : mail'[n].path # e.bak
         /\ \/ mail'[e.mail].path = e.bak
            \/ mail'[e.mail].path = None /\ (~bak'[e.bak].there \/ Failed(e))
    <2>1. o.mail \in Mail
      BY <1>1, <1>2 DEF Editor
    <2>2. CASE c = None
      BY <1>3, <1>4, <1>9, <1>10, <2>1, <2>2
    <2>3. CASE c # None
      BY <1>3, <1>4, <1>8, <1>2, <1>10, <2>1, <2>3 DEF Solo
    <2> QED BY <1>10, <2>2, <2>3
  <1>13. ASSUME NEW k \in owed
         PROVE  /\ mail'[k.mail].there /\ mail'[k.mail].path = k.bak /\ k.mail \notin unlocked
                /\ bak'[k.bak].there /\ bak'[k.bak].data = k.data /\ ~bak'[k.bak].x
                /\ k.bak \notin {e.bak, e.copy} /\ k.mail \notin {e.mail, e.fd}
    <2>1. k.mail \in Mail /\ k.bak \in Bak
      BY <1>1 DEF Types
    <2>2. /\ mail[k.mail].there /\ mail[k.mail].path = k.bak /\ k.mail \notin unlocked
          /\ bak[k.bak].there /\ bak[k.bak].data = k.data /\ ~bak[k.bak].x
          /\ k.bak \notin {o.bak, o.copy} /\ k.mail \notin {o.mail, o.fd}
      BY <1>2 DEF Solo
    <2> QED BY <1>2, <1>3, <1>4, <1>5, <1>9, <2>1, <2>2
  <1>14. /\ \A b \in Bak : bak'[b].there => <<"bak", b>> \in left' \/ b = e.bak \/ b = e.copy
         /\ \A n \in Mail : mail'[n].there => <<"mail", n>> \in left' \/ n = e.mail \/ n = e.fd
    <2>1. left \subseteq left' /\ (c # None => <<"mail", m>> \in left')
      BY <1>1
    <2>2. \A b \in Bak : bak'[b].there => <<"bak", b>> \in left \/ b = o.bak
      BY <1>2, <1>5, <1>9 DEF Solo
    <2>3. \A n \in Mail : mail'[n].there => <<"mail", n>> \in left \/ n = o.mail \/ n = m
      BY <1>2, <1>4 DEF Solo
    <2> QED BY <1>3, <1>10, <2>1, <2>2, <2>3
  <1>15. /\ \A n \in Mail : mail'[n].lock = None \/ (mail'[n].lock = p /\ n \in {e.mail, e.fd})
         /\ OnePath'
    BY <1>2, <1>3, <1>4 DEF Solo, OnePath
  <1>16. Solo(p)'
    BY <1>1, <1>3, <1>6, <1>10, <1>11, <1>12, <1>13, <1>14, <1>15 DEF Solo, At
  <1> QED BY <1>1, <1>6, <1>7, <1>16, Alone2

-----------------------------------------------------------------------------
(* Locking a new mail file, writing its headers, and unlinking.            *)

\* The mail file becomes the newest, and that is all.
LEMMA NewestFacts ==
    ASSUME BoundsAssumption, Types, NEW m \in Mail
    PROVE  /\ Newest(m) \in [Mail -> MailFile]
           /\ \A k \in Mail : /\ Newest(m)[k].there = mail[k].there /\ Newest(m)[k].path = mail[k].path
                              /\ Newest(m)[k].lock = mail[k].lock
  <1> DEFINE older(k) == {j \in Mail \ {m} : 0 < mail[j].mtime /\ mail[j].mtime <= mail[k].mtime}
             age(k) == IF k = m THEN MaxMail ELSE Cardinality(older(k))
             u(k) == [mail[k] EXCEPT !.mtime = age(k)]
  <1>1. ASSUME NEW k \in Mail PROVE age(k) \in 0..MaxMail
    <2>1. MaxMail \in Nat
      BY DEF BoundsAssumption
    <2>2. IsFiniteSet(Mail) /\ Cardinality(Mail) = MaxMail
      <3>0. 1 \in Int /\ MaxMail \in Int
        BY <2>1
      <3>1. IsFiniteSet(1..MaxMail)
        BY <3>0, FS_Interval
      <3>2. Cardinality(1..MaxMail) = IF 1 > MaxMail THEN 0 ELSE MaxMail - 1 + 1
        BY <3>0, FS_Interval, Zenon
      <3>3. Cardinality(1..MaxMail) = MaxMail
        BY <2>1, <3>2
      <3> QED BY <3>1, <3>3 DEF Mail
    <2>3. older(k) \subseteq Mail
      OBVIOUS
    <2> HIDE DEF older
    <2>4. IsFiniteSet(older(k)) /\ Cardinality(older(k)) <= Cardinality(Mail)
      BY <2>2, <2>3, FS_Subset
    <2>5. Cardinality(older(k)) \in Nat
      BY <2>4, FS_CardinalityType
    <2> QED BY <2>1, <2>2, <2>4, <2>5
  <1>2. Newest(m) = [k \in Mail |-> u(k)]
    BY DEF Newest
  <1>3. ASSUME NEW k \in Mail
        PROVE  /\ u(k) \in MailFile /\ u(k).there = mail[k].there /\ u(k).path = mail[k].path
               /\ u(k).lock = mail[k].lock
    <2> DEFINE r == mail[k]
               a == age(k)
    <2>1. r \in MailFile /\ a \in 0..MaxMail
      BY <1>1 DEF Types
    <2> HIDE DEF r, a
    <2>2. /\ [r EXCEPT !.mtime = a] \in MailFile /\ [r EXCEPT !.mtime = a].there = r.there
          /\ [r EXCEPT !.mtime = a].path = r.path /\ [r EXCEPT !.mtime = a].lock = r.lock
      BY <2>1 DEF MailFile
    <2> QED BY <2>2 DEF r, a
  <1> HIDE DEF u
  <1> QED BY <1>2, <1>3

\* file_end() unlinks the backing file.
LEMMA UnlinkBakStep ==
    ASSUME BoundsAssumption, ProcAssumption, IInv, NEW p \in Proc, UnlinkBak(p)
    PROVE  IInv'
  <1> DEFINE o == ed[p]
             b == o.bak
             e == [o EXCEPT !.pc = "unlink"]
  <1>1. /\ Types /\ TypeOK /\ o \in Editor /\ Shape(o) /\ Holding(p) /\ o.pc = "exit"
        /\ disk' = disk /\ ver' = ver /\ mail' = mail /\ owed' = owed /\ unlocked' = unlocked
        /\ bak' = RmBak(bak, b) /\ Becomes(p, e) /\ left' = left \ {<<"bak", b>>}
    BY Known DEF UnlinkBak, At
  <1>2. /\ b # None /\ b \in Bak /\ o.copy = None /\ o.fd = None /\ o.best = None
        /\ o.pc \notin Idle \cup Scanning /\ \A c \in Bak : c # None
    BY <1>1 DEF Shape, Idle, Scanning, Editor, Types
  <1>3. /\ e.pc = "unlink" /\ e.copy = o.copy /\ e.bak = b /\ e.mail = o.mail /\ e.fd = o.fd /\ e.best = o.best
        /\ e.todo = o.todo /\ e.on = o.on /\ e.then = o.then /\ e.first = o.first /\ e.mod = o.mod
        /\ e.dirty = o.dirty /\ e.text = o.text /\ e \in Editor
    <2>1. e = [o EXCEPT !.pc = "unlink"] /\ "unlink" \in Point
      BY Points
    <2> HIDE DEF e
    <2>2. e \in Editor
      BY <1>1, <2>1 DEF Editor
    <2> QED BY <1>1, <2>1, <2>2 DEF Editor
  <1> HIDE DEF e
  <1>4. /\ bak' \in [Bak -> BakFile] /\ ~bak'[b].there
        /\ \A c \in Bak : c # b => bak'[c] = bak[c]
    BY <1>1, <1>2, RmBakFacts
  <1>5. ed' \in [Proc -> Editor] /\ ed'[p] = e /\ Others(p)
    BY <1>1, <1>3, BecomesFacts
  <1>6. TypeOK' /\ Types'
    <2>1. left' \subseteq Files
      BY <1>1 DEF TypeOK
    <2> QED BY <1>1, <1>4, <1>5, <2>1 DEF TypeOK, Types
  <1>7. /\ Shape(e) /\ ~Building(e) /\ ~Building(o)
        /\ Named(e) <=> Named(o)
        /\ Failed(e) <=> Failed(o)
        /\ Preserving(e) => Preserving(o)
    BY <1>1, <1>2, <1>3 DEF Shape, Named, Building, Failed, Preserving, Idle, Scanning, Setup
  <1>8. \A q \in Proc \ {p} : ed'[q] = ed[q] /\ Shape(ed[q]) /\ ed[q] \in Editor
                              /\ ~Preserving(ed[q]) /\ ~Failed(ed[q])
    BY <1>1, <1>2, <1>5, Solitude DEF Others, IInv, Shapes, Types, Idle
  <1> USE DEF IInv
  <1>9. Shapes'
    BY <1>5, <1>7, <1>8 DEF Shapes
  <1>10. Lonely'
    <2> SUFFICES ASSUME Preserving(e) \/ Failed(e), NEW r \in Proc \ {p}
                 PROVE  ed[r].pc = "never"
      BY <1>5, <1>8 DEF Lonely, Alone, At
    <2> QED BY <1>7 DEF Lonely, Alone, At
  <1>11. Locks'
    BY <1>1, <1>2, <1>3, <1>5, <1>8 DEF Locks, At
  <1>12. Builds'
    <2> SUFFICES ASSUME NEW q \in Proc \ {p}, Building(ed[q])
                 PROVE  \A r \in Proc \ {q} : ed'[r].mail # ed[q].fd /\ ed'[r].best # ed[q].fd
                                              /\ (Building(ed'[r]) => ed'[r].fd # ed[q].fd)
      BY <1>1, <1>5, <1>7, <1>8 DEF Builds, At
    <2> QED BY <1>3, <1>5, <1>7, <1>8 DEF Builds
  <1>13. OnePath'
    BY <1>1 DEF OnePath
  <1>14. \A c \in Bak : bak'[c].there => bak[c].there
    BY <1>4
  <1>15. Names'
    <2>1. \A q \in Proc : /\ ed'[q].bak = ed[q].bak /\ ed'[q].mail = ed[q].mail /\ ed'[q].copy = ed[q].copy
                          /\ Named(ed'[q]) <=> Named(ed[q])
                          /\ Failed(ed'[q]) <=> Failed(ed[q])
                          /\ Named(ed[q]) => ed[q].bak \in Bak
      <3>1. \A q \in Proc : Shape(ed[q]) /\ ed[q] \in Editor
        BY <1>1, <1>8
      <3>2. \A q \in Proc : Named(ed[q]) => ed[q].bak \in Bak
        BY <3>1 DEF Named, Shape, Editor
      <3> QED BY <1>3, <1>5, <1>7, <1>8, <3>2
    <2> QED BY <1>1, <1>14, <2>1 DEF Names
  <1>16. Shares'
    BY <1>1, <1>3, <1>5, <1>8 DEF Shares
  <1>17. Holdings'
    <2>1. Holding(p)'
      BY <1>1, <1>3, <1>5, <1>7 DEF Holding, At
    <2>2. ASSUME NEW q \in Proc \ {p} PROVE Holding(q)'
      <3>1. CASE ed[q].bak = b
        <4>1. ed[q].mail \in unlocked
          BY <1>2, <3>1 DEF Shares
        <4> QED BY <4>1, <1>1, <1>8 DEF Holding
      <3>2. CASE ed[q].bak # b
        <4>1. ed[q].bak # None => bak'[ed[q].bak] = bak[ed[q].bak]
          BY <1>4, <1>8, <3>2 DEF Editor
        <4>2. Holding(q)
          BY DEF Holdings
        <4> QED BY <1>1, <1>8, <4>1, <4>2 DEF Holding, At
      <3> QED BY <3>1, <3>2
    <2> QED BY <2>1, <2>2 DEF Holdings
  <1>18. Copies'
    BY <1>2, <1>3, <1>5, <1>8 DEF Copies, Preserving
  <1>19. Removed'
    <2>1. \A q \in Proc \ {p} : ed[q].pc = "unlink" => ed[q].bak \in Bak
      BY <1>8 DEF Shape, Editor, Idle, Scanning
    <2> QED BY <1>3, <1>4, <1>5, <1>8, <2>1 DEF Removed, At
  <1>20. Owed'
    <2> SUFFICES ASSUME NEW k \in owed
                 PROVE  /\ mail[k.mail].there /\ mail[k.mail].path = k.bak /\ k.mail \notin unlocked
                        /\ bak'[k.bak].there /\ bak'[k.bak].data = k.data /\ ~bak'[k.bak].x
                        /\ \A q \in Proc : /\ k.bak \notin {ed'[q].bak, ed'[q].copy} /\ k.mail # ed'[q].mail
                                           /\ ed'[q].pc \notin Scanning => k.mail # ed'[q].fd
      BY <1>1 DEF Owed
    <2>1. /\ mail[k.mail].there /\ mail[k.mail].path = k.bak /\ k.mail \notin unlocked
          /\ bak[k.bak].there /\ bak[k.bak].data = k.data /\ ~bak[k.bak].x
          /\ \A q \in Proc : /\ k.bak \notin {ed[q].bak, ed[q].copy} /\ k.mail # ed[q].mail
                             /\ ed[q].pc \notin Scanning => k.mail # ed[q].fd
      BY DEF Owed
    <2>2. bak'[k.bak] = bak[k.bak]
      BY <1>1, <1>4, <2>1 DEF Types
    <2> QED BY <1>2, <1>3, <1>5, <1>8, <2>1, <2>2
  <1>21. Accounted'
    <2>1. \A c \in Bak : c # b /\ <<"bak", c>> \in left => <<"bak", c>> \in left'
      BY <1>1
    <2>2. \A n \in Mail : <<"mail", n>> \in left => <<"mail", n>> \in left'
      BY <1>1
    <2>3. \A c \in Bak : bak'[c].there => c # b /\ bak[c].there
      BY <1>4
    <2>4. \A n \in Mail : mail'[n].there => mail[n].there
      BY <1>1
    <2>5. ed'[p].pc \notin Scanning
      BY <1>3, <1>5 DEF Scanning
    <2> QED BY <1>3, <1>5, <1>8, <2>1, <2>2, <2>3, <2>4, <2>5 DEF Accounted
  <1> QED
    BY <1>6, <1>9, <1>10, <1>11, <1>12, <1>13, <1>15, <1>16, <1>17, <1>18, <1>19, <1>20, <1>21

\* file_lock() on the new mail file: it is free, or a listing is looking at it.
LEMMA LockMailStep ==
    ASSUME BoundsAssumption, ProcAssumption, IInv, NEW p \in Proc, LockMail(p)
    PROVE  IInv'
  <1> DEFINE o == ed[p]
             m == o.fd
             free == mail[m].lock = None
             g == IF o.copy = None THEN m ELSE o.mail
             e == [o EXCEPT !.pc = "header", !.mail = g]
  <1>1. /\ Types /\ TypeOK /\ o \in Editor /\ Shape(o) /\ Holding(p) /\ o.pc = "lock" /\ Building(o)
        /\ disk' = disk /\ ver' = ver /\ bak' = bak /\ owed' = owed /\ left' = left
        /\ mail' = (IF free THEN [mail EXCEPT ![m].lock = p] ELSE mail)
        /\ unlocked' = (IF ~free THEN unlocked \cup {m} ELSE unlocked)
    BY Known DEF LockMail, At, Building
  <1>2. /\ m \in Mail /\ m # None /\ o.bak # None /\ o.bak \in Bak /\ o.best = None /\ o.copy # o.bak
        /\ o.copy = None => o.mail = None
        /\ o.copy # None => o.mail # None /\ o.mail # m
        /\ o.mail \in Mail \cup {None} /\ o.copy \in Bak \cup {None} /\ g \in Mail
        /\ \A n \in Mail : n # None
    BY <1>1 DEF Shape, Idle, Scanning, Editor, Types
  <1>3. Becomes(p, e)
    <2>1. Becomes(p, IF o.copy = None THEN [o EXCEPT !.pc = "header", !.mail = m]
                                      ELSE [o EXCEPT !.pc = "header"])
      BY DEF LockMail
    <2>2. CASE o.copy = None
      BY <2>1, <2>2
    <2>3. CASE o.copy # None
      <3>1. [o EXCEPT !.pc = "header"] = [o EXCEPT !.pc = "header", !.mail = o.mail]
        BY <1>1 DEF Editor
      <3> QED BY <2>1, <2>3, <3>1
    <2> QED BY <2>2, <2>3
  <1>4. /\ e.pc = "header" /\ e.copy = o.copy /\ e.bak = o.bak /\ e.mail = g /\ e.fd = m /\ e.best = o.best
        /\ e.todo = o.todo /\ e.on = o.on /\ e.then = o.then /\ e.first = o.first /\ e.mod = o.mod
        /\ e.dirty = o.dirty /\ e.text = o.text /\ e \in Editor
    <2>1. e = [o EXCEPT !.pc = "header", !.mail = g] /\ "header" \in Point
      BY Points
    <2>2. m = o.fd
      OBVIOUS
    <2> HIDE DEF e, g, m
    <2>3. e \in Editor
      BY <1>1, <1>2, <2>1 DEF Editor
    <2> QED BY <1>1, <2>1, <2>2, <2>3 DEF Editor
  <1>5. ed' \in [Proc -> Editor] /\ ed'[p] = e /\ Others(p)
    BY <1>1, <1>3, <1>4, BecomesFacts
  <1>6. /\ Shape(e) /\ Building(e) /\ ~Failed(e) /\ ~Failed(o)
        /\ Named(e) <=> o.copy # None
        /\ Named(o) <=> o.copy # None
        /\ Preserving(e) => Preserving(o)
    <2>1. e.copy = None => e.mail = e.fd
      BY <1>2, <1>4
    <2>2. e.copy # None => e.mail = o.mail /\ e.mail # e.fd /\ e.mail # None
      BY <1>2, <1>4
    <2>3. Shape(e)
      BY <1>1, <1>2, <1>4, <2>1, <2>2 DEF Shape, Idle, Scanning, Setup
    <2> QED BY <1>1, <1>2, <1>4, <2>2, <2>3 DEF Shape, Named, Building, Failed, Preserving, Setup
  <1> HIDE DEF e
  <1>7. /\ mail[m].there /\ mail[m].path = None /\ mail[m].lock # p
        /\ o.copy # None => m \notin unlocked /\ free
        /\ \A q \in Proc \ {p} : /\ ed[q].mail # m /\ ed[q].best # m
                                 /\ Building(ed[q]) => ed[q].fd # m
    BY <1>1 DEF IInv, Builds, At
  <1> HIDE DEF m
  <1>8. /\ mail' \in [Mail -> MailFile]
        /\ \A n \in Mail : mail'[n].there = mail[n].there /\ mail'[n].path = mail[n].path
        /\ \A n \in Mail : n # m => mail'[n].lock = mail[n].lock
        /\ mail'[m].lock # mail[m].lock => mail[m].lock = None /\ mail'[m].lock = p
        /\ mail'[m].lock # p => m \in unlocked'
        /\ unlocked \subseteq unlocked' /\ unlocked' \subseteq unlocked \cup {m}
        /\ o.copy # None => unlocked' = unlocked /\ mail'[m].lock = p
    <2>1. CASE free
      BY <2>1, <1>1, <1>2 DEF Types, MailFile
    <2>2. CASE ~free
      BY <2>2, <1>1, <1>7 DEF Types
    <2> QED BY <2>1, <2>2
  <1> HIDE DEF free
  <1>9. TypeOK' /\ Types'
    <2>1. unlocked' \subseteq Mail
      BY <1>1, <1>2, <1>8 DEF Types
    <2> QED BY <1>1, <1>5, <1>8, <2>1 DEF TypeOK, Types
  <1>10. \A q \in Proc \ {p} : ed'[q] = ed[q] /\ Shape(ed[q]) /\ ed[q] \in Editor
                              /\ ~Preserving(ed[q]) /\ ~Failed(ed[q])
    BY <1>1, <1>5, Solitude DEF Others, IInv, Shapes, Types, Idle
  <1> USE DEF IInv
  <1>11. Shapes'
    BY <1>5, <1>6, <1>10 DEF Shapes
  <1>12. Lonely'
    <2> SUFFICES ASSUME Preserving(e) \/ Failed(e), NEW r \in Proc \ {p}
                 PROVE  ed[r].pc = "never"
      BY <1>5, <1>10 DEF Lonely, Alone, At
    <2> QED BY <1>6 DEF Lonely, Alone, At
  <1>13. Locks'
    <2> SUFFICES ASSUME NEW q \in Proc
                 PROVE  /\ \A n \in Mail : mail'[n].lock = q => n \in {ed'[q].mail, ed'[q].fd, ed'[q].best}
                        /\ ed'[q].pc = "scanread" => mail'[ed'[q].fd].lock = q
                        /\ ed'[q].pc = "scanlock" => mail'[ed'[q].fd].lock # q
                        /\ ed'[q].best # None => mail'[ed'[q].best].lock = q
      BY DEF Locks, At
    <2>1. CASE q = p
      <3>1. \A n \in Mail : mail[n].lock = p => n \in {o.mail, m}
        BY <1>2 DEF Locks, m
      <3>2. \A n \in Mail : mail'[n].lock = p => n \in {e.mail, m}
        BY <1>2, <1>4, <1>8, <3>1
      <3> QED BY <2>1, <3>2, <1>2, <1>4, <1>5
    <2>2. CASE q # p
      <3>1. /\ \A n \in Mail : mail[n].lock = q => n \in {ed[q].mail, ed[q].fd, ed[q].best}
            /\ ed[q].pc = "scanread" => mail[ed[q].fd].lock = q /\ ed[q].fd \in Mail
            /\ ed[q].pc = "scanlock" => mail[ed[q].fd].lock # q /\ ed[q].fd \in Mail
            /\ ed[q].best # None => mail[ed[q].best].lock = q /\ ed[q].best \in Mail
        BY <2>2, <1>10 DEF Locks, At, Editor, Shape
      <3>2. \A n \in Mail : mail'[n].lock = q <=> mail[n].lock = q
        BY <2>2, <1>1, <1>8 DEF Types
      <3> QED BY <2>2, <3>1, <3>2, <1>10
    <2> QED BY <2>1, <2>2
  <1>14. Builds'
    <2> SUFFICES ASSUME NEW q \in Proc, Building(ed'[q])
                 PROVE  /\ mail'[ed'[q].fd].there /\ mail'[ed'[q].fd].path = None
                        /\ ed'[q].pc = "header" /\ ed'[q].fd \notin unlocked' => mail'[ed'[q].fd].lock = q
                        /\ ed'[q].pc = "lock" => mail'[ed'[q].fd].lock # q
                        /\ ed'[q].copy # None => ed'[q].fd \notin unlocked' /\ mail'[ed'[q].fd].lock \in {None, q}
                        /\ \A r \in Proc \ {q} : ed'[r].mail # ed'[q].fd /\ ed'[r].best # ed'[q].fd
                                              /\ (Building(ed'[r]) => ed'[r].fd # ed'[q].fd)
      BY DEF Builds, At
    <2>1. CASE q = p
      BY <2>1, <1>2, <1>4, <1>5, <1>7, <1>8, <1>10
    <2>2. CASE q # p
      <3>1. /\ ed[q].fd # None /\ ed[q].fd \in Mail /\ Building(ed[q]) /\ ed[q].copy = None
            /\ ed'[q] = ed[q]
        BY <2>2, <1>10 DEF Building, Shape, Editor, Preserving
      <3>2. /\ mail[ed[q].fd].there /\ mail[ed[q].fd].path = None
            /\ ed[q].pc = "header" /\ ed[q].fd \notin unlocked => mail[ed[q].fd].lock = q
            /\ ed[q].pc = "lock" => mail[ed[q].fd].lock # q
            /\ \A r \in Proc \ {q} : ed[r].mail # ed[q].fd /\ ed[r].best # ed[q].fd
                                     /\ (Building(ed[r]) => ed[r].fd # ed[q].fd)
        BY <3>1 DEF Builds, At
      <3>3. m # ed[q].fd
        BY <2>2, <3>1, <1>7
      <3>4. g # ed[q].fd
        BY <2>2, <3>2, <3>3
      <3>5. \A r \in Proc \ {q} : ed'[r].mail # ed[q].fd /\ ed'[r].best # ed[q].fd
                                     /\ (Building(ed'[r]) => ed'[r].fd # ed[q].fd)
        BY <2>2, <3>2, <3>3, <3>4, <1>4, <1>5, <1>10
      <3> QED BY <3>1, <3>2, <3>3, <3>5, <1>8
    <2> QED BY <2>1, <2>2
  <1>15. OnePath'
    BY <1>8 DEF OnePath
  <1>16. Names'
    <2>1. \A q \in Proc : /\ ed'[q].bak = ed[q].bak /\ ed'[q].copy = ed[q].copy
                          /\ Named(ed'[q]) <=> Named(ed[q])
                          /\ Failed(ed'[q]) <=> Failed(ed[q])
                          /\ Named(ed[q]) => ed[q].mail \in Mail /\ ed'[q].mail = ed[q].mail
      <3>1. \A q \in Proc : Named(ed[q]) => ed[q].mail \in Mail
        BY <1>1, <1>10 DEF Named, Editor, Types
      <3> QED BY <1>2, <1>4, <1>5, <1>6, <1>10, <3>1
    <2> QED BY <1>1, <1>8, <2>1 DEF Names
  <1>17. Shares'
    <2> SUFFICES ASSUME NEW a \in Proc, NEW c \in Proc \ {a}
                 PROVE  /\ ed'[a].bak = ed'[c].bak /\ ed'[a].bak # None => ed'[a].mail = ed'[c].mail /\ ed'[a].mail # None
                        /\ ed'[a].mail = ed'[c].mail /\ ed'[a].mail # None => ed'[a].mail \in unlocked'
      BY DEF Shares
    <2>1. /\ ed[a].bak = ed[c].bak /\ ed[a].bak # None => ed[a].mail = ed[c].mail /\ ed[a].mail # None
          /\ ed[a].mail = ed[c].mail /\ ed[a].mail # None => ed[a].mail \in unlocked
      BY DEF Shares
    <2>2. /\ a = p => ed'[a].mail = g /\ ed'[a].bak = o.bak
          /\ c = p => ed'[c].mail = g /\ ed'[c].bak = o.bak
          /\ a # p => ed'[a] = ed[a] /\ ed[a].mail # m
          /\ c # p => ed'[c] = ed[c] /\ ed[c].mail # m
      BY <1>4, <1>5, <1>7, <1>10
    <2> QED BY <2>1, <2>2, <1>2, <1>8
  <1>18. Holdings'
    <2>1. Holding(p)'
      <3>1. CASE o.copy = None
        <4>1. o.mail \notin unlocked /\ ~o.on
          BY <3>1, <1>1, <1>2 DEF Types, Shape
        <4>2. bak[o.bak].there
          BY <4>1, <1>1, <1>2 DEF Holding, At
        <4> QED BY <3>1, <4>1, <4>2, <1>1, <1>4, <1>5, <1>6 DEF Holding
      <3>2. CASE o.copy # None
        <4>1. /\ g = o.mail /\ g # m /\ unlocked' = unlocked
              /\ mail'[g].there = mail[g].there /\ mail'[g].path = mail[g].path /\ mail'[g].lock = mail[g].lock
          BY <3>2, <1>2, <1>8
        <4>2. SUFFICES ASSUME o.mail \notin unlocked PROVE Holding(p)'
          BY <1>4, <1>5, <4>1 DEF Holding
        <4>3. /\ bak[o.bak].there /\ mail[o.mail].there /\ mail[o.mail].lock = p /\ mail[o.mail].path = o.bak
              /\ o.on /\ ~o.first => ~bak[o.bak].x
              /\ o.on /\ ~o.first /\ o.mod /\ ~o.dirty => bak[o.bak].data = o.text
          BY <1>1, <1>2, <1>6, <3>2, <4>2 DEF Holding, At
        <4>4. /\ bak'[e.bak].there /\ mail'[e.mail].there /\ mail'[e.mail].lock = p /\ mail'[e.mail].path = e.bak
              /\ e.on /\ ~e.first => ~bak'[e.bak].x
              /\ e.on /\ ~e.first /\ e.mod /\ ~e.dirty => bak'[e.bak].data = e.text
          BY <1>1, <1>4, <4>1, <4>3
        <4> QED BY <1>5, <4>4 DEF Holding
      <3> QED BY <3>1, <3>2
    <2>2. ASSUME NEW q \in Proc \ {p} PROVE Holding(q)'
      <3>1. Holding(q) /\ ed'[q] = ed[q] /\ ed[q].mail # m /\ (Named(ed[q]) => ed[q].mail \in Mail)
        BY <1>7, <1>10 DEF Holdings, Named, Editor
      <3>2. ed[q].mail \notin unlocked' => ed[q].mail \notin unlocked
        BY <1>8
      <3>3. Named(ed[q]) => /\ mail'[ed[q].mail].there = mail[ed[q].mail].there
                            /\ mail'[ed[q].mail].path = mail[ed[q].mail].path
                            /\ mail'[ed[q].mail].lock = mail[ed[q].mail].lock
        BY <3>1, <1>8
      <3> QED BY <3>1, <3>2, <3>3, <1>1 DEF Holding, At
    <2> QED BY <2>1, <2>2 DEF Holdings
  <1>19. Copies' /\ Removed'
    BY <1>1, <1>4, <1>5, <1>10 DEF Copies, Removed, At
  <1>20. Owed'
    <2> SUFFICES ASSUME NEW k \in owed
                 PROVE  /\ mail'[k.mail].there /\ mail'[k.mail].path = k.bak /\ k.mail \notin unlocked'
                        /\ bak[k.bak].there /\ bak[k.bak].data = k.data /\ ~bak[k.bak].x
                        /\ \A q \in Proc : /\ k.bak \notin {ed'[q].bak, ed'[q].copy} /\ k.mail # ed'[q].mail
                                           /\ ed'[q].pc \notin Scanning => k.mail # ed'[q].fd
      BY <1>1 DEF Owed
    <2>1. /\ mail[k.mail].there /\ mail[k.mail].path = k.bak /\ k.mail \notin unlocked
          /\ bak[k.bak].there /\ bak[k.bak].data = k.data /\ ~bak[k.bak].x
          /\ \A q \in Proc : /\ k.bak \notin {ed[q].bak, ed[q].copy} /\ k.mail # ed[q].mail
                             /\ ed[q].pc \notin Scanning => k.mail # ed[q].fd
      BY DEF Owed
    <2>2. k.mail \in Mail /\ k.mail # m /\ k.mail # g
      BY <1>1, <1>7, <2>1 DEF Types
    <2> QED BY <1>4, <1>5, <1>8, <1>10, <2>1, <2>2
  <1>21. Accounted'
    <2>1. \A q \in Proc : ed'[q].bak = ed[q].bak /\ ed'[q].copy = ed[q].copy
      BY <1>4, <1>5, <1>10
    <2>2. \A n \in Mail : n = o.mail \/ n = m => n = ed'[p].mail \/ (n = ed'[p].fd /\ ed'[p].pc \notin Scanning)
      BY <1>2, <1>4, <1>5 DEF Scanning
    <2>3. \A n \in Mail : mail'[n].there => mail[n].there
      BY <1>8
    <2>4. o.fd = m
      BY DEF m
    <2>5. \A q \in Proc \ {p} : ed'[q] = ed[q]
      BY <1>10
    <2> QED BY <1>1, <2>1, <2>2, <2>3, <2>4, <2>5 DEF Accounted
  <1> QED
    BY <1>9, <1>11, <1>12, <1>13, <1>14, <1>15, <1>16, <1>17, <1>18, <1>19, <1>20, <1>21

\* A file record with the name of a backing file in it.
LEMMA PathFacts ==
    ASSUME Types, NEW files \in [Mail -> MailFile], NEW m \in Mail, NEW b \in Bak, NEW f,
           f = [files EXCEPT ![m].path = b]
    PROVE  /\ f \in [Mail -> MailFile] /\ f[m].path = b
           /\ \A n \in Mail : /\ f[n].there = files[n].there /\ f[n].lock = files[n].lock
                              /\ n # m => f[n].path = files[n].path
  BY DEF MailFile

\* The headers of a session's mail file.
LEMMA NameStep ==
    ASSUME BoundsAssumption, ProcAssumption, IInv, NEW p \in Proc, ed[p].pc = "header", ed[p].copy = None,
           mail' \in [Mail -> MailFile], mail'[ed[p].fd].path = ed[p].bak,
           \A n \in Mail : /\ mail'[n].there = mail[n].there /\ mail'[n].lock = mail[n].lock
                           /\ n # ed[p].fd => mail'[n].path = mail[n].path,
           Becomes(p, [ed[p] EXCEPT !.pc = "snap", !.fd = None]),
           UNCHANGED <<disk, ver, bak, owed, left, unlocked>>
    PROVE  IInv'
  <1> DEFINE o == ed[p]
             m == o.fd
             e == [o EXCEPT !.pc = "snap", !.fd = None]
  <1>1. /\ Types /\ TypeOK /\ o \in Editor /\ Shape(o) /\ Holding(p) /\ o.pc = "header" /\ Building(o)
        /\ o.copy = None
        /\ disk' = disk /\ ver' = ver /\ bak' = bak /\ owed' = owed /\ left' = left /\ unlocked' = unlocked
    BY Known DEF Building
  <1>2. /\ m \in Mail /\ m # None /\ o.bak # None /\ o.bak \in Bak /\ o.best = None /\ o.mail = m /\ ~o.on
        /\ \A n \in Mail : n # None
    <2>1. /\ o \in Editor /\ Shape(o) /\ o.pc = "header" /\ o.copy = None /\ Types
      BY <1>1
    <2>2. m # None /\ o.bak # None /\ o.best = None /\ o.mail = m /\ ~o.on
      BY <2>1 DEF Shape, Idle, Scanning, Setup
    <2>3. o.fd \in Mail \cup {None} /\ o.bak \in Bak \cup {None}
      BY <2>1 DEF Editor
    <2> QED BY <2>1, <2>2, <2>3 DEF Types
  <1>3. /\ e.pc = "snap" /\ e.copy = o.copy /\ e.bak = o.bak /\ e.mail = m /\ e.fd = None /\ e.best = o.best
        /\ e.todo = o.todo /\ e.on = o.on /\ e.then = o.then /\ e.first = o.first /\ e.mod = o.mod
        /\ e.dirty = o.dirty /\ e.text = o.text /\ e \in Editor
    <2>1. e = [o EXCEPT !.pc = "snap", !.fd = None] /\ "snap" \in Point
      BY Points
    <2> HIDE DEF e
    <2>3. e \in Editor
      BY <1>1, <1>2, <2>1 DEF Editor
    <2> QED BY <1>1, <1>2, <2>1, <2>3 DEF Editor
  <1>b. Becomes(p, e)
    OBVIOUS
  <1> HIDE DEF e
  <1>4. ed' \in [Proc -> Editor] /\ ed'[p] = e /\ Others(p)
    BY <1>1, <1>3, <1>b, BecomesFacts
  <1>5. /\ Shape(e) /\ ~Building(e) /\ ~Failed(e) /\ ~Failed(o) /\ Named(e) /\ ~Named(o)
        /\ Preserving(e) => Preserving(o)
    BY <1>1, <1>2, <1>3 DEF Shape, Named, Building, Failed, Preserving, Idle, Scanning, Setup
  <1>6. TypeOK' /\ Types'
    BY <1>1, <1>4 DEF TypeOK, Types
  <1>7. \A q \in Proc \ {p} : ed'[q] = ed[q] /\ Shape(ed[q]) /\ ed[q] \in Editor
                              /\ ~Preserving(ed[q]) /\ ~Failed(ed[q])
    BY <1>1, <1>4, Solitude DEF Others, IInv, Shapes, Types, Idle
  <1>8. /\ mail[m].there /\ mail[m].path = None /\ (m \notin unlocked => mail[m].lock = p)
        /\ \A q \in Proc \ {p} : /\ ed[q].mail # m /\ ed[q].best # m
                                 /\ Building(ed[q]) => ed[q].fd # m
    BY <1>1 DEF IInv, Builds, At
  <1>9. \A n \in Mail : mail[n].path # o.bak
    BY <1>2, <1>5 DEF IInv, Names
  <1>10. /\ mail'[m].path = o.bak
         /\ \A n \in Mail : /\ mail'[n].there = mail[n].there /\ mail'[n].lock = mail[n].lock
                            /\ n # m => mail'[n].path = mail[n].path
    OBVIOUS
  <1>m. m = o.fd
    OBVIOUS
  <1> HIDE DEF m
  <1> USE DEF IInv
  <1>11. Shapes'
    BY <1>4, <1>5, <1>7 DEF Shapes
  <1>12. Lonely'
    <2> SUFFICES ASSUME Preserving(e) \/ Failed(e), NEW r \in Proc \ {p}
                 PROVE  ed[r].pc = "never"
      BY <1>4, <1>7 DEF Lonely, Alone, At
    <2> QED BY <1>5 DEF Lonely, Alone, At
  <1>13. Locks'
    <2> SUFFICES ASSUME NEW q \in Proc
                 PROVE  /\ \A n \in Mail : mail'[n].lock = q => n \in {ed'[q].mail, ed'[q].fd, ed'[q].best}
                        /\ ed'[q].pc = "scanread" => mail'[ed'[q].fd].lock = q
                        /\ ed'[q].pc = "scanlock" => mail'[ed'[q].fd].lock # q
                        /\ ed'[q].best # None => mail'[ed'[q].best].lock = q
      BY DEF Locks, At
    <2>1. CASE q = p
      <3>1. \A n \in Mail : mail[n].lock = p => n = m
        BY <1>2, <1>m DEF Locks
      <3> QED BY <2>1, <3>1, <1>2, <1>3, <1>4, <1>10
    <2>2. CASE q # p
      <3>1. /\ \A n \in Mail : mail[n].lock = q => n \in {ed[q].mail, ed[q].fd, ed[q].best}
            /\ ed[q].pc = "scanread" => mail[ed[q].fd].lock = q /\ ed[q].fd \in Mail
            /\ ed[q].pc = "scanlock" => mail[ed[q].fd].lock # q /\ ed[q].fd \in Mail
            /\ ed[q].best # None => mail[ed[q].best].lock = q /\ ed[q].best \in Mail
        BY <2>2, <1>7 DEF Locks, At, Editor, Shape
      <3> QED BY <2>2, <3>1, <1>7, <1>10
    <2> QED BY <2>1, <2>2
  <1>14. Builds'
    <2> SUFFICES ASSUME NEW q \in Proc \ {p}, Building(ed[q])
                 PROVE  /\ mail'[ed[q].fd].there /\ mail'[ed[q].fd].path = None
                        /\ ed[q].pc = "header" /\ ed[q].fd \notin unlocked => mail'[ed[q].fd].lock = q
                        /\ ed[q].pc = "lock" => mail'[ed[q].fd].lock # q
                        /\ \A r \in Proc \ {q} : ed'[r].mail # ed[q].fd /\ ed'[r].best # ed[q].fd
                                              /\ (Building(ed'[r]) => ed'[r].fd # ed[q].fd)
      BY <1>1, <1>4, <1>5, <1>7 DEF Builds, At, Preserving
    <2>1. ed[q].fd # m /\ ed[q].fd \in Mail /\ ed[q].fd # None
      BY <1>2, <1>7, <1>8 DEF Building, Shape, Editor
    <2> QED BY <2>1, <1>2, <1>3, <1>4, <1>5, <1>7, <1>10 DEF Builds, At
  <1>15. OnePath'
    <2>1. \A a, n \in Mail : mail'[a].path = mail'[n].path /\ mail'[a].path # None => a = n
      <3> SUFFICES ASSUME NEW a \in Mail, NEW n \in Mail, mail'[a].path = mail'[n].path, mail'[a].path # None, a # n
                   PROVE  FALSE
        OBVIOUS
      <3>1. mail[a].path # o.bak /\ mail[n].path # o.bak
        BY <1>9
      <3>2. a # m /\ n # m
        BY <3>1, <1>10
      <3> QED BY <3>2, <1>10 DEF OnePath
    <2>2. \A a \in Mail : mail'[a].path # None => mail'[a].there
      <3> SUFFICES ASSUME NEW a \in Mail, mail'[a].path # None PROVE mail'[a].there
        OBVIOUS
      <3>1. CASE a = m
        BY <3>1, <1>8, <1>10
      <3>2. CASE a # m
        BY <3>2, <1>10 DEF OnePath
      <3> QED BY <3>1, <3>2
    <2> QED BY <2>1, <2>2 DEF OnePath
  <1>16. \A q \in Proc \ {p} : ed[q].bak # o.bak /\ ed[q].copy = None /\ ed[q].mail # m
    <2> SUFFICES ASSUME NEW q \in Proc \ {p} PROVE ed[q].bak # o.bak
      BY <1>7, <1>8 DEF Preserving
    <2>1. ed[q].mail # o.mail
      BY <1>2, <1>8
    <2> QED BY <2>1, <1>2 DEF Shares
  <1>17. Names'
    <2>1. /\ Named(e) /\ mail'[e.mail].path = e.bak /\ e.copy = None
      BY <1>1, <1>3, <1>5, <1>10
    <2>2. ASSUME NEW q \in Proc \ {p}
          PROVE  /\ ed[q].bak # None /\ ~Named(ed[q]) => \A n \in Mail : mail'[n].path # ed[q].bak
                 /\ Named(ed[q]) =>
                       \/ mail'[ed[q].mail].path = ed[q].bak
                       \/ mail'[ed[q].mail].path = None /\ (~bak[ed[q].bak].there \/ Failed(ed[q]))
      <3>1. ed[q].bak # None /\ ~Named(ed[q]) => \A n \in Mail : mail'[n].path # ed[q].bak
        BY <1>10, <1>16 DEF Names
      <3>2. Named(ed[q]) => ed[q].mail \in Mail /\ mail'[ed[q].mail].path = mail[ed[q].mail].path
        BY <1>7, <1>10, <1>16 DEF Named, Editor
      <3> QED BY <3>1, <3>2 DEF Names
    <2> QED BY <2>1, <2>2, <1>1, <1>4, <1>7, <1>16 DEF Names
  <1>18. Shares'
    BY <1>1, <1>2, <1>3, <1>4, <1>7 DEF Shares
  <1>19. Holdings'
    <2>1. Holding(p)'
      <3>1. SUFFICES ASSUME m \notin unlocked PROVE Holding(p)'
        BY <1>1, <1>3, <1>4 DEF Holding
      <3>2. bak[o.bak].there
        BY <1>1, <1>2, <3>1 DEF Holding, At
      <3> QED BY <1>1, <1>2, <1>3, <1>4, <1>5, <1>8, <1>10, <3>1, <3>2 DEF Holding, At
    <2>2. ASSUME NEW q \in Proc \ {p} PROVE Holding(q)'
      <3>1. Holding(q) /\ ed'[q] = ed[q] /\ ed[q].mail # m /\ (Named(ed[q]) => ed[q].mail \in Mail)
        BY <1>7, <1>8 DEF Holdings, Named, Editor
      <3>2. Named(ed[q]) => /\ mail'[ed[q].mail].there = mail[ed[q].mail].there
                            /\ mail'[ed[q].mail].path = mail[ed[q].mail].path
                            /\ mail'[ed[q].mail].lock = mail[ed[q].mail].lock
        BY <3>1, <1>10
      <3> QED BY <3>1, <3>2, <1>1 DEF Holding, At
    <2> QED BY <2>1, <2>2 DEF Holdings
  <1>20. Copies' /\ Removed'
    BY <1>1, <1>3, <1>4, <1>7 DEF Copies, Removed, At
  <1>21. Owed'
    <2> SUFFICES ASSUME NEW k \in owed
                 PROVE  /\ mail'[k.mail].there /\ mail'[k.mail].path = k.bak /\ k.mail \notin unlocked
                        /\ bak[k.bak].there /\ bak[k.bak].data = k.data /\ ~bak[k.bak].x
                        /\ \A q \in Proc : /\ k.bak \notin {ed'[q].bak, ed'[q].copy} /\ k.mail # ed'[q].mail
                                           /\ ed'[q].pc \notin Scanning => k.mail # ed'[q].fd
      BY <1>1 DEF Owed
    <2>1. /\ mail[k.mail].there /\ mail[k.mail].path = k.bak /\ k.mail \notin unlocked
          /\ bak[k.bak].there /\ bak[k.bak].data = k.data /\ ~bak[k.bak].x
          /\ \A q \in Proc : /\ k.bak \notin {ed[q].bak, ed[q].copy} /\ k.mail # ed[q].mail
                             /\ ed[q].pc \notin Scanning => k.mail # ed[q].fd
      BY DEF Owed
    <2>2. k.mail \in Mail /\ k.mail # None /\ k.mail # m
      BY <1>1, <1>2, <2>1 DEF Types
    <2> QED BY <1>2, <1>3, <1>4, <1>7, <1>10, <2>1, <2>2
  <1>22. Accounted'
    <2>1. \A q \in Proc : ed'[q].bak = ed[q].bak /\ ed'[q].copy = ed[q].copy
      BY <1>3, <1>4, <1>7
    <2>2. ed'[p].mail = m /\ o.mail = m /\ o.fd = m
      BY <1>2, <1>3, <1>4, <1>m
    <2>3. \A n \in Mail : mail'[n].there => mail[n].there
      BY <1>10
    <2>5. \A q \in Proc \ {p} : ed'[q] = ed[q]
      BY <1>7
    <2> QED BY <1>1, <2>1, <2>2, <2>3, <2>5 DEF Accounted
  <1> QED
    BY <1>6, <1>11, <1>12, <1>13, <1>14, <1>15, <1>17, <1>18, <1>19, <1>20, <1>21, <1>22

HandsOver(p, f) ==
    /\ ed[p].pc = "header" /\ ed[p].copy # None
    /\ f \in [Mail -> MailFile] /\ f[ed[p].fd].path = ed[p].copy
    /\ \A n \in Mail : /\ f[n].there = mail[n].there /\ f[n].lock = mail[n].lock
                       /\ n # ed[p].fd => f[n].path = mail[n].path
    /\ mail' = Unlock(f, p, {ed[p].fd})
    /\ Becomes(p, [ed[p] EXCEPT !.pc = "cmd", !.fd = None, !.copy = None])
    /\ owed' = owed \cup Pair(ed[p].fd, ed[p].copy)
    /\ left' = left \cup {<<"mail", ed[p].fd>>, <<"bak", ed[p].copy>>}
    /\ UNCHANGED <<disk, ver, bak, unlocked>>

\* The headers of :preserve's mail file, which is then closed: the copy is the
\* user's.
LEMMA HandOverStep ==
    ASSUME BoundsAssumption, ProcAssumption, IInv, NEW p \in Proc, NEW f, HandsOver(p, f)
    PROVE  IInv'
  <1> DEFINE o == ed[p]
             m == o.fd
             c == o.copy
             e == [o EXCEPT !.pc = "cmd", !.fd = None, !.copy = None]
  <1>1. /\ Types /\ TypeOK /\ o \in Editor /\ Shape(o) /\ Holding(p) /\ o.pc = "header" /\ Building(o)
        /\ o.copy # None /\ Alone(p)
        /\ disk' = disk /\ ver' = ver /\ bak' = bak /\ unlocked' = unlocked
    BY Known DEF HandsOver, Building, IInv, Lonely, Preserving
  <1>2. /\ m \in Mail /\ m # None /\ o.bak # None /\ o.bak \in Bak /\ o.best = None /\ o.mail # m /\ o.mail # None
        /\ o.mail \in Mail /\ o.on /\ ~o.first /\ c \in Bak /\ c # None /\ c # o.bak
        /\ \A n \in Mail : n # None
    <2>1. o \in Editor /\ Shape(o) /\ o.pc = "header" /\ o.copy # None /\ Types
      BY <1>1
    <2>2. m # None /\ o.bak # None /\ o.best = None /\ o.mail # m /\ o.mail # None /\ o.on /\ ~o.first /\ c # o.bak
      BY <2>1 DEF Shape, Idle, Scanning
    <2>3. o.fd \in Mail \cup {None} /\ o.bak \in Bak \cup {None} /\ o.mail \in Mail \cup {None}
          /\ o.copy \in Bak \cup {None}
      BY <2>1 DEF Editor
    <2> QED BY <2>1, <2>2, <2>3 DEF Types
  <1>3. Solo(p)
    BY <1>1, Alone1 DEF Idle, Scanning
  <1>4. /\ e.pc = "cmd" /\ e.copy = None /\ e.bak = o.bak /\ e.mail = o.mail /\ e.fd = None /\ e.best = o.best
        /\ e.todo = o.todo /\ e.on = o.on /\ e.then = o.then /\ e.first = o.first /\ e.mod = o.mod
        /\ e.dirty = o.dirty /\ e.text = o.text /\ e \in Editor
    <2>1. e = [o EXCEPT !.pc = "cmd", !.fd = None, !.copy = None] /\ "cmd" \in Point
      BY Points
    <2> HIDE DEF e
    <2>3. e \in Editor
      BY <1>1, <2>1 DEF Editor
    <2> QED BY <1>1, <2>1, <2>3 DEF Editor
  <1>5. Becomes(p, e) /\ owed' = owed \cup Pair(m, c) /\ left' = left \cup {<<"mail", m>>, <<"bak", c>>}
    BY DEF HandsOver
  <1> HIDE DEF e
  <1>6. ed' \in [Proc -> Editor] /\ ed'[p] = e /\ Others(p)
    BY <1>1, <1>4, <1>5, BecomesFacts
  <1>7. /\ mail' \in [Mail -> MailFile] /\ mail'[m].path = c
        /\ \A n \in Mail : /\ mail'[n].there = mail[n].there
                           /\ n # m => mail'[n].path = mail[n].path
                           /\ mail'[n].lock = IF n = m /\ mail[n].lock = p THEN None ELSE mail[n].lock
    <2> DEFINE M == {m}
    <2>1. mail' = Unlock(f, p, M) /\ \A n \in Mail : n \in M <=> n = m
      BY DEF HandsOver
    <2>2. /\ f \in [Mail -> MailFile] /\ f[m].path = c
          /\ \A n \in Mail : /\ f[n].there = mail[n].there /\ f[n].lock = mail[n].lock
                             /\ n # m => f[n].path = mail[n].path
      BY DEF HandsOver
    <2> HIDE DEF M
    <2>3. /\ mail' \in [Mail -> MailFile]
          /\ \A n \in Mail : /\ mail'[n].there = f[n].there /\ mail'[n].path = f[n].path
                             /\ mail'[n].lock = IF n \in M /\ f[n].lock = p THEN None ELSE f[n].lock
      BY <2>1, <2>2, UnlockFacts
    <2> QED BY <1>2, <2>1, <2>2, <2>3
  <1> HIDE DEF m, c
  <1>8. /\ owed' \subseteq [mail : Mail, bak : Bak, data : Version]
        /\ \A k \in owed' : k \in owed \/ (k.mail = m /\ k.bak = c /\ k.data = bak[c].data)
    <2>1. CASE bak[c].data \in Version
      <3> DEFINE d == bak[c].data
                 k == [mail |-> m, bak |-> c, data |-> d]
      <3>1. owed' = owed \cup {k}
        BY <2>1, <1>5 DEF Pair
      <3>2. k \in [mail : Mail, bak : Bak, data : Version] /\ k.mail = m /\ k.bak = c /\ k.data = d
        BY <2>1, <1>2
      <3> HIDE DEF k
      <3> QED BY <3>1, <3>2, <1>1 DEF Types
    <2>2. CASE bak[c].data \notin Version
      <3>1. owed' = owed
        BY <2>2, <1>5 DEF Pair
      <3> QED BY <3>1, <1>1 DEF Types
    <2> QED BY <2>1, <2>2
  <1>9. TypeOK'
    <2>1. left' \subseteq Files
      BY <1>1, <1>2, <1>5 DEF TypeOK, Files
    <2> QED BY <1>1, <1>6, <1>7, <1>8, <2>1 DEF TypeOK
  <1>10. /\ Shape(e) /\ ~Building(e) /\ ~Failed(o) /\ ~Failed(e) /\ Named(e) /\ Named(o)
         /\ e.pc \notin Idle \cup Scanning
    <2>1. Shape(e)
      BY <1>1, <1>2, <1>4 DEF Shape, Idle, Scanning, Setup
    <2> QED BY <1>1, <1>2, <1>4, <2>1 DEF Named, Building, Failed, Idle, Scanning
  <1>11. /\ mail[m].there /\ mail[m].path = None /\ m \notin unlocked
         /\ \A n \in Mail : mail[n].path # c
         /\ bak[c].there /\ ~bak[c].x
         /\ mail[o.mail].path = o.bak \/ (mail[o.mail].path = None /\ ~bak[o.bak].there)
    BY <1>1, <1>3, <1>10 DEF Solo, m, c
  <1>12. Holding(p)'
    <2>1. SUFFICES ASSUME o.mail \notin unlocked PROVE Holding(p)'
      BY <1>1, <1>4, <1>6 DEF Holding
    <2>2. /\ bak[o.bak].there /\ mail[o.mail].there /\ mail[o.mail].lock = p /\ mail[o.mail].path = o.bak
          /\ o.on /\ ~o.first => ~bak[o.bak].x
          /\ o.on /\ ~o.first /\ o.mod /\ ~o.dirty => bak[o.bak].data = o.text
      BY <1>1, <1>2, <1>10, <2>1 DEF Holding, At
    <2>3. /\ bak'[e.bak].there /\ mail'[e.mail].there /\ mail'[e.mail].lock = p /\ mail'[e.mail].path = e.bak
          /\ e.on /\ ~e.first => ~bak'[e.bak].x
          /\ e.on /\ ~e.first /\ e.mod /\ ~e.dirty => bak'[e.bak].data = e.text
      BY <1>1, <1>2, <1>4, <1>7, <2>2
    <2> QED BY <1>6, <2>3 DEF Holding
  <1>13. OnePath'
    <2>1. \A a, n \in Mail : mail'[a].path = mail'[n].path /\ mail'[a].path # None => a = n
      BY <1>7, <1>11 DEF IInv, OnePath
    <2>2. \A a \in Mail : mail'[a].path # None => mail'[a].there
      BY <1>7, <1>11 DEF IInv, OnePath
    <2> QED BY <2>1, <2>2 DEF OnePath
  <1>14. \A k \in owed' :
          /\ mail'[k.mail].there /\ mail'[k.mail].path = k.bak /\ k.mail \notin unlocked
          /\ bak[k.bak].there /\ bak[k.bak].data = k.data /\ ~bak[k.bak].x
          /\ k.bak \notin {e.bak, e.copy} /\ k.mail \notin {e.mail, e.fd}
    <2> SUFFICES ASSUME NEW k \in owed'
                 PROVE  /\ mail'[k.mail].there /\ mail'[k.mail].path = k.bak /\ k.mail \notin unlocked
                        /\ bak[k.bak].there /\ bak[k.bak].data = k.data /\ ~bak[k.bak].x
                        /\ k.bak \notin {e.bak, e.copy} /\ k.mail \notin {e.mail, e.fd}
      OBVIOUS
    <2>1. CASE k \in owed
      <3>1. /\ mail[k.mail].there /\ mail[k.mail].path = k.bak /\ k.mail \notin unlocked
            /\ bak[k.bak].there /\ bak[k.bak].data = k.data /\ ~bak[k.bak].x
            /\ k.bak \notin {o.bak, o.copy} /\ k.mail \notin {o.mail, o.fd}
        BY <1>3, <2>1 DEF Solo
      <3>2. k.mail \in Mail /\ k.mail # None /\ k.bak # None /\ k.mail # m
        BY <1>1, <2>1, <3>1 DEF Types, m
      <3> QED BY <1>4, <1>7, <3>1, <3>2
    <2>2. CASE k \notin owed
      BY <1>2, <1>4, <1>7, <1>8, <1>11, <2>2
    <2> QED BY <2>1, <2>2
  <1>15. /\ \A b \in Bak : bak[b].there => <<"bak", b>> \in left' \/ b = e.bak \/ b = e.copy
         /\ \A n \in Mail : mail'[n].there => <<"mail", n>> \in left' \/ n = e.mail \/ n = e.fd
    <2>1. left \subseteq left' /\ <<"mail", m>> \in left' /\ <<"bak", c>> \in left'
      BY <1>5
    <2>2. \A b \in Bak : bak[b].there => <<"bak", b>> \in left \/ b = o.bak \/ b = c
      BY <1>3 DEF Solo, c
    <2>3. \A n \in Mail : mail'[n].there => <<"mail", n>> \in left \/ n = o.mail \/ n = m
      BY <1>3, <1>7 DEF Solo, m
    <2> QED BY <1>4, <2>1, <2>2, <2>3
  <1>16. \A n \in Mail : mail'[n].lock = None \/ (mail'[n].lock = p /\ n \in {e.mail, e.fd})
    <2>1. \A n \in Mail : mail[n].lock = None \/ (mail[n].lock = p /\ n \in {o.mail, m})
      BY <1>3 DEF Solo, m
    <2> QED BY <1>4, <1>7, <2>1
  <1>17. \/ mail'[e.mail].path = e.bak
         \/ mail'[e.mail].path = None /\ (~bak'[e.bak].there \/ Failed(e))
    BY <1>1, <1>2, <1>4, <1>7, <1>11
  <1>18. Solo(p)'
    BY <1>1, <1>4, <1>6, <1>10, <1>12, <1>13, <1>14, <1>15, <1>16, <1>17 DEF Solo, At
  <1> QED BY <1>1, <1>6, <1>9, <1>18, Alone2

\* The headers name the backing file, or the copy of it.
LEMMA WriteHeaderStep ==
    ASSUME BoundsAssumption, ProcAssumption, IInv, NEW p \in Proc, WriteHeader(p)
    PROVE  IInv'
  <1> DEFINE o == ed[p]
             m == o.fd
             b == IF o.copy = None THEN o.bak ELSE o.copy
             f == [Newest(m) EXCEPT ![m].path = b]
  <1>1. /\ Types /\ TypeOK /\ o \in Editor /\ Shape(o) /\ o.pc = "header"
        /\ UNCHANGED <<disk, ver, bak, unlocked>>
    BY Known DEF WriteHeader, At
  <1>2. m \in Mail /\ b \in Bak
    <2>1. o.fd # None /\ o.bak # None
      BY <1>1 DEF Shape, Idle, Scanning
    <2>2. o.fd \in Mail \cup {None} /\ o.bak \in Bak \cup {None} /\ o.copy \in Bak \cup {None}
      BY <1>1 DEF Editor
    <2> QED BY <2>1, <2>2
  <1>3. /\ f \in [Mail -> MailFile] /\ f[m].path = b
        /\ \A n \in Mail : /\ f[n].there = mail[n].there /\ f[n].lock = mail[n].lock
                           /\ n # m => f[n].path = mail[n].path
    <2> DEFINE w == Newest(m)
    <2>1. /\ w \in [Mail -> MailFile]
          /\ \A k \in Mail : /\ w[k].there = mail[k].there /\ w[k].path = mail[k].path /\ w[k].lock = mail[k].lock
      BY <1>1, <1>2, NewestFacts
    <2>2. f = [w EXCEPT ![m].path = b]
      OBVIOUS
    <2> HIDE DEF w, f, m, b
    <2>3. /\ f \in [Mail -> MailFile] /\ f[m].path = b
          /\ \A n \in Mail : /\ f[n].there = w[n].there /\ f[n].lock = w[n].lock
                             /\ n # m => f[n].path = w[n].path
      BY <1>1, <1>2, <2>1, <2>2, PathFacts
    <2> QED BY <2>1, <2>3
  <1>4. CASE /\ o.copy = None /\ mail' = f /\ UNCHANGED <<owed, left>>
             /\ Becomes(p, [o EXCEPT !.pc = "snap", !.fd = None])
    <2> HIDE DEF f
    <2> QED BY <1>1, <1>3, <1>4, NameStep
  <1>5. CASE /\ o.copy # None /\ mail' = Unlock(f, p, {m})
             /\ Becomes(p, [o EXCEPT !.pc = "cmd", !.fd = None, !.copy = None])
             /\ owed' = owed \cup Pair(m, b) /\ left' = left \cup {<<"mail", m>>, <<"bak", b>>}
    <2>1. b = o.copy
      BY <1>5
    <2> HIDE DEF f
    <2>2. HandsOver(p, f)
      BY <1>1, <1>3, <1>5, <2>1 DEF HandsOver
    <2> QED BY <2>2, HandOverStep
  <1> QED BY <1>4, <1>5 DEF WriteHeader

-----------------------------------------------------------------------------
(* The machine. *)

\* scripts/virecover: nothing that was promised looks unmodified to it.
LEMMA BootStep ==
    ASSUME BoundsAssumption, ProcAssumption, IInv, Boot
    PROVE  IInv'
  <1> DEFINE old == {b \in Bak : bak[b].x \/ bak[b].data = Empty}
             bad == {m \in Mail : mail[m].path = None \/ mail[m].path \in old}
             nb == NoBakFile
             nm == NoMailFile
  <1>1. /\ Types /\ TypeOK /\ ed' = ed /\ disk' = disk /\ ver' = ver /\ owed' = owed /\ unlocked' = unlocked
        /\ \A p \in Proc : ed[p].pc \in Idle
    BY Distinct DEF Types, TypeOK, IInv, Boot, Idle
  <1>2. /\ bak' = [b \in Bak |-> IF b \in old THEN nb ELSE bak[b]]
        /\ mail' = [m \in Mail |-> IF m \in bad THEN nm ELSE mail[m]]
        /\ left' = left \ (({"bak"} \X old) \cup ({"mail"} \X bad))
    BY DEF Boot
  <1>3. nb \in BakFile /\ ~nb.there
    BY DEF BakFile, NoBakFile
  <1>4. nm \in MailFile /\ ~nm.there /\ nm.path = None /\ nm.lock = None
    <2>1. 0 \in 0..MaxMail
      BY DEF BoundsAssumption
    <2> QED BY <2>1 DEF MailFile, NoMailFile
  <1> HIDE DEF nb, nm
  <1>5. /\ bak' \in [Bak -> BakFile] /\ mail' \in [Mail -> MailFile]
        /\ \A b \in Bak : IF b \in old THEN ~bak'[b].there ELSE bak'[b] = bak[b]
        /\ \A m \in Mail : IF m \in bad THEN ~mail'[m].there /\ mail'[m].path = None /\ mail'[m].lock = None
                                        ELSE mail'[m] = mail[m]
    BY <1>1, <1>2, <1>3, <1>4 DEF Types
  <1>6. /\ left' \subseteq left
        /\ \A b \in Bak : b \notin old /\ <<"bak", b>> \in left => <<"bak", b>> \in left'
        /\ \A m \in Mail : m \notin bad /\ <<"mail", m>> \in left => <<"mail", m>> \in left'
    BY <1>2
  <1>7. TypeOK' /\ Types'
    BY <1>1, <1>5, <1>6 DEF TypeOK, Types
  <1>8. \A p \in Proc : /\ ed[p].bak = None /\ ed[p].mail = None /\ ed[p].copy = None /\ ed[p].fd = None
                        /\ ed[p].best = None /\ ed[p].pc \notin {"scanread", "scanlock", "unlink", "lock", "header"}
                        /\ ~Building(ed[p]) /\ ~Named(ed[p])
    BY <1>1 DEF IInv, Shapes, Shape, Idle, Building, Named
  <1> USE DEF IInv
  <1>9. Shapes' /\ Lonely'
    BY <1>1 DEF Shapes, Lonely, Alone, At
  <1>10. Locks'
    <2>1. \A m \in Mail, p \in Proc : mail[m].lock # p /\ p # None
      BY <1>1, <1>8 DEF Locks, Types
    <2> QED BY <1>1, <1>5, <1>8, <2>1 DEF Locks, At
  <1>11. Builds' /\ Names' /\ Shares' /\ Holdings' /\ Copies' /\ Removed'
    BY <1>1, <1>8 DEF Builds, Names, Shares, Holdings, Holding, Copies, Removed, At
  <1>12. OnePath'
    BY <1>5 DEF OnePath
  <1>13. Owed'
    <2> SUFFICES ASSUME NEW k \in owed
                 PROVE  /\ mail'[k.mail].there /\ mail'[k.mail].path = k.bak /\ k.mail \notin unlocked
                        /\ bak'[k.bak].there /\ bak'[k.bak].data = k.data /\ ~bak'[k.bak].x
                        /\ \A q \in Proc : /\ k.bak \notin {ed[q].bak, ed[q].copy} /\ k.mail # ed[q].mail
                                           /\ ed[q].pc \notin Scanning => k.mail # ed[q].fd
      BY <1>1 DEF Owed
    <2>1. /\ mail[k.mail].there /\ mail[k.mail].path = k.bak /\ k.mail \notin unlocked
          /\ bak[k.bak].there /\ bak[k.bak].data = k.data /\ ~bak[k.bak].x
          /\ \A q \in Proc : /\ k.bak \notin {ed[q].bak, ed[q].copy} /\ k.mail # ed[q].mail
                             /\ ed[q].pc \notin Scanning => k.mail # ed[q].fd
      BY DEF Owed
    <2>2. k.mail \in Mail /\ k.bak \in Bak /\ k.data \in Version /\ k.bak # None
      BY <1>1 DEF Types
    <2>3. k.data # Empty
      BY <2>2, Distinct
    <2>4. k.bak \notin old /\ k.mail \notin bad
      BY <2>1, <2>2, <2>3
    <2> QED BY <1>5, <2>1, <2>2, <2>4
  <1>14. Accounted'
    BY <1>1, <1>5, <1>6 DEF Accounted
  <1> QED BY <1>7, <1>9, <1>10, <1>11, <1>12, <1>13, <1>14

\* The recovery directory is empty, and nobody runs.
LEMMA InitIInv ==
    ASSUME BoundsAssumption, ProcAssumption, Init
    PROVE  IInv
  <1> DEFINE z == Nobody
             y == [z EXCEPT !.pc = "never"]
             nb == NoBakFile
             nm == NoMailFile
  <1>1. /\ z \in Editor /\ z.pc = "none" /\ z.then = "none" /\ z.bak = None
        /\ z.mail = None /\ z.fd = None /\ z.copy = None /\ ~z.on /\ z.first
        /\ ~z.mod /\ ~z.dirty /\ z.todo = {} /\ z.best = None
    BY NobodyFacts
  <1>2. PICK crowd \in Crowds : ed = [p \in Proc |-> IF p \in crowd THEN z ELSE y]
    BY DEF Init
  <1>3. /\ y \in Editor /\ y.pc = "never" /\ y.then = "none" /\ y.bak = None
        /\ y.mail = None /\ y.fd = None /\ y.copy = None /\ ~y.on /\ y.first
        /\ ~y.mod /\ ~y.dirty /\ y.best = None
    <2>1. "never" \in Point
      BY DEF Point
    <2> HIDE DEF z
    <2>2. y \in Editor
      BY <1>1, <2>1 DEF Editor
    <2> QED BY <1>1, <2>2 DEF Editor
  <1> HIDE DEF z, y
  <1>4. /\ ed \in [Proc -> Editor]
        /\ \A p \in Proc : /\ ed[p].pc \in Idle /\ ed[p].then = "none" /\ ed[p].bak = None
                           /\ ed[p].mail = None /\ ed[p].fd = None /\ ed[p].copy = None /\ ~ed[p].on
                           /\ ed[p].first /\ ~ed[p].mod /\ ~ed[p].dirty /\ ed[p].best = None
    BY <1>1, <1>2, <1>3 DEF Idle
  <1>5. nb \in BakFile /\ ~nb.there
    BY DEF BakFile, NoBakFile
  <1>6. nm \in MailFile /\ ~nm.there /\ nm.path = None /\ nm.lock = None
    <2>1. 0 \in 0..MaxMail
      BY DEF BoundsAssumption
    <2> QED BY <2>1 DEF MailFile, NoMailFile
  <1>7. /\ bak = [b \in Bak |-> nb] /\ mail = [m \in Mail |-> nm]
        /\ owed = {} /\ left = {} /\ unlocked = {} /\ disk = 0 /\ ver = 0
    BY DEF Init
  <1> HIDE DEF nb, nm
  <1>8. /\ bak \in [Bak -> BakFile] /\ mail \in [Mail -> MailFile]
        /\ \A b \in Bak : ~bak[b].there
        /\ \A m \in Mail : ~mail[m].there /\ mail[m].path = None /\ mail[m].lock = None
    BY <1>5, <1>6, <1>7
  <1>9. TypeOK
    <2>1. disk \in Version /\ ver \in Version
      BY <1>7 DEF BoundsAssumption, Version
    <2> QED BY <1>4, <1>7, <1>8, <2>1 DEF TypeOK
  <1>10. \A p \in Proc : Shape(ed[p]) /\ ~Building(ed[p]) /\ ~Named(ed[p]) /\ ~Failed(ed[p]) /\ ~Preserving(ed[p])
    BY <1>4 DEF Shape, Building, Named, Failed, Preserving, Idle, Scanning, Setup
  <1>11. Shapes /\ Lonely /\ Builds /\ Names /\ Shares /\ Holdings /\ Copies
    BY <1>4, <1>10 DEF Shapes, Lonely, Builds, Names, Shares, Holdings, Holding, Copies
  <1>12. Locks /\ Removed
    BY <1>4, <1>8, Distinct DEF Locks, Removed, At, Idle
  <1>13. OnePath /\ Owed /\ Accounted
    BY <1>7, <1>8 DEF OnePath, Owed, Accounted
  <1> QED BY <1>9, <1>11, <1>12, <1>13 DEF IInv

\* Every step preserves the invariant.
LEMMA Inductive ==
    ASSUME BoundsAssumption, ProcAssumption, IInv, [Next]_vars
    PROVE  IInv'
  <1>1. CASE Boot
    BY <1>1, BootStep
  <1>2. ASSUME NEW p \in Proc, Session(p) PROVE IInv'
    <2>1. CASE Open(p) \/ Begin(p) \/ Change(p) \/ Write(p) \/ Quit(p) \/ Hangup(p) \/ EndCommand(p)
      BY <2>1, OpenStep, BeginStep, ChangeStep, WriteStep, QuitStep, HangupStep, EndCommandStep
    <2>2. CASE LockMail(p) \/ WriteHeader(p) \/ HeaderFails(p) \/ BeginSnap(p) \/ EndSnap(p) \/ SnapFails(p)
               \/ Chmod(p)
      BY <2>2, LockMailStep, WriteHeaderStep, HeaderFailsStep, BeginSnapStep, EndSnapStep, SnapFailsStep, ChmodStep
    <2>3. CASE EndSync(p) \/ SyncFails(p) \/ Preserve(p) \/ PreserveSync(p) \/ BeginCopy(p) \/ EndCopy(p)
               \/ CopyFails(p)
      BY <2>3, EndSyncStep, SyncFailsStep, PreserveStep, PreserveSyncStep, BeginCopyStep, EndCopyStep, CopyFailsStep
    <2>4. CASE ExitNormal(p) \/ UnlinkBak(p) \/ UnlinkMail(p)
      BY <2>4, ExitNormalStep, UnlinkBakStep, UnlinkMailStep
    <2> QED BY <1>2, <2>1, <2>2, <2>3, <2>4 DEF Session
  <1>3. ASSUME NEW p \in Proc, Scanner(p) PROVE IInv'
    <2>1. CASE \E reads \in BOOLEAN : BeginScan(p, reads)
      BY <2>1, BeginScanStep
    <2>2. CASE \E m \in Mail : ScanOpen(p, m)
      BY <2>2, ScanOpenStep
    <2>3. CASE ScanLock(p) \/ ScanReject(p) \/ ScanAccept(p) \/ ScanEnds(p) \/ Recover(p)
      BY <2>3, ScanLockStep, ScanRejectStep, ScanAcceptStep, ScanEndsStep, RecoverStep
    <2> QED BY <1>3, <2>1, <2>2, <2>3 DEF Scanner
  <1>4. ASSUME NEW p \in Proc, Crash(p) PROVE IInv'
    BY <1>4, CrashStep
  <1>5. CASE UNCHANGED vars
    <2>1. /\ disk' = disk /\ ver' = ver /\ bak' = bak /\ mail' = mail /\ ed' = ed /\ owed' = owed
          /\ left' = left /\ unlocked' = unlocked
      BY <1>5 DEF vars
    <2>2. TypeOK' /\ Shapes' /\ Lonely' /\ Locks' /\ Builds' /\ OnePath' /\ Names'
      BY <2>1 DEF IInv, TypeOK, Shapes, Lonely, Alone, Locks, Builds, OnePath, Names, At
    <2>3. Shares' /\ Holdings' /\ Copies' /\ Removed' /\ Owed' /\ Accounted'
      BY <2>1 DEF IInv, Shares, Holdings, Holding, Copies, Removed, Owed, Accounted, At
    <2> QED BY <2>2, <2>3 DEF IInv
  <1> QED BY <1>1, <1>2, <1>3, <1>4, <1>5 DEF Next

-----------------------------------------------------------------------------
(* The theorems. *)

\* The invariant holds in every reachable state.
THEOREM InvariantHolds == Spec => []IInv
  <1>1. Init => IInv
    BY InitIInv, BoundsAssumption, ProcAssumption
  <1>2. IInv /\ [Next]_vars => IInv'
    BY Inductive, BoundsAssumption, ProcAssumption
  <1> QED BY <1>1, <1>2, PTL DEF Spec

\* The variables have their types: processes are where rcv_init(), rcv_sync()
\* and rcv_read() can be, and hold files that exist as names.
THEOREM TypesHold == Spec => []TypeOK
  <1>1. IInv => TypeOK
    BY DEF IInv
  <1> QED BY <1>1, InvariantHolds, PTL

\* "After the file has been modified the b+tree file exists and is mode 600, the
\* mail recovery file exists, and is exclusively locked" (recover.c), and the
\* text of a session that waits for a command is in its backing file: whatever
\* any number of editors, listings and recoveries do, if the session got the lock.
THEOREM LiveSessionsAreSafe == Spec => []LiveSessionSafe
  <1>1. ASSUME IInv PROVE LiveSessionHasItsFiles
    <2> SUFFICES ASSUME NEW p \in Proc, ed[p].on, ed[p].mail # None, ed[p].mail \notin unlocked, ed[p].pc # "unlink"
                 PROVE  /\ mail[ed[p].mail].there /\ mail[ed[p].mail].lock = p
                        /\ mail[ed[p].mail].path = ed[p].bak
                        /\ bak[ed[p].bak].there /\ (ed[p].first \/ ~bak[ed[p].bak].x)
                        /\ \A q \in Proc \ {p} : ed[q].bak # ed[p].bak
      BY DEF LiveSessionHasItsFiles, Safe
    <2>1. Shape(ed[p]) /\ Holding(p)
      BY <1>1 DEF IInv, Shapes, Holdings
    <2>2. ed[p].bak # None /\ Named(ed[p]) /\ ~Failed(ed[p])
      BY <2>1 DEF Shape, Named, Failed, Setup
    <2>3. \A q \in Proc \ {p} : ed[q].bak # ed[p].bak
      BY <1>1, <2>2 DEF IInv, Shares
    <2> QED BY <2>1, <2>2, <2>3 DEF Holding, At
  <1>2. ASSUME IInv PROVE SyncedWhenWaiting
    <2> SUFFICES ASSUME NEW p \in Proc, ed[p].pc = "wait", ed[p].on, ed[p].mail # None, ed[p].mail \notin unlocked,
                        ~ed[p].first, ed[p].mod
                 PROVE  bak[ed[p].bak].data = ed[p].text
      BY DEF SyncedWhenWaiting, Safe, At
    <2>1. Shape(ed[p]) /\ Holding(p)
      BY <1>2 DEF IInv, Shapes, Holdings
    <2>2. ed[p].bak # None /\ ~ed[p].dirty
      BY <2>1 DEF Shape, Idle, Scanning
    <2> QED BY <2>1, <2>2 DEF Holding
  <1>3. IInv => LiveSessionSafe
    BY <1>1, <1>2 DEF LiveSessionSafe
  <1> QED BY <1>3, InvariantHolds, PTL

\* What a session that died, hung up or was preserved has left to be recovered
\* stays as it was until somebody recovers it: no clean end, listing, failed
\* recovery or boot takes it away.
THEOREM PromisesAreKept == Spec => []PromisesKept
  <1>1. ASSUME IInv PROVE PromisesKept
    <2> SUFFICES ASSUME NEW o \in owed
                 PROVE  /\ mail[o.mail].there /\ mail[o.mail].path = o.bak
                        /\ bak[o.bak].there /\ bak[o.bak].data = o.data
                        /\ \A p \in Proc : mail[o.mail].lock = p => ed[p].pc \in Scanning
      BY DEF PromisesKept
    <2>1. /\ mail[o.mail].there /\ mail[o.mail].path = o.bak
          /\ bak[o.bak].there /\ bak[o.bak].data = o.data
          /\ \A p \in Proc : o.mail # ed[p].mail /\ (ed[p].pc \notin Scanning => o.mail # ed[p].fd)
      BY <1>1 DEF IInv, Owed
    <2>2. o.mail \in Mail /\ None \notin Mail
      BY <1>1, Distinct, BoundsAssumption, ProcAssumption DEF IInv, TypeOK
    <2>3. ASSUME NEW p \in Proc, mail[o.mail].lock = p, ed[p].pc \notin Scanning
          PROVE  FALSE
      <3>1. o.mail \in {ed[p].mail, ed[p].fd, ed[p].best}
        BY <1>1, <2>2, <2>3 DEF IInv, Locks
      <3>2. ed[p].best = None
        BY <1>1, <2>3 DEF IInv, Shapes, Shape
      <3> QED BY <2>1, <2>2, <2>3, <3>1, <3>2
    <2> QED BY <2>1, <2>3
  <1> QED BY <1>1, InvariantHolds, PTL

\* Every file in the recovery directory belongs to a running session, or to one
\* that died, hung up or preserved it: a clean end leaves nothing behind.
THEOREM CleanEndsLeaveNothing == Spec => []NothingLeftBehind
  <1>1. ASSUME IInv PROVE NothingLeftBehind
    <2> DEFINE accounted == left \cup UNION {FilesOf(ed[p]) : p \in Proc}
    <2>1. Types
      BY <1>1, Distinct, BoundsAssumption, ProcAssumption DEF IInv, TypeOK, Types
    <2>2. \A p \in Proc :
            /\ \A b \in Bak : b = ed[p].bak \/ b = ed[p].copy => <<"bak", b>> \in FilesOf(ed[p])
            /\ \A n \in Mail : n = ed[p].mail \/ (n = ed[p].fd /\ ed[p].pc \notin Scanning)
                                 => <<"mail", n>> \in FilesOf(ed[p])
      <3> SUFFICES ASSUME NEW p \in Proc
                   PROVE  /\ \A b \in Bak : b = ed[p].bak \/ b = ed[p].copy => <<"bak", b>> \in FilesOf(ed[p])
                          /\ \A n \in Mail : n = ed[p].mail \/ (n = ed[p].fd /\ ed[p].pc \notin Scanning)
                                               => <<"mail", n>> \in FilesOf(ed[p])
        OBVIOUS
      <3>1. ed[p] \in Editor
        BY <2>1 DEF Types
      <3> QED BY <2>1, <3>1, FilesOfFacts
    <2>3. left \subseteq accounted /\ \A p \in Proc : FilesOf(ed[p]) \subseteq accounted
      OBVIOUS
    <2>4. /\ \A b \in Bak : bak[b].there => <<"bak", b>> \in accounted
          /\ \A m \in Mail : mail[m].there => <<"mail", m>> \in accounted
      <3> HIDE DEF accounted
      <3> QED BY <1>1, <2>2, <2>3 DEF IInv, Accounted
    <2> QED BY <2>4 DEF NothingLeftBehind
  <1> QED BY <1>1, InvariantHolds, PTL
=============================================================================
