------------------------------ MODULE Session ------------------------------
(***************************************************************************)
(* File sessions: the commands that write files, switch a screen to        *)
(* another file, split it, hide it or close it, and the checks between the *)
(* user and the loss of text.  An FREF is a name the editor knows, an EXF  *)
(* an open file; a screen has one of each, and screens may share them.     *)
(*                                                                         *)
(* Ex commands run to completion, so the handlers are operators from state *)
(* to state (gs is what the code reaches from the GS structure) and an     *)
(* action is one command, with the failures of the system it meets (env).  *)
(* The text is abstracted to where it is: work says that the EXF holds     *)
(* text no file holds but, maybe, the temporary file kept.                 *)
(***************************************************************************)
EXTENDS FiniteSets, SequencesExt, Integers

CONSTANTS
    Name,       \* names of files a user may edit
    ReadOnly,   \* those that cannot be opened for writing
    Unreadable, \* those that cannot be opened for reading
    Tmp,        \* bound: what mkstemp() can return
    Null,       \* the null pointer
    MaxScr,     \* bound: screens
    MaxFref,    \* bound: FREF structures (then calloc fails)
    MaxExf,     \* bound: EXF structures (then calloc fails)
    MaxCmds,    \* bound: commands
    Autowrite   \* O_AUTOWRITE

ASSUME NameAssumption == /\ ReadOnly \subseteq Name /\ Unreadable \subseteq Name
                         /\ Name \cap Tmp = {} /\ Null \notin Name \cup Tmp
ASSUME BoundAssumption == /\ MaxScr \in Nat \ {0} /\ MaxFref \in Nat \ {0}
                          /\ MaxExf \in Nat \ {0} /\ MaxCmds \in Nat
                          /\ Autowrite \in BOOLEAN

VARIABLE gs

Path == Name \cup Tmp
Scr == 1..MaxScr
Fref == 1..MaxFref
Exf == 1..MaxExf
None == 0       \* no screen, FREF or EXF

Flag == {"TMPFILE", "TMPEXIT", "NAMECHANGE", "EXNAMED", "NEWFILE"}

\* Ways in which an EXF may lose text, or overwrite it, without a ! (history).
Slip == {"truncated",   \* a failed write emptied the file of an unmodified buffer
         "partial",     \* :wq or :xit wrote some of the lines, or only appended them
         "tmp",         \* a written temporary file lost the flags that guard it
         "appended" }   \* text was appended to a file never read

NoFref == [name |-> Null, tname |-> Null, flags |-> {}]
NoExf == [refcnt |-> 0, modified |-> FALSE, work |-> FALSE, kept |-> Null,
          saw |-> Null, knows |-> {}, slips |-> {}]
NoScr == [ep |-> None, frp |-> None, argv |-> <<>>, pos |-> 0, ro |-> FALSE, quit |-> 0]

\* What the system does to a command: the disk is full, the terminal has no room
\* to split, a recovery file is found.
Env == [full : BOOLEAN, room : BOOLEAN, above : BOOLEAN, rcv : BOOLEAN]
Calm == [full |-> FALSE, room |-> TRUE, above |-> FALSE, rcv |-> FALSE]

ArgList == {<<n>> : n \in Name} \cup {a \in Name \X Name : a[1] # a[2]}

\* A queue from which all of D were taken out.
Without(q, D) ==
    LET left[i \in 0..Len(q)] == IF i = 0 THEN <<>>
                                 ELSE IF q[i] \in D THEN left[i - 1]
                                 ELSE Append(left[i - 1], q[i])
    IN  left[Len(q)]

Least(U) == CHOOSE x \in U : \A y \in U : x <= y
Fail(S) == [S EXCEPT !.rc = 1]
Failed(S) == S.rc # 0

\* Screen s is linked into a queue.
Linked(S) == Range(S.dq) \cup Range(S.hq)
Users(S, e) == {s \in Scr : S.scr[s].ep = e}
FrefUsers(S, f) == {s \in Scr : S.scr[s].frp = f}
Modified(S, s) == S.exf[S.scr[s].ep].modified
Flags(S, s) == S.fref[S.scr[s].frp].flags

\* The EXFs whose FREF is f are in slip x from now on.
Slipped(S, f, x) ==
    [S EXCEPT !.exf = [e \in Exf |->
        IF \E s \in FrefUsers(S, f) : S.scr[s].ep = e
        THEN [S.exf[e] EXCEPT !.slips = @ \cup {x}] ELSE S.exf[e]]]

-----------------------------------------------------------------------------
(* Files: every change to a path is seen by the EXFs that knew it *)

\* Path p has other contents, or is gone.
Touch(S, p) ==
    [S EXCEPT !.exf = [e \in Exf |-> [S.exf[e] EXCEPT
        !.saw = IF @ = p THEN Null ELSE @,
        !.kept = IF @ = p THEN Null ELSE @,
        !.knows = @ \ {p}]]]

Unlink(S, p) ==
    IF p = Null THEN S
    ELSE [Touch(S, p) EXCEPT !.disk = @ \ {p}, !.temps = @ \ {p}, !.lock[p] = None]

-----------------------------------------------------------------------------
(* FREFs *)

\* file_add(): an FREF of that name, or a new one (or None).  Entries without a
\* name that the search passes are discarded.
FileAdd(S, n) ==
    LET at == {i \in DOMAIN S.frefq : S.fref[S.frefq[i]].name = n}
        end == IF at = {} THEN Len(S.frefq) + 1 ELSE Least(at)
        dead == IF n = Null THEN {}
                ELSE {S.frefq[i] : i \in {j \in 1..(end - 1) :
                                          S.fref[S.frefq[j]].name = Null}}
        T == [S EXCEPT !.frefq = Without(@, dead),
                       !.fref = [f \in Fref |-> IF f \in dead THEN NoFref ELSE S.fref[f]]]
        fresh == Fref \ (Range(T.frefq) \cup {S.scr[s].frp : s \in Scr})
    IN  IF n # Null /\ at # {} THEN [st |-> T, f |-> S.frefq[end]]
        ELSE IF fresh = {} THEN [st |-> T, f |-> None]
        ELSE LET f == Least(fresh)
             IN  [st |-> [T EXCEPT !.frefq = Append(@, f), !.fref[f] = [NoFref EXCEPT !.name = n]],
                  f |-> f]

-----------------------------------------------------------------------------
(* Opening and closing *)

\* The text of EXF e goes.  lost is history: how an unforced command dropped text
\* that no file holds.
Drop(S, e) ==
    LET x == S.exf[e]
        loss == IF x.work /\ x.kept = Null /\ ~S.forced
                THEN IF x.slips = {} THEN {"plain"} ELSE x.slips
                ELSE {}
    IN  [S EXCEPT !.exf[e] = NoExf, !.lost = @ \cup loss,
                  !.lock = [p \in Path |-> IF @[p] = e THEN None ELSE @[p]]]

\* The temporary file of FREF f goes, and the FREF with it if it was never named.
DropTemp(S, s, f) ==
    LET T == Unlink([S EXCEPT !.fref[f].tname = Null, !.scr[s].frp = None], S.fref[f].tname)
    IN  IF "TMPFILE" \in S.fref[f].flags
        THEN [T EXCEPT !.frefq = Without(@, {f}), !.fref[f] = NoFref]
        ELSE T

\* Mutant: the name of the temporary file is forgotten, the file stays.
FileEndForgets(S, s, dd) ==
    LET e == S.scr[s].ep
        f == S.scr[s].frp
        T == [S EXCEPT !.exf[e].refcnt = @ - 1]
    IN  IF S.exf[e].refcnt > 1 THEN T
        ELSE Drop(IF f # dd THEN [T EXCEPT !.fref[f].tname = Null] ELSE T, e)

\* file_end() of the screen's EXF; dd is the FREF with FR_DONTDELETE.
FileEnd(S, s, dd) ==
    LET e == S.scr[s].ep
        f == S.scr[s].frp
        T == [S EXCEPT !.exf[e].refcnt = @ - 1]
    IN  IF S.exf[e].refcnt > 1 THEN T
        ELSE Drop(IF f # dd /\ S.fref[f].tname # Null THEN DropTemp(T, s, f) ELSE T, e)

\* The error exit of file_init(): the FREF loses its names.  A screen that is
\* using it is left without one, which no later command survives.
InitError(S, f) ==
    LET T == Unlink([S EXCEPT !.fref[f].name = Null, !.fref[f].tname = Null], S.fref[f].tname)
    IN  Fail([T EXCEPT !.broken = @ \/ FrefUsers(S, f) # {}])

\* O_READONLY of the screen after the switch to a file opened as path p.
ReadOnlyNow(S, f, p, locked) ==
    \/ locked
    \/ "NEWFILE" \notin S.fref[f].flags /\ S.fref[f].name \in ReadOnly

\* The file of FREF f is opened as path p; a new temporary one if it has to be.
Opened(S, f, p, temporary, openerr) ==
    LET old == S.fref[f]
        flags == (IF old.name = Null THEN {"TMPFILE"} ELSE {})
                 \cup (IF temporary /\ ~openerr THEN {"NEWFILE"} ELSE {})
    IN  [S EXCEPT
            !.disk = @ \cup {p},
            !.temps = @ \cup (IF temporary THEN {p} ELSE {}),
            !.fref[f] = [name |-> IF old.name = Null THEN p ELSE old.name,
                         tname |-> IF temporary THEN p ELSE old.tname, flags |-> flags]]

\* The previous file is closed and the new one, EXF e, locked and made the screen's.
Switched(S, s, f, e, p, rcv) ==
    LET T == IF S.scr[s].ep = None THEN S ELSE FileEnd(S, s, f)
        wantlock == ~rcv /\ ~S.scr[s].ro
        taken == T.lock[p] # None
    IN  [T EXCEPT
            !.exf[e] = [refcnt |-> 1, modified |-> rcv, work |-> rcv, kept |-> Null,
                        saw |-> p, knows |-> {p},
                        slips |-> IF S.fref[f].name \in Tmp /\ "TMPFILE" \notin S.fref[f].flags
                                  THEN {"tmp"} ELSE {}],
            !.lock[p] = IF wantlock /\ ~taken THEN e ELSE @,
            !.scr[s].ep = e, !.scr[s].frp = f,
            !.scr[s].ro = ReadOnlyNow(T, f, p, wantlock /\ taken)]

\* file_init(): the screen's file is that of FREF f from now on, if all goes well.
FileInit(S, s, f, rcv) ==
    LET old == S.fref[f]
        cleared == [S EXCEPT !.fref[f].flags = {}]
        T == IF "TMPFILE" \in old.flags THEN Slipped(cleared, f, "tmp") ELSE cleared
        fresh == {e \in Exf : S.exf[e].refcnt = 0}
        exists == old.name \in S.disk
        openerr == exists /\ ~rcv /\ old.name \in Unreadable
        temporary == openerr \/ ~exists
        temps == Tmp \ S.disk
        p == IF temporary THEN CHOOSE t \in temps : TRUE ELSE old.name
    IN  IF fresh = {} \/ (~exists /\ old.name # Null /\ old.tname # Null) THEN Fail(T)
        ELSE IF temporary /\ (old.tname # Null \/ temps = {}) THEN InitError(T, f)
        ELSE Switched(Opened(T, f, p, temporary, openerr), s, f, Least(fresh), p, rcv)

-----------------------------------------------------------------------------
(* Writing *)

\* The name the write goes to; noname when it is the current file's.
Target(S, s, n) == IF n = Null THEN S.fref[S.scr[s].frp].name ELSE n
OwnName(S, s, n) == Target(S, s, n) = S.fref[S.scr[s].frp].name

\* Mutant: the modification time of the user's file is not looked at.
RefusedLess(S, s, w) ==
    LET t == Target(S, s, w.name)
        own == OwnName(S, s, w.name)
        ask == ~w.force /\ ~w.append
    IN  \/ ~w.force /\ own /\ S.scr[s].ro
        \/ ask /\ t \in S.disk /\ (~own \/ "NAMECHANGE" \in Flags(S, s))
        \/ ask /\ t \in S.disk /\ own /\ ~w.all

\* What file_write() refuses to overwrite.
Refused(S, s, w) ==
    LET t == Target(S, s, w.name)
        own == OwnName(S, s, w.name)
        ask == ~w.force /\ ~w.append
    IN  \/ ~w.force /\ own /\ S.scr[s].ro
        \/ ask /\ t \in S.disk /\ (~own \/ "NAMECHANGE" \in Flags(S, s))
        \/ ask /\ t \in S.disk /\ own /\ ~w.all
        \/ ask /\ t \in S.disk /\ own /\ S.exf[S.scr[s].ep].saw # t

\* The open, the data and the new modification time.
PutData(S, s, w, full) ==
    LET e == S.scr[s].ep
        x == S.exf[e]
        t == Target(S, s, w.name)
        own == OwnName(S, s, w.name)
        known == t \notin S.disk \/ t \in x.knows
        whole == w.all /\ ~full
        safe == whole /\ t \notin S.temps
        T == Touch(S, t)
        y == [T.exf[e] EXCEPT
                !.saw = IF own THEN t ELSE @,
                !.knows = IF w.append /\ ~known THEN @ ELSE @ \cup {t},
                !.kept = IF whole /\ t \in S.temps THEN t ELSE @,
                !.work = (@ /\ ~safe) \/ (full /\ ~w.append /\ own /\ ~x.modified),
                !.slips = (IF safe THEN @ \ {"truncated", "partial"} ELSE @)
                    \cup (IF full /\ ~w.append /\ own /\ ~x.modified THEN {"truncated"} ELSE {})
                    \cup (IF w.append /\ own /\ ~known THEN {"appended"} ELSE {})]
        over == IF w.append \/ known \/ w.force THEN {}
                ELSE IF "appended" \in x.slips THEN {"appended"} ELSE {"plain"}
    IN  [T EXCEPT !.disk = @ \cup {t}, !.exf[e] = y, !.clobbered = @ \cup over]

\* file_write(); w has the name (or Null), whether it is all the lines, ! and >>.
FileWrite(S, s, w, full) ==
    LET e == S.scr[s].ep
        f == S.scr[s].frp
        own == OwnName(S, s, w.name)
        T == PutData(S, s, w, full)
        done == [T EXCEPT
            !.fref[f].flags = @ \ {"NAMECHANGE"},
            !.exf[e].modified = @ /\ ~(w.all /\ ~w.append)]
        tmpexit == IF ~(w.all /\ ~w.append) \/ "TMPFILE" \notin S.fref[f].flags THEN done
                   ELSE [done EXCEPT !.fref[f].flags =
                            IF own THEN @ \cup {"TMPEXIT"} ELSE @ \ {"TMPEXIT"}]
    IN  IF Refused(S, s, w) \/ Target(S, s, w.name) \in ReadOnly THEN Fail(S)
        ELSE IF full THEN Fail(T)
        ELSE tmpexit

\* exwr(): the first name a temporary file is written to becomes its name.
ExWr(S, s, w, full) ==
    LET f == S.scr[s].frp
        named == [Slipped(S, f, "tmp") EXCEPT
                    !.fref[f].name = w.name,
                    !.fref[f].flags = (@ \ {"TMPEXIT", "TMPFILE"})
                                      \cup {"NAMECHANGE", "EXNAMED"}]
    IN  FileWrite(IF w.name # Null /\ "TMPFILE" \in S.fref[f].flags
                     /\ "EXNAMED" \notin S.fref[f].flags THEN named ELSE S,
                  s, w, full)

Whole(force) == [name |-> Null, all |-> TRUE, force |-> force, append |-> FALSE]

-----------------------------------------------------------------------------
(* The checks before a file is left *)

Shared(S, s) == S.exf[S.scr[s].ep].refcnt > 1

\* file_m3(): a written temporary file would go with its only copy of the text.
FileM3(S, s, force) ==
    IF "TMPEXIT" \in Flags(S, s) /\ ~Shared(S, s) /\ ~force THEN Fail(S) ELSE S

\* Mutant: the reference of the screen itself is not counted.
FileM2Counts(S, s, force) ==
    IF Modified(S, s) /\ S.exf[S.scr[s].ep].refcnt < 1 /\ ~force THEN Fail(S)
    ELSE FileM3(S, s, force)

\* file_m2(): :edit, :quit and :recover.
FileM2(S, s, force) ==
    IF Modified(S, s) /\ ~Shared(S, s) /\ ~force THEN Fail(S) ELSE FileM3(S, s, force)

\* file_aw()
FileAw(S, s, full) ==
    IF ~Modified(S, s) \/ ~Autowrite THEN S
    ELSE IF S.scr[s].ro THEN Fail(S)
    ELSE FileWrite(S, s, Whole(FALSE), full)

\* file_m1(): :next, :prev and :rewind, which write the file if autowrite is set.
FileM1(S, s, force, full) ==
    LET T == IF ~Modified(S, s) \/ force THEN S
             ELSE IF Autowrite THEN FileAw(S, s, full)
             ELSE IF ~Shared(S, s) THEN Fail(S)
             ELSE S
    IN  IF Failed(T) THEN T ELSE FileM3(T, s, force)

\* ex_ncheck(): more files to edit, unless the last command was refused for that.
NCheck(S, s, force) ==
    IF ~force /\ S.scr[s].quit # 1 /\ S.scr[s].pos \in 1..(Len(S.scr[s].argv) - 1)
    THEN Fail([S EXCEPT !.scr[s].quit = 2]) ELSE S

-----------------------------------------------------------------------------
(* Screens *)

Fresh(S) == {s \in Scr : s \notin Linked(S)}
Place(S, s) == CHOOSE i \in DOMAIN S.dq : S.dq[i] = s

\* vs_discard(): the screen whose rows grow, or None.
Heir(S, s) ==
    LET i == Place(S, s)
    IN  IF i > 1 THEN S.dq[i - 1] ELSE IF i < Len(S.dq) THEN S.dq[i + 1] ELSE None

\* vs_split(): screen n is linked above or below s.
Link(S, s, n, above) ==
    [S EXCEPT !.dq = InsertAt(@, IF above THEN Place(S, s) ELSE Place(S, s) + 1, n)]

\* vi() after SC_EXIT: the file is ended, and the next screen, a hidden one if no
\* other is displayed, gets the focus.
Exit(S, s) ==
    LET heir == Heir(S, s)
        next == IF heir # None THEN heir ELSE IF S.hq # <<>> THEN Head(S.hq) ELSE None
        T == FileEnd(S, s, None)
    IN  [T EXCEPT !.scr[s] = NoScr, !.cur = next,
                  !.dq = Without(@, {s}) \o (IF heir = None /\ next # None THEN <<next>> ELSE <<>>),
                  !.hq = Without(@, {next})]

\* screen_init() and vs_split() for a new screen; None if they fail.
NewScreen(S, env) == IF Fresh(S) = {} \/ ~env.room THEN None ELSE Least(Fresh(S))

\* A new screen n beside s, with file f or a share of the file of s.
Spawn(S, s, n, f, attach, argv, env) ==
    LET T == Link([S EXCEPT !.scr[n] = [NoScr EXCEPT !.ro = S.scr[s].ro]], s, n, env.above)
        e == S.scr[s].ep
        U == IF attach
             THEN [T EXCEPT !.exf[e].refcnt = @ + 1, !.scr[n].ep = e, !.scr[n].frp = f]
             ELSE FileInit(T, n, f, FALSE)
    IN  IF Failed(U) THEN [U EXCEPT !.dq = Without(@, {n}), !.scr[n] = NoScr]
        ELSE [U EXCEPT !.scr[n].argv = IF argv = <<>> THEN <<U.fref[f].name>> ELSE argv,
                       !.scr[n].pos = 1, !.cur = n]

-----------------------------------------------------------------------------
(* The commands, as operators: each is one ex function *)

\* ex_edit() and ex_N_edit().
ExEdit(S, s, n, force, new, env) ==
    LET again == n = Null /\ "TMPFILE" \notin Flags(S, s)
        add == FileAdd(S, n)
        f == IF again THEN S.scr[s].frp ELSE add.f
        T == IF again THEN S ELSE add.st
        scr == NewScreen(T, env)
        M == FileM2(T, s, force)
    IN  IF f = None THEN Fail(T)
        ELSE IF new THEN IF scr = None THEN Fail(T) ELSE Spawn(T, s, scr, f, again, <<>>, env)
        ELSE IF Failed(M) THEN M ELSE FileInit(M, s, f, FALSE)

\* The switch that :next, :prev and :rewind end with.
SwitchTo(S, s, n, pos) ==
    LET add == FileAdd(S, n)
        T == FileInit(add.st, s, add.f, FALSE)
    IN  IF add.f = None THEN Fail(add.st)
        ELSE IF Failed(T) THEN T ELSE [T EXCEPT !.scr[s].pos = pos]

ExNNext(S, s, args, env) ==
    LET scr == NewScreen(S, env)
        add == FileAdd(S, args[1])
    IN  IF scr = None THEN Fail(S)
        ELSE IF add.f = None THEN Fail(add.st)
        ELSE Spawn(add.st, s, scr, add.f, FALSE, args, env)

ExNext(S, s, args, force, new, env) ==
    LET x == S.scr[s]
        M == FileM1(S, s, force, env.full)
    IN  IF args = <<>> /\ x.pos >= Len(x.argv) THEN Fail(S)
        ELSE IF new /\ args = <<>> THEN ExEdit(S, s, x.argv[x.pos + 1], force, TRUE, env)
        ELSE IF new THEN ExNNext(S, s, args, env)
        ELSE IF Failed(M) THEN M
        ELSE IF args = <<>> THEN SwitchTo(M, s, x.argv[x.pos + 1], x.pos + 1)
        ELSE SwitchTo([M EXCEPT !.scr[s].argv = args, !.scr[s].pos = 1], s, args[1], 1)

ExPrev(S, s, force, new, env) ==
    LET x == S.scr[s]
        M == FileM1(S, s, force, env.full)
    IN  IF x.pos <= 1 THEN Fail(S)
        ELSE IF new THEN ExEdit(S, s, x.argv[x.pos - 1], force, TRUE, env)
        ELSE IF Failed(M) THEN M
        ELSE SwitchTo(M, s, x.argv[x.pos - 1], x.pos - 1)

ExRew(S, s, force, env) ==
    LET x == S.scr[s]
        M == FileM1(S, s, force, env.full)
    IN  IF x.argv = <<>> THEN Fail(S)
        ELSE IF Failed(M) THEN M
        ELSE SwitchTo([M EXCEPT !.scr[s].pos = 1], s, x.argv[1], 1)

\* Mutant: the screen exits although there are more files to edit.
LeaveAnyway(S, s, all, force) ==
    LET M == IF Failed(S) THEN S ELSE FileM3(S, s, FALSE)
    IN  IF Failed(M) THEN M ELSE Exit(NCheck(M, s, force), s)

\* The end of :wq, :xit and ZZ, once the text is written (or needed no write).
Leave(S, s, all, force) ==
    LET M == IF Failed(S) THEN S ELSE FileM3(S, s, FALSE)
        N == IF Failed(M) THEN M ELSE NCheck(M, s, force)
    IN  IF Failed(N) THEN N
        ELSE Exit(IF all THEN N
                  ELSE [N EXCEPT !.exf[N.scr[s].ep].slips = @ \cup {"partial"}], s)

ExWq(S, s, w, env) ==
    Leave(ExWr(S, s, w, env.full), s, w.all /\ ~w.append, w.force)

\* ex_xit() and v_zexit()
ExXit(S, s, w, env) ==
    IF Modified(S, s) THEN ExWq(S, s, w, env) ELSE Leave(S, s, TRUE, w.force)

ExWn(S, s, w, env) ==
    LET T == ExWr(S, s, w, env.full)
        M == IF Failed(T) THEN T ELSE FileM3(T, s, FALSE)
    IN  IF Failed(M) THEN M ELSE ExNext(M, s, <<>>, w.force, FALSE, env)

ExQuit(S, s, force) ==
    LET M == FileM2(S, s, force)
        N == IF Failed(M) THEN M ELSE NCheck(M, s, force)
    IN  IF Failed(N) THEN N ELSE Exit(N, s)

\* ex_file(): the file has another name from now on.
ExFile(S, s, n) ==
    LET f == S.scr[s].frp
        T == IF "TMPFILE" \in S.fref[f].flags THEN Slipped(S, f, "tmp") ELSE S
    IN  [T EXCEPT !.fref[f].name = n,
                  !.fref[f].flags = (@ \ {"TMPEXIT", "TMPFILE"}) \cup {"NAMECHANGE"}]

ExRecover(S, s, n, force, env) ==
    LET M == FileM2(S, s, force)
        add == FileAdd(M, n)
    IN  IF Failed(M) THEN M
        ELSE IF add.f = None THEN Fail(add.st)
        ELSE FileInit(add.st, s, add.f, env.rcv)

\* vs_bg()
ExBg(S, s) ==
    IF Heir(S, s) = None THEN Fail(S)
    ELSE [S EXCEPT !.cur = Heir(S, s), !.dq = Without(@, {s}), !.hq = Append(@, s)]

\* vs_getbg(): the first hidden screen, or the first with a file of that name.
Hidden(S, n) ==
    LET at == {i \in DOMAIN S.hq : n = Null \/ S.fref[S.scr[S.hq[i]].frp].name = n}
    IN  IF at = {} THEN None ELSE S.hq[Least(at)]

\* vs_fg(), vs_swap()
ExFg(S, s, n, new, env) ==
    LET h == Hidden(S, n)
    IN  IF h = None THEN Fail(S)
        ELSE IF new
        THEN IF ~env.room THEN Fail([S EXCEPT !.hq = Append(Without(@, {h}), h)])
             ELSE [Link([S EXCEPT !.hq = Without(@, {h})], s, h, env.above) EXCEPT !.cur = h]
        ELSE [S EXCEPT !.cur = h, !.hq = Append(Without(@, {h}), s),
                       !.dq = [i \in DOMAIN @ |-> IF @[i] = s THEN h ELSE @[i]]]

\* v_screen()
VScreen(S, s) ==
    IF Len(S.dq) = 1 THEN Fail(S)
    ELSE [S EXCEPT !.cur = S.dq[(Place(S, s) % Len(S.dq)) + 1]]

-----------------------------------------------------------------------------
(* Behaviour *)

Ready == /\ gs.cur # None /\ ~gs.broken
         /\ gs.cmds + Cardinality(Linked(gs)) <= MaxCmds

\* The state a command finds: its own bookkeeping is fresh.
Begun(force) ==
    [gs EXCEPT !.rc = 0, !.forced = force, !.lost = {}, !.clobbered = {}, !.cmds = @ + 1,
               !.scr[gs.cur].quit = IF @ = 2 THEN 1 ELSE 0]

Does(S) == gs' = [S EXCEPT !.forced = FALSE]

WriteArgs == [name : Name \cup {Null}, all : BOOLEAN, force : BOOLEAN, append : BOOLEAN]

\* The names a command may be given: any file's, and % for the current one.
Given == Name \cup {Null, gs.fref[gs.scr[gs.cur].frp].name}

Edit == Ready /\ \E n \in Given, force, new, above, room \in BOOLEAN :
            Does(ExEdit(Begun(force), gs.cur, n, force, new,
                         [Calm EXCEPT !.above = above, !.room = room]))
NextFile == Ready /\ \E args \in ArgList \cup {<<>>}, force, new, full \in BOOLEAN :
            Does(ExNext(Begun(force), gs.cur, args, force, new, [Calm EXCEPT !.full = full]))
Prev == Ready /\ \E force, new, full \in BOOLEAN :
            Does(ExPrev(Begun(force), gs.cur, force, new, [Calm EXCEPT !.full = full]))
Rewind == Ready /\ \E force, full \in BOOLEAN :
            Does(ExRew(Begun(force), gs.cur, force, [Calm EXCEPT !.full = full]))
Write == Ready /\ \E w \in WriteArgs, full \in BOOLEAN :
            Does(ExWr(Begun(w.force), gs.cur, w, full))
WriteQuit == Ready /\ \E w \in WriteArgs : Does(ExWq(Begun(w.force), gs.cur, w, Calm))
Xit == Ready /\ \E w \in WriteArgs : ~w.append /\ Does(ExXit(Begun(w.force), gs.cur, w, Calm))
ZZ == Ready /\ Does(ExXit(Begun(FALSE), gs.cur, Whole(FALSE), Calm))
WriteNext == Ready /\ \E w \in WriteArgs : Does(ExWn(Begun(w.force), gs.cur, w, Calm))
Quit == Ready /\ \E force \in BOOLEAN : Does(ExQuit(Begun(force), gs.cur, force))
Rename == Ready /\ \E n \in Name : Does(ExFile(Begun(FALSE), gs.cur, n))
Recover == Ready /\ \E n \in Name, force, rcv \in BOOLEAN :
            Does(ExRecover(Begun(force), gs.cur, n, force, [Calm EXCEPT !.rcv = rcv]))
Background == Ready /\ Does(ExBg(Begun(FALSE), gs.cur))
Foreground == Ready /\ \E n \in Name \cup {Null}, new, room \in BOOLEAN :
            Does(ExFg(Begun(FALSE), gs.cur, n, new, [Calm EXCEPT !.room = room]))
OtherScreen == Ready /\ Does(VScreen(Begun(FALSE), gs.cur))

\* Any change of the text.
Change ==
    /\ Ready
    /\ LET e == gs.scr[gs.cur].ep
           y == [gs.exf[e] EXCEPT !.modified = TRUE, !.work = TRUE, !.kept = Null,
                                  !.slips = @ \ {"truncated", "partial"}]
       IN  gs' = [Begun(FALSE) EXCEPT !.exf[e] = y]

\* Another program writes, removes, locks or unlocks a file.
Other == MaxExf + 1
External ==
    /\ Ready
    /\ \E n \in Name :
        \/ gs' = [Touch(Begun(FALSE), n) EXCEPT !.disk = @ \cup {n}]
        \/ n \in gs.disk \ ReadOnly /\ gs' = Unlink(Begun(FALSE), n)
        \/ n \in gs.disk /\ gs.lock[n] = None /\ gs' = [Begun(FALSE) EXCEPT !.lock[n] = Other]
        \/ gs.lock[n] = Other /\ gs' = [Begun(FALSE) EXCEPT !.lock[n] = None]

\* main(): the files named on the command line, or a temporary one.
Started(disk, args) ==
    LET S == [disk |-> disk, lock |-> [p \in Path |-> None], temps |-> {}, frefq |-> <<>>,
              fref |-> [f \in Fref |-> NoFref], exf |-> [e \in Exf |-> NoExf],
              scr |-> [s \in Scr |-> NoScr], dq |-> <<1>>, hq |-> <<>>, cur |-> 1,
              rc |-> 0, forced |-> FALSE, lost |-> {}, clobbered |-> {},
              broken |-> FALSE, cmds |-> 0]
        T == [S EXCEPT !.scr[1].argv = args, !.scr[1].pos = IF args = <<>> THEN 0 ELSE 1]
        add == FileAdd(T, IF args = <<>> THEN Null ELSE args[1])
    IN  FileInit(add.st, 1, add.f, FALSE)

\* The editor does not start if the first file cannot be opened.
Init == \E there \in SUBSET (Name \ (ReadOnly \cup Unreadable)), args \in ArgList \cup {<<>>} :
            /\ gs = Started(there \cup ReadOnly \cup Unreadable, args)
            /\ ~Failed(gs)

Next == \/ Edit \/ NextFile \/ Prev \/ Rewind \/ Write \/ WriteQuit \/ Xit \/ ZZ \/ WriteNext
        \/ Quit \/ Rename \/ Recover \/ Background \/ Foreground \/ OtherScreen \/ Change
        \/ External

Spec == Init /\ [][Next]_gs

\* The files that are neither read-only nor unreadable are alike.
Alike == Permutations(Name \ (ReadOnly \cup Unreadable))

-----------------------------------------------------------------------------
(* Properties *)

\* The GS structure is well formed: the queues of screens and FREFs hold each
\* once, and the current screen is displayed.
TypeOK ==
    /\ gs.disk \subseteq Path /\ gs.temps \subseteq Tmp
    /\ gs.lock \in [Path -> Exf \cup {None, Other}]
    /\ Range(gs.frefq) \subseteq Fref /\ IsInjective(gs.frefq)
    /\ gs.fref \in [Fref -> [name : Path \cup {Null}, tname : Tmp \cup {Null},
                             flags : SUBSET Flag]]
    /\ gs.exf \in [Exf -> [refcnt : 0..MaxScr, modified : BOOLEAN, work : BOOLEAN,
                           kept : Tmp \cup {Null}, saw : Path \cup {Null},
                           knows : SUBSET Path, slips : SUBSET Slip]]
    /\ \A s \in Scr : gs.scr[s].ep \in Exf \cup {None} /\ gs.scr[s].frp \in Fref \cup {None}
    /\ IsInjective(gs.dq \o gs.hq) /\ (gs.cur = None) = (gs.dq = <<>>)
    /\ gs.cur # None => gs.cur \in Range(gs.dq)

\* A command without ! never drops the only copy of a text: not when the file is
\* shared, was written elsewhere or to a temporary file, or the write before
\* failed (file_m1 to file_m3).  The ways in which the code loses it are the slips.
NothingLost == "plain" \notin gs.lost

\* Without ! file_write() never overwrites a file whose contents this session has
\* not read or written itself, through renames, other names and other programs.
NoOverwrite == "plain" \notin gs.clobbered

\* An EXF lives exactly as long as screens show it (file_init, file_end), failed
\* switches and splits included, and no linked screen is without one.
RefcntCountsScreens ==
    /\ \A e \in Exf : gs.exf[e].refcnt = Cardinality(Users(gs, e))
    /\ \A s \in Linked(gs) : gs.scr[s].ep # None

\* A temporary file is there only for the FREF of an open screen: no way to leave
\* a file, the last one included, forgets one.
TempsInUse ==
    \A t \in gs.temps :
        \E s \in Linked(gs) : gs.scr[s].frp # None /\ gs.fref[gs.scr[s].frp].tname = t

\* The FREF a screen shows is on the list of known files and has a name, although
\* file_add() discards entries and file_init() fails half way.
FrefsListed ==
    gs.broken \/ \A s \in Linked(gs) :
        gs.scr[s].frp \in Range(gs.frefq) /\ gs.fref[gs.scr[s].frp].name # Null

\* What the session keeps count of is what its screens use: the references of each
\* EXF, the temporary files and the FREFs (exf.c:318, 666, ex_file.c:58).
FilesListed == RefcntCountsScreens /\ TempsInUse /\ FrefsListed

\* A command that fails leaves every screen the file it had: file_init() lets go
\* of the old file only when the new one is there.
FailureKeepsFiles ==
    [][gs'.rc # 0 => \A s \in Linked(gs) : /\ gs'.scr[s].ep = gs.scr[s].ep
                                           /\ s \in Linked(gs')]_gs

\* "Don't overwrite anything but the original file" (file_write) unless forced.
OnlyTheOriginal == gs.clobbered = {}
=============================================================================
