------------------------------ MODULE Recovery ------------------------------
(***************************************************************************)
(* The files that make a session recoverable, and the processes that race  *)
(* for them.  Every session has a backing file for its records ("vi.XXXX") *)
(* in the recovery directory; when the text is first changed it adds a mail *)
(* file ("recover.XXXX") that names the backing file and that it keeps     *)
(* locked, syncs the text to the backing file and turns the file's x bit   *)
(* off.  From then on the text is synced after every command.  A clean end *)
(* removes both files.  vi -r looks for mail files nobody has locked;      *)
(* scripts/virecover cleans the directory when the machine boots.          *)
(*                                                                         *)
(* All sessions edit the same file.  A text is the number of the change    *)
(* that made it.  A crash is the death of one process between two system   *)
(* calls.  A file that fits the page cache is assumed: its pages reach the *)
(* backing file when it is synced and at no other time.                    *)
(***************************************************************************)
EXTENDS Integers, FiniteSets, TLC

CONSTANTS
    Proc,       \* editors, one file each
    Crowds,     \* bound: the sets of processes that are started together
    Preservers, \* bound: those whose user may run :preserve, alone
    Failing,    \* bound: those whose writes to the recovery directory may fail, alone
    MaxVer,     \* bound: changes made
    MaxBak,     \* bound: backing files at a time
    MaxMail     \* bound: mail files at a time

ASSUME BoundsAssumption == {MaxVer, MaxBak, MaxMail} \subseteq Nat

VARIABLES
    disk,       \* the text in the edited file
    ver,        \* changes made so far
    bak,        \* the backing files
    mail,       \* the mail files
    ed,         \* the editors
    owed,       \* history: what the user has been promised to get back
    left,       \* history: files whose session died, or lost track of them
    unlocked    \* history: mail files whose owner did not get the lock

vars == <<disk, ver, bak, mail, ed, owed, left, unlocked>>
history == <<owed, left, unlocked>>

None  == 0      \* no file
Empty == -1     \* a file nothing has been written to
Torn  == -2     \* no text any more: no pages, or those of several texts
ASSUME ProcAssumption == None \notin Proc /\ Preservers \subseteq Proc /\ Failing \subseteq Proc
                          /\ Crowds \subseteq SUBSET Proc
Version == 0..MaxVer
Bak  == 1..MaxBak
Mail == 1..MaxMail

\* x: mode 700, "can be deleted at boot time".
BakFile == [there : BOOLEAN, x : BOOLEAN, data : Version \cup {Empty, Torn}]

\* path: the backing file it names; None until the headers have been written.
MailFile == [there : BOOLEAN, path : Bak \cup {None}, lock : Proc \cup {None}, mtime : 0..MaxMail]

(* Where a process is: between commands, in one, or before the next call of  *)
(* rcv_mailfile(), rcv_init(), rcv_sync(), file_end(), rcv_list(), rcv_read(). *)
Point == {"none", "never", "wait", "cmd", "lock", "header", "snap", "snapping", "chmod",
          "presync", "sync", "mkcopy", "copy", "exit", "unlink", "scan", "scanlock", "scanread"}

Editor == [pc : Point,
           then : Point,                                \* where rcv_init() or rcv_sync() returns to
           text : Version \cup {Torn},
           bak : Bak \cup {None}, mail : Mail \cup {None}, \* rcv_path, rcv_mpath
           fd : Mail \cup {None},                       \* mail file being built or scanned
           copy : Bak \cup {None},                      \* backing file :preserve has made
           on : BOOLEAN, first : BOOLEAN, mod : BOOLEAN, \* F_RCV_ON, F_FIRSTMODIFY, F_MODIFIED
           dirty : BOOLEAN, norm : BOOLEAN,             \* F_RCV_SYNC, F_RCV_NORM
           reads : BOOLEAN,                             \* the scan is rcv_read()'s
           todo : SUBSET Mail, best : Mail \cup {None}]

Scanning == {"scan", "scanlock", "scanread"}

\* The files a session has made or taken over.
FilesOf(e) ==
    ({"bak"} \X ({e.bak, e.copy} \ {None})) \cup
    ({"mail"} \X ({e.mail, IF e.pc \in Scanning THEN None ELSE e.fd} \ {None}))

\* A text to be got back from this pair of files.
Pair(m, b) ==
    IF bak[b].data \in Version THEN {[mail |-> m, bak |-> b, data |-> bak[b].data]} ELSE {}

Nobody == [pc |-> "none", then |-> "none", text |-> Torn, bak |-> None, mail |-> None,
           fd |-> None, copy |-> None, on |-> FALSE, first |-> TRUE, mod |-> FALSE,
           dirty |-> FALSE, norm |-> FALSE, reads |-> FALSE, todo |-> {}, best |-> None]

\* Names nobody has any use for.  What a removed file held is forgotten: who
\* still has it open does not get anything else from it.
UnusedBak == {b \in Bak : /\ ~bak[b].there
                          /\ \A p \in Proc : b \notin {ed[p].bak, ed[p].copy}
                          /\ \A m \in Mail : mail[m].path # b}
UnusedMail == {m \in Mail : /\ ~mail[m].there /\ mail[m].lock = None
                            /\ \A p \in Proc : m \notin {ed[p].mail, ed[p].fd, ed[p].best} \cup ed[p].todo}
Least(S) == CHOOSE a \in S : \A b \in S : a <= b
NewBak  == Least(UnusedBak)
NewMail == Least(UnusedMail)

NoBakFile  == [there |-> FALSE, x |-> FALSE, data |-> Empty]
NoMailFile == [there |-> FALSE, path |-> None, lock |-> None, mtime |-> 0]
RmBak(files, b)  == [files EXCEPT ![b] = NoBakFile]
RmMail(files, m) == [files EXCEPT ![m] = [NoMailFile EXCEPT !.lock = files[m].lock]]

Becomes(p, e) == ed' = [ed EXCEPT ![p] = e]
At(p, pc) == ed[p].pc = pc
\* Bound: what one editor does only when no other is ever started.
Alone(p) == \A q \in Proc \ {p} : At(q, "never")
Unlock(files, p, M) == [m \in Mail |-> IF m \in M /\ files[m].lock = p
                                         THEN [files[m] EXCEPT !.lock = None] ELSE files[m]]
SetData(b, d) == bak' = [bak EXCEPT ![b].data = d]

-----------------------------------------------------------------------------
(* Starting a session *)

\* file_init(), rcv_tmp(): the backing file is made with mode 700.
Open(p) ==
    /\ At(p, "none") /\ UnusedBak # {}
    /\ bak' = [bak EXCEPT ![NewBak] = [there |-> TRUE, x |-> TRUE, data |-> Empty]]
    /\ Becomes(p, [Nobody EXCEPT !.pc = "wait", !.text = disk, !.bak = NewBak, !.on = TRUE])
    /\ UNCHANGED <<disk, ver, mail>> /\ UNCHANGED history

Begin(p) ==
    /\ At(p, "wait")
    /\ Becomes(p, [ed[p] EXCEPT !.pc = "cmd"])
    /\ UNCHANGED <<disk, ver, bak, mail>> /\ UNCHANGED history

-----------------------------------------------------------------------------
(* rcv_init(): the first change, or :preserve before it *)

\* rcv_mailfile(): mkstemp().
MakeMail ==
    /\ mail' = [mail EXCEPT ![NewMail] = [NoMailFile EXCEPT !.there = TRUE]]
    /\ unlocked' = unlocked \ {NewMail}

\* e is the session as it calls rcv_init(); afterwards it goes on at `then`.
RcvInit(p, e, then) ==
    LET f == [e EXCEPT !.first = FALSE]
    IN  \/ /\ ~e.on
           /\ Becomes(p, [f EXCEPT !.pc = then])
           /\ UNCHANGED <<mail, unlocked>>
        \/ /\ e.on /\ e.mail # None                 \* a recovered file: its pair of files is there
           /\ Becomes(p, [f EXCEPT !.pc = "chmod", !.on = FALSE, !.then = then])
           /\ UNCHANGED <<mail, unlocked>>
        \/ /\ e.on /\ e.mail = None /\ UnusedMail # {}
           /\ MakeMail
           /\ Becomes(p, [f EXCEPT !.pc = "lock", !.on = FALSE, !.then = then, !.fd = NewMail])

\* A line operation of a command.
Change(p) ==
    LET e == [ed[p] EXCEPT !.text = ver + 1, !.mod = TRUE, !.dirty = TRUE]
    IN  /\ At(p, "cmd") /\ ver < MaxVer
        /\ ver' = ver + 1
        /\ IF e.first THEN RcvInit(p, e, "cmd") ELSE Becomes(p, e) /\ UNCHANGED <<mail, unlocked>>
        /\ UNCHANGED <<disk, bak, owed, left>>

\* rcv_mailfile(): file_lock(), and the session remembers the mail file unless
\* it is :preserve's.
LockMail(p) ==
    LET m    == ed[p].fd
        free == mail[m].lock = None
    IN  /\ At(p, "lock")
        /\ mail' = IF free THEN [mail EXCEPT ![m].lock = p] ELSE mail
        /\ unlocked' = IF ~free THEN unlocked \cup {m} ELSE unlocked
        /\ Becomes(p, IF ed[p].copy = None THEN [ed[p] EXCEPT !.pc = "header", !.mail = m]
                                           ELSE [ed[p] EXCEPT !.pc = "header"])
        /\ UNCHANGED <<disk, ver, bak, owed, left>>

\* m is written to: it is the newest mail file, the others keep their order.
Newest(m) ==
    LET older(k) == {j \in Mail \ {m} : 0 < mail[j].mtime /\ mail[j].mtime <= mail[k].mtime}
    IN  [k \in Mail |-> [mail[k] EXCEPT !.mtime = IF k = m THEN MaxMail ELSE Cardinality(older(k))]]

\* rcv_mailfile(): the headers.  :preserve then closes its mail file, and the
\* user has been told that the file is preserved.
WriteHeader(p) ==
    LET m == ed[p].fd
        b == IF ed[p].copy = None THEN ed[p].bak ELSE ed[p].copy
        f == [Newest(m) EXCEPT ![m].path = b]
    IN  /\ At(p, "header")
        /\ \/ /\ ed[p].copy = None
              /\ mail' = f
              /\ Becomes(p, [ed[p] EXCEPT !.pc = "snap", !.fd = None])
              /\ UNCHANGED <<owed, left>>
           \/ /\ ed[p].copy # None
              /\ mail' = Unlock(f, p, {m})
              /\ Becomes(p, [ed[p] EXCEPT !.pc = "cmd", !.fd = None, !.copy = None])
              /\ owed' = owed \cup Pair(m, b)
              /\ left' = left \cup {<<"mail", m>>, <<"bak", b>>}
        /\ UNCHANGED <<disk, ver, bak, unlocked>>

\* They cannot be written: the mail file is closed, and it is not removed.
HeaderFails(p) ==
    LET m == ed[p].fd
        c == ed[p].copy
    IN  /\ p \in Failing /\ Alone(p) /\ At(p, "header")
        /\ mail' = Unlock(mail, p, {m})
        /\ bak' = IF c = None THEN bak ELSE RmBak(bak, c)
        /\ left' = IF c = None THEN left ELSE left \cup {<<"mail", m>>}
        /\ Becomes(p, [ed[p] EXCEPT !.pc = "cmd", !.then = "none", !.fd = None, !.copy = None])
        /\ UNCHANGED <<disk, ver, owed, unlocked>>

\* The whole file is read and synced to the backing file.
BeginSnap(p) ==
    /\ At(p, "snap")
    /\ SetData(ed[p].bak, Torn)
    /\ Becomes(p, [ed[p] EXCEPT !.pc = "snapping"])
    /\ UNCHANGED <<disk, ver, mail>> /\ UNCHANGED history

EndSnap(p) ==
    /\ At(p, "snapping")
    /\ SetData(ed[p].bak, ed[p].text)
    /\ Becomes(p, [ed[p] EXCEPT !.pc = "chmod"])
    /\ UNCHANGED <<disk, ver, mail>> /\ UNCHANGED history

\* Recovery stays off.
SnapFails(p) ==
    /\ p \in Failing /\ Alone(p) /\ At(p, "snapping")
    /\ Becomes(p, [ed[p] EXCEPT !.pc = "cmd", !.then = "none"])
    /\ UNCHANGED <<disk, ver, bak, mail>> /\ UNCHANGED history

\* Mutant: the x bit stays.
ChmodForgotten(p) ==
    /\ At(p, "chmod")
    /\ Becomes(p, [ed[p] EXCEPT !.pc = ed[p].then, !.then = "none", !.on = TRUE])
    /\ UNCHANGED <<disk, ver, bak, mail>> /\ UNCHANGED history

\* "Turn off the owner execute bit", "we believe the file is recoverable".
Chmod(p) ==
    /\ At(p, "chmod")
    /\ bak' = [bak EXCEPT ![ed[p].bak].x = FALSE]
    /\ Becomes(p, [ed[p] EXCEPT !.pc = ed[p].then, !.then = "none", !.on = TRUE])
    /\ UNCHANGED <<disk, ver, mail>> /\ UNCHANGED history

-----------------------------------------------------------------------------
(* rcv_sync() *)

\* Nothing is synced unless recovery is on and the text was changed after it was
\* last written to its file; otherwise the caller goes on at once.
RcvSync(p, e, then) ==
    IF e.on /\ e.mod
      THEN /\ SetData(e.bak, Torn)
           /\ Becomes(p, [e EXCEPT !.pc = "sync", !.then = then, !.dirty = FALSE])
      ELSE Becomes(p, [e EXCEPT !.pc = then]) /\ UNCHANGED bak

\* The command is over; vi() and ex() sync what it changed.
EndCommand(p) ==
    /\ At(p, "cmd")
    /\ IF ed[p].dirty THEN RcvSync(p, ed[p], "wait")
                      ELSE Becomes(p, [ed[p] EXCEPT !.pc = "wait"]) /\ UNCHANGED bak
    /\ UNCHANGED <<disk, ver, mail>> /\ UNCHANGED history

\* v_sync(): a hangup or SIGTERM while keys are awaited ends the session and,
\* if the text was changed, leaves its files (RCV_PRESERVE).
Hangup(p) ==
    /\ At(p, "wait") \/ At(p, "cmd")
    /\ RcvSync(p, ed[p], "exit")
    /\ UNCHANGED <<disk, ver, mail>> /\ UNCHANGED history

EndSync(p) ==
    /\ At(p, "sync")
    /\ SetData(ed[p].bak, ed[p].text)
    /\ Becomes(p, [ed[p] EXCEPT !.pc = ed[p].then, !.then = "none",
                                !.norm = IF ed[p].then = "exit" THEN TRUE ELSE @])
    /\ UNCHANGED <<disk, ver, mail>> /\ UNCHANGED history

\* The session goes on without recovery, but for :preserve, which fails.
SyncFails(p) ==
    /\ p \in Failing /\ Alone(p) /\ At(p, "sync")
    /\ Becomes(p, [ed[p] EXCEPT !.pc = IF ed[p].then = "mkcopy" THEN "cmd" ELSE ed[p].then,
                                !.then = "none", !.on = FALSE, !.norm = FALSE])
    /\ UNCHANGED <<disk, ver, bak, mail>> /\ UNCHANGED history

-----------------------------------------------------------------------------
(* :preserve, :write *)

Preserve(p) ==
    /\ p \in Preservers /\ Alone(p) /\ At(p, "cmd") /\ ed[p].on
    /\ IF ed[p].first
         THEN RcvInit(p, ed[p], "presync")
         ELSE Becomes(p, [ed[p] EXCEPT !.pc = "presync"]) /\ UNCHANGED <<mail, unlocked>>
    /\ UNCHANGED <<disk, ver, bak, owed, left>>

PreserveSync(p) ==
    /\ At(p, "presync")
    /\ RcvSync(p, ed[p], "mkcopy")
    /\ UNCHANGED <<disk, ver, mail>> /\ UNCHANGED history

\* rcv_sync(RCV_SNAPSHOT): a new backing file, mode 600.
BeginCopy(p) ==
    /\ At(p, "mkcopy") /\ UnusedBak # {}
    /\ bak' = [bak EXCEPT ![NewBak] = [there |-> TRUE, x |-> FALSE, data |-> Torn]]
    /\ Becomes(p, [ed[p] EXCEPT !.pc = "copy", !.copy = NewBak])
    /\ UNCHANGED <<disk, ver, mail>> /\ UNCHANGED history

\* rcv_copy() has copied the session's backing file; rcv_mailfile() is next.
EndCopy(p) ==
    /\ At(p, "copy") /\ UnusedMail # {}
    /\ SetData(ed[p].copy, bak[ed[p].bak].data)
    /\ MakeMail
    /\ Becomes(p, [ed[p] EXCEPT !.pc = "lock", !.fd = NewMail])
    /\ UNCHANGED <<disk, ver, owed, left>>

CopyFails(p) ==
    /\ p \in Failing /\ Alone(p) /\ At(p, "copy")
    /\ bak' = RmBak(bak, ed[p].copy)
    /\ Becomes(p, [ed[p] EXCEPT !.pc = "cmd", !.copy = None])
    /\ UNCHANGED <<disk, ver, mail>> /\ UNCHANGED history

\* file_write(): the whole file is written, and F_MODIFIED cleared.
Write(p) ==
    /\ At(p, "cmd") /\ ed[p].text \in Version
    /\ disk' = ed[p].text
    /\ Becomes(p, [ed[p] EXCEPT !.mod = FALSE])
    /\ UNCHANGED <<ver, bak, mail>> /\ UNCHANGED history

-----------------------------------------------------------------------------
(* file_end() *)

\* What the end of this session leaves for the user to recover: its backing file
\* as it is, if recovery was set up and believed in, and unless the end came
\* while the backing file was being written.
Promise(e) ==
    IF /\ e.on /\ e.mail \notin {None} \cup unlocked /\ e.pc \notin {"sync", "unlink"}
       /\ e.pc = "exit" => e.norm
       /\ ~e.first \/ ~bak[e.bak].x           \* not a recovered file that was never set up
      THEN Pair(e.mail, e.bak)
      ELSE {}

\* The session ends, from a command.
Quit(p) ==
    /\ At(p, "cmd")
    /\ Becomes(p, [ed[p] EXCEPT !.pc = "exit"])
    /\ UNCHANGED <<disk, ver, bak, mail>> /\ UNCHANGED history

\* F_RCV_NORM: the files stay, and the mail file is unlocked.
ExitNormal(p) ==
    /\ At(p, "exit") /\ ed[p].norm
    /\ mail' = Unlock(mail, p, Mail)
    /\ owed' = owed \cup Promise(ed[p])
    /\ left' = left \cup FilesOf(ed[p])
    /\ Becomes(p, Nobody)
    /\ UNCHANGED <<disk, ver, bak, unlocked>>

\* "Unlink backup file first"...
UnlinkBak(p) ==
    /\ At(p, "exit") /\ ~ed[p].norm
    /\ bak' = RmBak(bak, ed[p].bak)
    /\ Becomes(p, [ed[p] EXCEPT !.pc = "unlink"])
    /\ left' = left \ {<<"bak", ed[p].bak>>}
    /\ UNCHANGED <<disk, ver, mail, owed, unlocked>>

\* Mutant: the mail file is closed and not removed.
CloseMail(p) ==
    /\ At(p, "unlink")
    /\ mail' = Unlock(mail, p, Mail)
    /\ left' = left \ {<<"mail", ed[p].mail>>}
    /\ Becomes(p, Nobody)
    /\ UNCHANGED <<disk, ver, bak, owed, unlocked>>

\* ...then the mail file, and close it.
UnlinkMail(p) ==
    LET m == ed[p].mail
        f == Unlock(mail, p, Mail)
    IN  /\ At(p, "unlink")
        /\ mail' = IF m = None THEN f ELSE RmMail(f, m)
        /\ left' = left \ {<<"mail", m>>}
        /\ Becomes(p, Nobody)
        /\ UNCHANGED <<disk, ver, bak, owed, unlocked>>

-----------------------------------------------------------------------------
(* vi -r: rcv_list(), and rcv_read() to recover the file *)

BeginScan(p, reads) ==
    /\ At(p, "none")
    /\ Becomes(p, [Nobody EXCEPT !.pc = "scan", !.reads = reads,
                                 !.todo = {m \in Mail : mail[m].there}])
    /\ UNCHANGED <<disk, ver, bak, mail>> /\ UNCHANGED history

\* rcv_openat() opens the next mail file, if it is still there...
ScanOpen(p, m) ==
    /\ At(p, "scan") /\ m \in ed[p].todo
    /\ Becomes(p, IF mail[m].there
                    THEN [ed[p] EXCEPT !.pc = "scanlock", !.fd = m, !.todo = @ \ {m}]
                    ELSE [ed[p] EXCEPT !.todo = @ \ {m}])
    /\ UNCHANGED <<disk, ver, bak, mail>> /\ UNCHANGED history

\* Mutant: a live file is looked at like any other.
ScanLockIgnored(p) ==
    /\ At(p, "scanlock")
    /\ mail' = IF mail[ed[p].fd].lock = None THEN [mail EXCEPT ![ed[p].fd].lock = p] ELSE mail
    /\ Becomes(p, [ed[p] EXCEPT !.pc = "scanread"])
    /\ UNCHANGED <<disk, ver, bak>> /\ UNCHANGED history

\* ...and locks it: "If it's locked, it's live."
ScanLock(p) ==
    /\ At(p, "scanlock")
    /\ \/ /\ mail[ed[p].fd].lock = None
          /\ mail' = [mail EXCEPT ![ed[p].fd].lock = p]
          /\ Becomes(p, [ed[p] EXCEPT !.pc = "scanread"])
       \/ /\ mail[ed[p].fd].lock # None
          /\ Becomes(p, [ed[p] EXCEPT !.pc = "scan", !.fd = None])
          /\ UNCHANGED mail
    /\ UNCHANGED <<disk, ver, bak>> /\ UNCHANGED history

\* The mail file is closed, nothing found.
Dismiss(p, files, m) ==
    /\ mail' = Unlock(files, p, {m})
    /\ Becomes(p, [ed[p] EXCEPT !.pc = "scan", !.fd = None])

\* The headers are missing ("malformed recovery file"), or name a backing file
\* that is gone: rcv_list() removes such a mail file.  rcv_read() unlinks its
\* name in the current directory, not the recovery directory, and so leaves it.
ScanReject(p) ==
    LET m == ed[p].fd
        b == mail[m].path
    IN  /\ At(p, "scanread")
        /\ \/ b = None /\ Dismiss(p, mail, m)
           \/ /\ b # None /\ ~bak[b].there
              /\ Dismiss(p, IF ed[p].reads THEN mail ELSE RmMail(mail, m), m)
        /\ left' = {f \in left : f[1] = "mail" => mail'[f[2]].there}
        /\ UNCHANGED <<disk, ver, bak, owed, unlocked>>

\* rcv_list() displays a file it can recover; rcv_read() keeps the newest one
\* locked.
ScanAccept(p) ==
    LET m == ed[p].fd
        b == mail[m].path
        o == ed[p].best
    IN  /\ At(p, "scanread") /\ b # None /\ bak[b].there
        /\ IF ed[p].reads /\ (o = None \/ mail[o].mtime < mail[m].mtime)
             THEN /\ mail' = Unlock(mail, p, {o})
                  /\ Becomes(p, [ed[p] EXCEPT !.pc = "scan", !.fd = None, !.best = m])
             ELSE Dismiss(p, mail, m)
        /\ UNCHANGED <<disk, ver, bak>> /\ UNCHANGED history

\* Nothing was found (vi -r goes on to edit the file itself).
ScanEnds(p) ==
    /\ At(p, "scan") /\ ed[p].todo = {} /\ ed[p].best = None
    /\ Becomes(p, Nobody)
    /\ UNCHANGED <<disk, ver, bak, mail>> /\ UNCHANGED history

\* rcv_read(): the backing file becomes the session's, modified since its last
\* write; the mail file stays locked.
Recover(p) ==
    LET m == ed[p].best
        b == mail[m].path
    IN  /\ At(p, "scan") /\ ed[p].todo = {} /\ m # None
        /\ IF b # None /\ bak[b].there
             THEN /\ Becomes(p, [Nobody EXCEPT !.pc = "wait", !.bak = b, !.mail = m,
                                               !.text = IF bak[b].data = Empty THEN Torn ELSE bak[b].data,
                                               !.on = TRUE, !.mod = TRUE])
                  /\ owed' = {o \in owed : o.mail # m}
                  /\ left' = left \ {<<"mail", m>>, <<"bak", b>>}
                  /\ UNCHANGED mail
             ELSE /\ Becomes(p, Nobody)
                  /\ mail' = Unlock(mail, p, {m})
                  /\ UNCHANGED <<owed, left>>
        /\ UNCHANGED <<disk, ver, bak, unlocked>>

-----------------------------------------------------------------------------
(* The machine *)

\* A process dies.  Its locks go with it.
Crash(p) ==
    LET e == ed[p]
    IN  /\ e.pc \notin {"none", "never"}
        /\ mail' = Unlock(mail, p, Mail)
        /\ owed' = owed \cup Promise(e)
        /\ left' = left \cup FilesOf(e)
        /\ Becomes(p, Nobody)
        /\ UNCHANGED <<disk, ver, bak, unlocked>>

\* scripts/virecover, when nobody runs: unmodified backing files go, and then
\* mail files without headers or without a backing file.
Boot ==
    LET old == {b \in Bak : bak[b].x \/ bak[b].data = Empty}
        bad == {m \in Mail : mail[m].path = None \/ mail[m].path \in old}
    IN  /\ \A p \in Proc : ed[p].pc \in {"none", "never"}
        /\ bak' = [b \in Bak |-> IF b \in old THEN NoBakFile ELSE bak[b]]
        /\ mail' = [m \in Mail |-> IF m \in bad THEN NoMailFile ELSE mail[m]]
        /\ left' = left \ (({"bak"} \X old) \cup ({"mail"} \X bad))
        /\ UNCHANGED <<disk, ver, ed, owed, unlocked>>

Init ==
    /\ disk = 0 /\ ver = 0
    /\ bak = [b \in Bak |-> NoBakFile] /\ mail = [m \in Mail |-> NoMailFile]
    /\ \E crowd \in Crowds :
         ed = [p \in Proc |-> IF p \in crowd THEN Nobody ELSE [Nobody EXCEPT !.pc = "never"]]
    /\ owed = {} /\ left = {} /\ unlocked = {}

Session(p) ==
    \/ Open(p) \/ Begin(p) \/ Change(p) \/ Write(p) \/ Quit(p) \/ Hangup(p) \/ EndCommand(p)
    \/ LockMail(p) \/ WriteHeader(p) \/ HeaderFails(p)
    \/ BeginSnap(p) \/ EndSnap(p) \/ SnapFails(p) \/ Chmod(p)
    \/ EndSync(p) \/ SyncFails(p)
    \/ Preserve(p) \/ PreserveSync(p) \/ BeginCopy(p) \/ EndCopy(p) \/ CopyFails(p)
    \/ ExitNormal(p) \/ UnlinkBak(p) \/ UnlinkMail(p)

Scanner(p) ==
    \/ \E reads \in BOOLEAN : BeginScan(p, reads)
    \/ \E m \in Mail : ScanOpen(p, m)
    \/ ScanLock(p) \/ ScanReject(p) \/ ScanAccept(p) \/ ScanEnds(p) \/ Recover(p)

Next == Boot \/ \E p \in Proc : Session(p) \/ Scanner(p) \/ Crash(p)

Spec == Init /\ [][Next]_vars

-----------------------------------------------------------------------------
\* What the files are for.

Symmetry == Permutations(Proc)

Files == ({"bak"} \X Bak) \cup ({"mail"} \X Mail)

TypeOK ==
    /\ disk \in Version /\ ver \in Version
    /\ bak \in [Bak -> BakFile] /\ mail \in [Mail -> MailFile]
    /\ ed \in [Proc -> Editor]
    /\ owed \subseteq [mail : Mail, bak : Bak, data : Version]
    /\ left \subseteq Files
    /\ unlocked \subseteq Mail

\* A session that has set up recovery, and did get the lock.
Safe(p) == ed[p].on /\ ed[p].mail # None /\ ed[p].mail \notin unlocked

\* "After the file has been modified the b+tree file exists and is mode 600, the
\* mail recovery file exists, and is exclusively locked" (recover.c), whatever
\* other editors, listings and recoveries do at the same time; and no two
\* sessions share a backing file.
LiveSessionHasItsFiles ==
    \A p \in Proc : Safe(p) /\ ed[p].pc # "unlink" =>
        /\ mail[ed[p].mail].there /\ mail[ed[p].mail].lock = p
        /\ mail[ed[p].mail].path = ed[p].bak
        /\ bak[ed[p].bak].there /\ (ed[p].first \/ ~bak[ed[p].bak].x)
        /\ \A q \in Proc \ {p} : ed[q].bak # ed[p].bak

\* What the user has changed and not written is in the backing file whenever the
\* editor waits for the next command.
SyncedWhenWaiting ==
    \A p \in Proc : At(p, "wait") /\ Safe(p) /\ ~ed[p].first /\ ed[p].mod
        => bak[ed[p].bak].data = ed[p].text

\* Together: whatever happens to the session next, its text can be recovered.
LiveSessionSafe == LiveSessionHasItsFiles /\ SyncedWhenWaiting

\* The files of a session that died, hung up or was preserved stay, paired, as
\* they were, until they are recovered: no clean end, listing, failed recovery
\* or boot takes them away, and somebody can lock them.
PromisesKept ==
    \A o \in owed :
        /\ mail[o.mail].there /\ mail[o.mail].path = o.bak
        /\ bak[o.bak].there /\ bak[o.bak].data = o.data
        /\ \A p \in Proc : mail[o.mail].lock = p => ed[p].pc \in Scanning

\* Files in the recovery directory belong to a running session, or to one that
\* died, hung up or preserved them: a clean end leaves nothing behind.
NothingLeftBehind ==
    LET accounted == left \cup UNION {FilesOf(ed[p]) : p \in Proc}
    IN  /\ \A b \in Bak : bak[b].there => <<"bak", b>> \in accounted
        /\ \A m \in Mail : mail[m].there => <<"mail", m>> \in accounted

\* "Each time the user exec's :preserve, we have to snapshot all of the recovery
\* information, i.e. it's like the user re-edited the file" (rcv_sync): what is
\* preserved is the text the user sees.
PreservesTheText ==
    \A p \in Proc : At(p, "header") /\ ed[p].copy # None
        => bak[ed[p].copy].data = ed[p].text
=============================================================================
