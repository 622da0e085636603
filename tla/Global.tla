------------------------------- MODULE Global -------------------------------
(***************************************************************************)
(* Commands that run other commands: :global, :v and :@ push an EXCMD on   *)
(* the stack gp->ecq, and ex_cmd() runs what is on top until the stack is  *)
(* back to the line the user typed.  A pushed command carries the ranges   *)
(* of lines it has still to run on; ex_g_insdel(), called by every line    *)
(* operation, moves them as lines come and go.                             *)
(*                                                                         *)
(* A line of the file is the set of the commands (by their place in the    *)
(* stack) that are due to run on it and have not yet: history, no guard    *)
(* reads it.  quota and slips are history too.                             *)
(***************************************************************************)
EXTENDS FiniteSets, SequencesExt, Recno

CONSTANTS
    MaxLines,   \* bound: lines in the file
    MaxDepth,   \* bound: commands on the stack
    Cmds,       \* bound: commands in a buffer or after a :global (some do nothing)
    MaxEdits    \* bound: lines one command deletes or inserts

ASSUME BoundAssumption == /\ MaxLines \in Nat /\ MaxEdits \in Nat
                          /\ MaxDepth \in Nat \ {0} /\ Cmds \in Nat \ {0}

VARIABLES
    file,       \* the lines
    stack,      \* gp->ecq; stack[1] is gp->excmd, the last one is being run
    lno,        \* sp->lno
    inglobal,   \* SC_EX_GLOBAL
    running,    \* a command has been parsed and runs
    edits,      \* lines it has deleted or inserted
    slips       \* history: ways in which this command line's ranges lost their lines

vars == <<file, stack, lno, inglobal, running, edits, slips>>

OOBLNO == 0
Kind == {"line", "at_norange", "at", "global"}
Place == 1..MaxDepth
Slip == {"head",     \* the first line a range waits for was deleted
         "inside",   \* a line was inserted between the lines of a range
         "star" }    \* a buffer was run with *, which takes no address

\* Kinds whose ranges ex_g_insdel() keeps.
Kept == {"at", "global"}

\* left: commands not yet parsed (clen); the saved copy (o_cp) has Cmds of them.
Frame == [kind : Kind, ranges : Seq([start : Nat, stop : Nat]), range_lno : Nat,
          left : Nat, quota : Nat]

Top == Last(stack)
Depth == Len(stack)
ValidLine(f) == 1..Longer(1, Len(f))

Base(n) == [kind |-> "line", ranges |-> <<>>, range_lno |-> OOBLNO, left |-> n, quota |-> 0]

\* Command d is due on the lines of M, or on none any more.
Due(f, d, M) == [k \in 1..Len(f) |-> IF k \in M THEN f[k] \cup {d} ELSE f[k] \ {d}]

-----------------------------------------------------------------------------
(* Ranges *)

Live(r) == r.start <= r.stop
Shift(r, n) == [start |-> r.start + n, stop |-> r.stop + n]

\* The i-th number of S, from the least up.
Nth(S, i) == CHOOSE s \in S : Cardinality({k \in S : k <= s}) = i

\* The runs of lines in M, first to last: what the loop of ex_g_setup() builds.
Starts(M) == {k \in M : k - 1 \notin M}
Stop(M, s) == Min({k \in M : k >= s /\ k + 1 \notin M})
RangesOf(M) ==
    [i \in 1..Cardinality(Starts(M)) |->
        LET s == Nth(Starts(M), i) IN [start |-> s, stop |-> Stop(M, s)]]

\* The lines that ranges wait for, and each of them with the place of its range.
LinesOf(rs) == UNION {rs[i].start..rs[i].stop : i \in 1..Len(rs)}
Slots(rs) == UNION {{i} \X (rs[i].start..rs[i].stop) : i \in 1..Len(rs)}

InOrder(rs) == \A i, j \in 1..Len(rs) :
                  i < j /\ Live(rs[i]) /\ Live(rs[j]) => rs[i].stop < rs[j].start

\* Mutant: a line deleted inside a range does not shorten it.
DeleteKeepsStop(r, k) ==
    IF r.stop < k THEN r ELSE IF r.start >= k THEN Shift(r, -1) ELSE r

\* ex_g_insdel() on one range.  A deleted first line moves the range back like
\* any line before it.
DeleteInRange(r, k) ==
    IF r.stop < k THEN r
    ELSE IF r.start >= k THEN Shift(r, -1)
    ELSE [r EXCEPT !.stop = @ - 1]

\* The loop goes on with the range a split has just added, and shifts it again.
InsertInRange(r, k) ==
    IF r.stop < k THEN <<r>>
    ELSE IF r.start >= k THEN <<Shift(r, 1)>>
    ELSE <<[r EXCEPT !.stop = k - 1], Shift([start |-> k + 1, stop |-> r.stop + 1], 1)>>

DeleteInRanges(rs, k) == [i \in 1..Len(rs) |-> DeleteInRange(rs[i], k)]
InsertInRanges(rs, k) == FlattenSeq([i \in 1..Len(rs) |-> InsertInRange(rs[i], k)])

\* ex_g_insdel() over the stack.
InsDel(op, k) ==
    [d \in 1..Depth |->
        IF stack[d].kind \in Kept
          THEN [stack[d] EXCEPT !.ranges = IF op = "DELETE" THEN DeleteInRanges(@, k)
                                                            ELSE InsertInRanges(@, k),
                                !.range_lno = k]
          ELSE stack[d]]

\* Some kept range of which P holds.
SomeRange(P(_)) == \E d \in 1..Depth : stack[d].kind \in Kept /\
                      \E i \in 1..Len(stack[d].ranges) : P(stack[d].ranges[i])

-----------------------------------------------------------------------------
(* Commands *)

\* The user types a command line, in ex mode or after a colon.  One of several
\* commands is the same as several lines, but that a failure discards the rest.
Enter ==
    /\ Depth = 1 /\ Top.left = 0 /\ ~running
    /\ stack' = <<Base(1)>>
    /\ slips' = IF lno \in ValidLine(file) THEN {} ELSE slips
    /\ UNCHANGED <<file, lno, inglobal, running, edits>>

\* ex_cmd() parses the next command of the line on top.
Begin ==
    /\ ~running /\ Top.left > 0
    /\ stack' = [stack EXCEPT ![Depth].left = @ - 1]
    /\ running' = TRUE
    /\ UNCHANGED <<file, lno, inglobal, edits, slips>>

\* It deletes line k (db_delete()).
DeleteLine(k) ==
    /\ running /\ edits < MaxEdits
    /\ file' = RecDelete(file, k)
    /\ stack' = InsDel("DELETE", k)
    /\ edits' = edits + 1
    /\ slips' = slips \cup (IF SomeRange(LAMBDA r : Live(r) /\ r.start = k) THEN {"head"} ELSE {})
    /\ UNCHANGED <<lno, inglobal, running>>

\* It makes a new line k (db_insert(), db_append()).
InsertLine(k) ==
    /\ running /\ edits < MaxEdits /\ Len(file) < MaxLines
    /\ file' = RecInsert(file, k, {})
    /\ stack' = InsDel("INSERT", k)
    /\ edits' = edits + 1
    /\ slips' = slips \cup (IF SomeRange(LAMBDA r : r.start < k /\ k <= r.stop) THEN {"inside"} ELSE {})
    /\ UNCHANGED <<lno, inglobal, running>>

\* It is done, with the cursor in the file, or where it was.
Done(l) ==
    /\ running
    /\ l \in ValidLine(file) \/ (edits = 0 /\ l = lno)
    /\ lno' = l
    /\ running' = FALSE /\ edits' = 0
    /\ UNCHANGED <<file, stack, inglobal, slips>>

\* A command line is pushed, to be run on the lines of M.
Push(kind, rs, M) ==
    /\ running /\ edits = 0 /\ Depth < MaxDepth
    /\ stack' = Append(stack, [kind |-> kind, ranges |-> rs, range_lno |-> OOBLNO,
                               left |-> 0, quota |-> Cardinality(M)])
    /\ file' = Due(file, Depth + 1, M)
    /\ running' = FALSE
    /\ UNCHANGED <<lno, inglobal, edits>>

\* ex_g_setup(): M are the lines in the command's addresses that match (for
\* :v, do not).  Refused while SC_EX_GLOBAL is set.
StartGlobal(M) ==
    /\ ~inglobal /\ file # <<>>
    /\ Push("global", RangesOf(M), M)
    /\ UNCHANGED slips

\* ex_at(): @ with addresses a,b, @ without, and *, whose addresses nobody sets.
StartAt(a, b) == a <= b /\ Push("at", <<[start |-> a, stop |-> b]>>, a..b) /\ UNCHANGED slips
StartAtNoRange ==
    Push("at_norange", <<[start |-> lno, stop |-> lno]>>, {lno}) /\ UNCHANGED slips
StartStar ==
    /\ Push("at", <<[start |-> OOBLNO, stop |-> OOBLNO]>>, {OOBLNO})
    /\ slips' = slips \cup {"star"}

\* ex_discard(), and the end of ex_cmd().
Discard ==
    /\ stack' = <<Base(0)>>
    /\ inglobal' = FALSE
    /\ running' = FALSE /\ edits' = 0

\* A command fails: what is pending is discarded.
Fail ==
    /\ running
    /\ Discard
    /\ file' = [k \in 1..Len(file) |-> {}]
    /\ lno' \in ValidLine(file)
    /\ UNCHANGED slips

\* A command switches to another file or screen, of n lines: fatal for a pending
\* :global or ranged @, not for an @ without one.
Switch(n) ==
    /\ running /\ edits = 0
    /\ IF \E d \in 1..Depth : stack[d].kind \in Kept
         THEN Discard
         ELSE running' = FALSE /\ UNCHANGED <<stack, inglobal, edits>>
    /\ file' = [k \in 1..n |-> {}]
    /\ lno' = 1
    /\ UNCHANGED slips

-----------------------------------------------------------------------------
(* ex_load(): the command line on top has been used up. *)

\* The ranges without the exhausted ones in front.
Remaining(rs) ==
    LET live == {i \in 1..Len(rs) : Live(rs[i])}
    IN  IF live = {} THEN <<>> ELSE SubSeq(rs, Min(live), Len(rs))

Exhausted == ~running /\ Depth > 1 /\ Top.left = 0

\* Mutant: the line a range waits for is not used up.
LoadAgainSame ==
    LET rs == Remaining(Top.ranges)
    IN  /\ Exhausted /\ rs # <<>>
        /\ stack' = [stack EXCEPT ![Depth] =
                       [@ EXCEPT !.ranges = rs, !.range_lno = rs[1].start, !.left = Cmds]]
        /\ lno' = rs[1].start
        /\ inglobal' = (Top.kind = "global")
        /\ UNCHANGED <<file, running, edits, slips>>

\* It is run again, on the next line of its ranges.
LoadAgain ==
    LET rs   == Remaining(Top.ranges)
        next == rs[1].start
    IN  /\ Exhausted /\ rs # <<>>
        /\ stack' = [stack EXCEPT ![Depth] =
                       [Top EXCEPT !.ranges = [rs EXCEPT ![1].start = @ + 1], !.range_lno = next,
                                   !.left = Cmds, !.quota = @ - 1]]
        /\ file' = [k \in 1..Len(file) |-> IF k = next THEN file[k] \ {Depth} ELSE file[k]]
        /\ lno' = next
        /\ inglobal' = (Top.kind = "global")
        /\ UNCHANGED <<running, edits, slips>>

\* "Fix up the last line" of a :global: the cursor goes where it last changed a line.
LastLine(f) ==
    IF f.kind = "global" /\ f.range_lno # OOBLNO
      THEN IF f.range_lno \in 1..Len(file) THEN f.range_lno ELSE Longer(1, Len(file))
      ELSE lno

\* Mutant: SC_EX_GLOBAL outlives the command.
LoadPopKeepsFlag ==
    /\ Exhausted /\ Remaining(Top.ranges) = <<>>
    /\ lno' = LastLine(Top)
    /\ stack' = Front(stack)
    /\ file' = Due(file, Depth, {})
    /\ UNCHANGED <<inglobal, running, edits, slips>>

\* It has run on all its lines.
LoadPop ==
    /\ Exhausted /\ Remaining(Top.ranges) = <<>>
    /\ lno' = LastLine(Top)
    /\ stack' = Front(stack)
    /\ file' = Due(file, Depth, {})
    /\ inglobal' = FALSE
    /\ UNCHANGED <<running, edits, slips>>

-----------------------------------------------------------------------------
Init ==
    /\ file \in {[k \in 1..n |-> {}] : n \in 0..MaxLines}
    /\ stack = <<Base(0)>>
    /\ lno = 1
    /\ inglobal = FALSE
    /\ running = FALSE
    /\ edits = 0
    /\ slips = {}

Lines == 1..Len(file)

\* ex_cmd() at work.
Run ==
    \/ Begin \/ Fail \/ LoadAgain \/ LoadPop
    \/ \E k \in Lines : DeleteLine(k)
    \/ \E k \in 1..Len(file) + 1 : InsertLine(k)
    \/ \E l \in ValidLine(file) \cup {lno} : Done(l)
    \/ \E M \in SUBSET Lines : StartGlobal(M)
    \/ \E a, b \in Lines : StartAt(a, b)
    \/ StartAtNoRange \/ StartStar
    \/ \E n \in 0..MaxLines : Switch(n)

Next == Run \/ Enter

\* ex_cmd() is a plain loop: it does not stop before it returns.
Spec == Init /\ [][Next]_vars /\ WF_vars(Run)

-----------------------------------------------------------------------------
(* What makes the command stack correct.                                   *)

TypeOK ==
    /\ file \in Seq(SUBSET Place)
    /\ stack \in Seq(Frame) /\ Depth \in Place
    /\ lno \in Nat
    /\ inglobal \in BOOLEAN /\ running \in BOOLEAN
    /\ edits \in 0..MaxEdits
    /\ slips \in SUBSET Slip

\* The lines a command on the stack waits for, by its ranges and by its history.
Waits(d) == LinesOf(stack[d].ranges)
WaitCount(d) == Cardinality(Slots(stack[d].ranges))
Owed(d) == {k \in 1..Len(file) : d \in file[k]}

Pushed == {d \in 1..Depth : stack[d].kind # "line"}
KeptFrames == {d \in 1..Depth : stack[d].kind \in Kept}

\* The ranges name exactly the lines the command was pushed for and has not run
\* on, first to last and each once, whatever lines the commands have deleted
\* before, inside and after the ranges and inserted before and after them.
RangesKeepTheirLines ==
    slips = {} => \A d \in KeptFrames :
        /\ Waits(d) = Owed(d)
        /\ WaitCount(d) = Cardinality(Owed(d))
        /\ InOrder(stack[d].ranges)

\* Even when ranges have lost their lines, a command is never run more often
\* than there were lines for it.
NoExtraRuns == \A d \in Pushed : WaitCount(d) <= stack[d].quota

\* Together, so that a command runs once on each of its lines and on no other.
RangesSound == RangesKeepTheirLines /\ NoExtraRuns

\* Between commands the cursor is in the file, so that the next command, or the
\* vi screen, finds its line.
CursorInFile == slips = {} /\ ~running => lno \in ValidLine(file)

\* SC_EX_GLOBAL is only set while a :global or :v is pending.
FlagMeansGlobal == inglobal => \E d \in 1..Depth : stack[d].kind = "global"

\* Between commands the stack is in step with the session: the cursor is on a line
\* and the flag that forbids nested globals is up for a pending one only (the ends
\* of a global in ex_load(), ex.c:2096 and 2117).
StackSound == CursorInFile /\ FlagMeansGlobal

\* Running a buffer or a global comes to an end, however the commands change
\* the file below the ranges.
StackUnwinds == Depth > 1 ~> Depth = 1

\* A command is only run on lines it was pushed for, but for the slips excused.
OnItsLine(excused) ==
    LoadAgain /\ Top.kind \in Kept /\ slips \subseteq excused
        => lno' \in 1..Len(file) /\ Depth \in file[lno']

\* "We first have to decide which lines are going to get passed to the command,
\* and then pass them to the command, ignoring other changes" (ex_g_setup), when
\* no line a range begins with was deleted.
RunsOnItsLinesAfterInsert == [][OnItsLine({"inside"})]_vars
=============================================================================
