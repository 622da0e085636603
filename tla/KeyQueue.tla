------------------------------ MODULE KeyQueue ------------------------------
(***************************************************************************)
(* The queue of events between the terminal and the editor: v_event_get(), *)
(* v_event_push(), v_event_append() and v_event_flush() of common/key.c,   *)
(* the list of maps and abbreviations they consult (common/seq.c), what    *)
(* cl/cl_read.c delivers, and the readers that decide what happens next:   *)
(* v_key(), v_count() and the command loop of vi/vi.c, and v_txt().        *)
(*                                                                         *)
(* A key means to the readers whatever it may mean: only digits, the       *)
(* characters of words and <escape> are told apart.                        *)
(***************************************************************************)
EXTENDS Integers, SequencesExt

CONSTANTS
    Keys,            \* the characters, numbers as the list of maps is sorted
    Digits,          \* isdigit()
    Words,           \* inword()
    Escape,          \* <escape>
    Entries,         \* what :map, :map! and :abbreviate may be given
    Pushes,          \* what an @ buffer may hold
    Leftovers,       \* what the record of an event may hold that is no key
    Remap,           \* values of the option remap
    PushShift,       \* TERM_PUSH_SHIFT, 30
    MinGrow,         \* the least the buffer grows by, 64
    CheckEvery,      \* expansions between two checks for interrupts, 10
    MaxExpansion,    \* MAX_ABBREVIATION_EXPANSION, 256
    MaxTyped,        \* bound: keys typed
    MaxEntries,      \* bound: maps and abbreviations at a time
    MaxQueue         \* bound: keys waiting when an @ buffer is executed

\* An entry of the list of maps and abbreviations.
SEQ == [stype : {"command", "input", "abbrev"},
        input : Seq(Keys) \ {<<>>}, output : Seq(Keys) \ {<<>>}]

ASSUME KeyAssumption ==
  /\ PushShift \in Nat /\ MinGrow \in Nat \ {0}
  /\ Keys \subseteq Nat /\ Digits \subseteq Keys /\ Escape \in Keys
  /\ Words \subseteq Keys \ {Escape} /\ Leftovers \subseteq Keys
  /\ Entries \subseteq SEQ
  /\ Pushes \subseteq Seq(Keys) \ {<<>>}
  /\ Remap \subseteq BOOLEAN
  /\ CheckEvery \in Nat \ {0, 1} /\ MaxExpansion \in Nat

VARIABLES
    tty,             \* characters typed and not read yet
    sigint,          \* cl_sigint: an interrupt was caught
    interrupted,     \* G_INTERRUPTED
    seqq,            \* the list of maps and abbreviations
    remap,           \* the option remap
    buf,             \* the queue, i_next and i_nelem
    pc,              \* where v_event_get() is, or "ready": its caller has the event
    get,             \* its timeout, istimeout, remap_cnt and evp
    got,             \* the event it returned
    ctx,             \* what the caller is reading
    quote,           \* EC_QUOTED
    word,            \* the end of the word being typed into the text
    abcnt,           \* abbreviated characters in a row
    used             \* keys typed so far

vars == <<tty, sigint, interrupted, seqq, remap, buf, pc, get, got, ctx, quote, word, abcnt, used>>

Flags == {"mapped", "nomap", "quoted", "abbreviated"}
Event == [type : {"key", "interrupt", "resize"}, c : Keys, flags : SUBSET Flags]
NotDigit == [type |-> "notdigit", c |-> 0, flags |-> {}]        \* CH_NOT_DIGIT

AsEvents(s, flags) == [i \in 1..Len(s) |-> [type |-> "key", c |-> s[i], flags |-> flags]]

(* An event that is not a key: the rest of its record is what was there.   *)
Odd(type) == {[type |-> type, c |-> k, flags |-> f] : k \in Leftovers, f \in {{}, {"mapped"}}}

Rest(s, n) == SubSeq(s, n + 1, Len(s))
Larger(a, b) == IF a > b THEN a ELSE b

-----------------------------------------------------------------------------
(* The list of maps: one list for all types, kept in the order of the      *)
(* inputs within each type so that a search may stop early.                *)

Before(a, b) == \E i \in DOMAIN a \cap DOMAIN b : a[i] < b[i] /\ \A j \in 1..i - 1 : a[j] = b[j]

(* What the loop of seq_find() does at an entry; the search of keys from   *)
(* the terminal takes an entry shorter than the string, and notices one    *)
(* that the string only begins.                                            *)
Verdict(e, s, stype, terminal) ==
  LET a == e.input
  IN  IF a[1] > s[1] THEN "stop"
      ELSE IF a[1] < s[1] \/ e.stype # stype \/ Before(a, s) THEN "next"
      ELSE IF Before(s, a) THEN "stop"
      ELSE IF Len(a) = Len(s) \/ (terminal /\ Len(a) < Len(s)) THEN "match"
      ELSE IF terminal THEN "partial"
      ELSE IF Len(a) < Len(s) THEN "next" ELSE "stop"

Result(what, at) == [what |-> what, at |-> at]

seq_find(L, s, stype, terminal) ==
  LET i == SelectInSeq(L, LAMBDA e : Verdict(e, s, stype, terminal) # "next")
  IN  IF i = 0 THEN Result("stop", Len(L) + 1) ELSE Result(Verdict(L[i], s, stype, terminal), i)

\* Forgets the order the search relies on.
SetFirst(L, e) ==
  LET f == seq_find(L, e.input, e.stype, FALSE)
  IN  IF f.what = "match" THEN [L EXCEPT ![f.at].output = e.output] ELSE <<e>> \o L

seq_set(L, e) ==
  LET f == seq_find(L, e.input, e.stype, FALSE)
  IN  IF f.what = "match" THEN [L EXCEPT ![f.at].output = e.output] ELSE InsertAt(L, f.at, e)

seq_delete(L, e) ==
  LET f == seq_find(L, e.input, e.stype, FALSE)
  IN  IF f.what = "match" THEN RemoveAt(L, f.at) ELSE L

-----------------------------------------------------------------------------
(* The buffer: q is what waits, in the slots next + 1 to next + Len(q) of  *)
(* nelem.                                                                  *)

QREM(b, n) == [b EXCEPT !.q = Rest(@, n), !.next = IF n = Len(b.q) THEN 0 ELSE @ + n]

\* v_event_grow() asks for add more; binc() adds what it is asked to hold.
Grow(b, add) == [b EXCEPT !.nelem = @ + (@ + add)]

v_event_push(b, s) ==
  LET n     == Len(s)
      total == Len(b.q) + b.next + n + PushShift
      g     == IF total >= b.nelem THEN Grow(b, Larger(total, MinGrow)) ELSE b
  IN  IF n <= b.next \/ (b.nelem > 0 /\ b.q = <<>> /\ n <= b.nelem)
        THEN [b EXCEPT !.q = s \o @, !.next = IF b.q = <<>> THEN @ ELSE @ - n]
        ELSE [g EXCEPT !.q = s \o @, !.next = PushShift]

\* Takes the slots before the next event for free.
AppendFromStart(b, s) ==
  LET g == IF b.nelem = 0 \/ Len(s) > b.nelem - Len(b.q)
             THEN Grow(b, Larger(Len(s), MinGrow)) ELSE b
  IN  [g EXCEPT !.q = @ \o s]

v_event_append(b, s) ==
  LET g == IF b.nelem = 0 \/ Len(s) > b.nelem - (b.next + Len(b.q))
             THEN Grow(b, Larger(Len(s), MinGrow)) ELSE b
  IN  [g EXCEPT !.q = @ \o s]

v_event_flush(b, flag) ==
  LET k == SelectInSeq(b.q, LAMBDA e : flag \notin e.flags)
  IN  QREM(b, IF k = 0 THEN Len(b.q) ELSE k - 1)

(* What evp points at once a map was taken out of b and c is what became   *)
(* of it: a slot that may hold another event by now, or that was freed.    *)
StaleEvents(b, c) ==
  LET i == b.next + 1 - c.next
  IN  IF c.nelem # b.nelem THEN {AsEvents(<<k>>, {})[1] : k \in Keys}
                           ELSE {IF i \in DOMAIN c.q THEN c.q[i] ELSE b.q[1]}

-----------------------------------------------------------------------------
(* v_event_get().  Its caller's flags follow from what is being read:      *)
(* commands and counts apply the command map, text the input map unless    *)
(* the key is quoted, and the rest of a command no map.  "match" is the    *)
(* wait after a matching bracket was shown, EC_TIMEOUT.                    *)

Reading == {"command", "motion", "count", "plain", "input", "match"}

MapOf(c, q) == CASE c \in {"command", "motion", "count"} -> "command"
                 [] c = "input" /\ ~q                     -> "input"
                 [] OTHER                                 -> "none"

NoLocals == [timed |-> FALSE, istimeout |-> FALSE, remap_cnt |-> 0, evp |-> NotDigit]

(* A call with b as the queue.  What the call before returned is used up.  *)
Get(b, c, q) ==
  /\ buf' = b /\ ctx' = c /\ quote' = q
  /\ get' = [NoLocals EXCEPT !.timed = (c = "match")]
  /\ pc' = IF b.q = <<>> THEN "read" ELSE "map"
  /\ got' = NotDigit

Return(b, e) ==
  /\ buf' = b /\ got' = e /\ pc' = "ready" /\ get' = NoLocals
  /\ UNCHANGED <<ctx, quote>>

(* The read brought events, or none in time.  A caller that only waits     *)
(* for them has no further use for them.                                   *)
Arrived(s) ==
  /\ buf' = IF s = <<>> THEN buf ELSE v_event_append(buf, s)
  /\ IF ctx = "match" THEN pc' = "ready" /\ get' = NoLocals
                      ELSE pc' = "map" /\ get' = [get EXCEPT !.istimeout = (s = <<>>)]
  /\ UNCHANGED <<got, ctx, quote>>

Elsewhere == UNCHANGED <<seqq, remap, word, abcnt, used>>

ReadInterrupt ==
  /\ pc = "read" /\ sigint
  /\ sigint' = FALSE /\ interrupted' = TRUE
  /\ \E e \in Odd("interrupt") : Arrived(<<e>>)
  /\ Elsewhere /\ UNCHANGED tty

(* The other signals are looked at nowhere else, so they come when a read  *)
(* would see them.  E_SIGHUP and E_SIGTERM, and the end of the input and   *)
(* its errors: the files are synced.                                       *)
ReadFatal ==
  /\ pc = "read" /\ ~sigint
  /\ pc' = "ended"
  /\ Elsewhere /\ UNCHANGED <<tty, sigint, interrupted, buf, get, got, ctx, quote>>

ReadResize ==
  /\ pc = "read" /\ ~sigint
  /\ \E e \in Odd("resize") : Arrived(<<e>>)
  /\ Elsewhere /\ UNCHANGED <<tty, sigint, interrupted>>

ReadKeys ==
  /\ pc = "read" /\ ~sigint /\ tty # <<>>
  /\ tty' = <<>> /\ Arrived(AsEvents(tty, {}))
  /\ Elsewhere /\ UNCHANGED <<sigint, interrupted>>

ReadTimeout ==
  /\ pc = "read" /\ ~sigint /\ tty = <<>> /\ get.timed
  /\ Arrived(<<>>)
  /\ Elsewhere /\ UNCHANGED <<tty, sigint, interrupted>>

\* not_digit
TellNotDigit(b) == Return(b, NotDigit)

Chars(q) == [i \in 1..Len(q) |-> q[i].c]
Found == seq_find(seqq, Chars(buf.q), MapOf(ctx, quote), TRUE)
Mappable ==
  /\ ~get.istimeout /\ "nomap" \notin buf.q[1].flags
  /\ MapOf(ctx, quote) # "none"

AtKey == pc = "map" /\ buf.q[1].type = "key"

MapEvent ==
  /\ pc = "map" /\ buf.q[1].type # "key"
  /\ Return(QREM(buf, 1), buf.q[1])
  /\ Elsewhere /\ UNCHANGED <<tty, sigint, interrupted>>

MapNone ==
  /\ AtKey /\ (Mappable => Found.what = "stop")
  /\ pc' = "nomap" /\ get' = [get EXCEPT !.evp = buf.q[1]]
  /\ Elsewhere /\ UNCHANGED <<tty, sigint, interrupted, buf, got, ctx, quote>>

\* The option timeout is set: keytime or escapetime.
MapPartial ==
  /\ AtKey /\ Mappable /\ Found.what = "partial"
  /\ pc' = "read" /\ get' = [get EXCEPT !.timed = TRUE]
  /\ Elsewhere /\ UNCHANGED <<tty, sigint, interrupted, buf, got, ctx, quote>>

Match == AtKey /\ Mappable /\ Found.what = "match"
EndOfCount(e) == ctx = "count" /\ e.output[1] \notin Digits

MapDigits ==
  /\ Match /\ EndOfCount(seqq[Found.at])
  /\ TellNotDigit(buf)
  /\ Elsewhere /\ UNCHANGED <<tty, sigint, interrupted>>

\* remap_cnt stays where it is, so that no expansion is ever due.
CountStuck(n) == n

\* ++remap_cnt == 1 || remap_cnt % 10 == 0
Count(n) == IF n + 1 = 2 * CheckEvery THEN CheckEvery ELSE n + 1
CheckDue(n) == Count(n) \in {1, CheckEvery}

\* Whether the first keys of the output are the ones that were mapped.
InitNomap(e) == Len(e.input) <= Len(e.output) /\ SubSeq(e.output, 1, Len(e.input)) = e.input

\* Pushes the two parts of the output in the order they are spelled.
ExpansionSwapped(e) ==
  IF InitNomap(e)
    THEN v_event_push(v_event_push(QREM(buf, Len(e.input)), AsEvents(e.input, {"mapped", "nomap"})),
                      AsEvents(Rest(e.output, Len(e.input)), {"mapped"}))
    ELSE v_event_push(QREM(buf, Len(e.input)), AsEvents(e.output, {"mapped"}))

Expansion(e) ==
  IF InitNomap(e)
    THEN v_event_push(v_event_push(QREM(buf, Len(e.input)),
                                   AsEvents(Rest(e.output, Len(e.input)), {"mapped"})),
                      AsEvents(e.input, {"mapped", "nomap"}))
    ELSE v_event_push(QREM(buf, Len(e.input)), AsEvents(e.output, {"mapped"}))

MapRemap ==
  LET e == seqq[Found.at]
  IN  /\ Match /\ ~EndOfCount(e) /\ remap /\ ~(CheckDue(get.remap_cnt) /\ sigint)
      /\ buf' = Expansion(e)
      /\ pc' = IF InitNomap(e) THEN "nomap" ELSE "map"
      /\ get' = [get EXCEPT !.remap_cnt = Count(@), !.evp = IF InitNomap(e) THEN buf'.q[1] ELSE @]
      /\ Elsewhere /\ UNCHANGED <<tty, sigint, interrupted, got, ctx, quote>>

(* The keys that were mapped are gone by now.                              *)
MapInterrupted ==
  LET e == seqq[Found.at]
  IN  /\ Match /\ ~EndOfCount(e) /\ remap /\ CheckDue(get.remap_cnt) /\ sigint
      /\ sigint' = FALSE /\ interrupted' = TRUE
      /\ Return(QREM(buf, Len(e.input)), [type |-> "interrupt", c |-> Escape, flags |-> {}])
      /\ Elsewhere /\ UNCHANGED tty

(* With noremap evp is not set again.                                      *)
MapOnce ==
  LET e == seqq[Found.at]
      b == v_event_push(QREM(buf, Len(e.input)), AsEvents(e.output, {"mapped", "nomap"}))
  IN  /\ Match /\ ~EndOfCount(e) /\ ~remap
      /\ buf' = b /\ pc' = "nomap"
      /\ \E x \in StaleEvents(buf, b) : get' = [get EXCEPT !.evp = x]
      /\ Elsewhere /\ UNCHANGED <<tty, sigint, interrupted, got, ctx, quote>>

\* nomap
Deliver ==
  /\ pc = "nomap"
  /\ IF ctx = "count" /\ get.evp.c \notin Digits THEN TellNotDigit(buf)
                                                 ELSE Return(QREM(buf, 1), get.evp)
  /\ Elsewhere /\ UNCHANGED <<tty, sigint, interrupted>>

-----------------------------------------------------------------------------
(* The readers.  Each action takes the event v_event_get() returned and    *)
(* ends with the next call.                                                *)

NoWord == [text |-> <<>>, inword |-> FALSE]
Has(types) == pc = "ready" /\ got.type \in types
Outside == UNCHANGED <<tty, seqq, remap, used>>
InText == UNCHANGED <<sigint, interrupted, abcnt>> /\ Outside

(* The end of the vi loop: an interrupt, looked for unless the flag is     *)
(* set already, discards the mapped keys; so does a failure.               *)
EndCommand(b, failed) ==
  /\ Get(IF failed \/ interrupted \/ sigint THEN v_event_flush(b, "mapped") ELSE b,
         "command", FALSE)
  /\ sigint' = IF interrupted THEN sigint ELSE FALSE
  /\ interrupted' = FALSE /\ word' = NoWord /\ abcnt' = 0 /\ Outside

InCommand == ctx \in {"command", "motion", "plain"}

\* GC_OK, and GC_ERR from the command or from v_cmd() itself
CommandEnds(failed) == Has({"key"}) /\ InCommand /\ EndCommand(buf, failed)

\* GC_INTERRUPT: no need to look for one
CommandInterrupted ==
  /\ Has({"interrupt"}) /\ InCommand
  /\ Get(v_event_flush(buf, "mapped"), "command", FALSE)
  /\ interrupted' = FALSE /\ word' = NoWord /\ abcnt' = 0
  /\ Outside /\ UNCHANGED sigint

\* GC_ERR after a change of the size; v_count() gives up for both
CommandBroken ==
  /\ \/ Has({"resize"}) /\ (InCommand \/ ctx = "count")
     \/ Has({"interrupt"}) /\ ctx = "count"
  /\ EndCommand(buf, TRUE)

\* a motion, or the second key, buffer or character of a command
CommandGoesOn ==
  /\ Has({"key"}) /\ ctx \in {"command", "motion"}
  /\ \E c \in IF ctx = "motion" THEN {"plain"} ELSE {"motion", "plain"} : Get(buf, c, FALSE)
  /\ InText /\ UNCHANGED word

CountStarts ==
  /\ Has({"key"}) /\ ctx = "command" /\ got.c \in Digits
  /\ Get(buf, "count", FALSE) /\ InText /\ UNCHANGED word

CountGoesOn ==
  /\ Has({"key"}) /\ ctx = "count" /\ Get(buf, "count", FALSE) /\ InText /\ UNCHANGED word

CountEnds ==
  /\ Has({"notdigit"}) /\ Get(buf, "command", FALSE) /\ InText /\ UNCHANGED word

\* ^V in the command stream
QuoteCommand ==
  /\ Has({"key"}) /\ ctx \in {"command", "motion"} /\ ~quote
  /\ Get(buf, ctx, TRUE) /\ InText /\ UNCHANGED word

\* v_alias(): C, D, S and Y
Alias ==
  /\ Has({"key"}) /\ ctx = "command"
  /\ \E k \in Keys \ (Digits \cup {Escape}) :
        Get(v_event_push(buf, AsEvents(<<k>>, {"nomap", "quoted"})), "motion", FALSE)
  /\ InText /\ UNCHANGED word

v_at ==
  /\ Has({"key"}) /\ ctx = "plain"
  /\ \E s \in Pushes : Len(buf.q) + Len(s) <= MaxQueue
                       /\ EndCommand(v_event_push(buf, AsEvents(s, {})), FALSE)

(* :map, :unmap, :abbreviate and :unabbreviate are commands of their own.  *)
ex_map ==
  /\ Has({"key"}) /\ ctx = "command"
  /\ \E e \in Entries : seqq' \in {seq_set(seqq, e), seq_delete(seqq, e)} \ {seqq}
  /\ Len(seqq') <= MaxEntries
  /\ UNCHANGED <<tty, sigint, interrupted, remap, buf, pc, get, got, ctx, quote, word, abcnt, used>>

-----------------------------------------------------------------------------
(* Text input.                                                             *)

TextStarts ==
  /\ Has({"key"}) /\ ctx = "command"
  /\ Get(buf, "input", FALSE) /\ word' = NoWord /\ InText

(* The key the reader acts on: <escape> stands for an interrupt or a       *)
(* change of the size.                                                     *)
TextKey == IF got.type = "key" THEN got ELSE AsEvents(<<Escape>>, {})[1]

AtText == pc = "ready" /\ ctx = "input"
Abbreviated == "abbreviated" \in TextKey.flags
Overflow == Abbreviated /\ abcnt + 1 > MaxExpansion
abcntNext == IF Abbreviated THEN abcnt + 1 ELSE 0


(* What the word before the cursor ends with, as far as an abbreviation is *)
(* long, and whether the last key that was not quoted belongs to it.       *)
MaxWord == 2
Insert(w, c) ==
  LET t == Append(w.text, c)
  IN  IF c \in Words THEN [w EXCEPT !.text = Rest(t, Larger(0, Len(t) - (MaxWord + 1)))]
                     ELSE [w EXCEPT !.text = <<>>]

WordFound == seq_find(seqq, word.text, "abbrev", FALSE)
Abbreviates ==
  /\ ~quote /\ TextKey.c \notin Words
  /\ word.inword /\ word.text # <<>> /\ WordFound.what = "match"

TextOverflow ==
  /\ AtText /\ Overflow
  /\ Get(v_event_flush(buf, "abbreviated"), "input", quote)
  /\ abcnt' = 0 /\ Outside /\ UNCHANGED <<sigint, interrupted, word>>

\* txt_abbrev()
TextAbbreviation ==
  /\ AtText /\ ~Overflow /\ Abbreviates
  /\ LET e == seqq[WordFound.at]
     IN  Get(v_event_push(v_event_push(buf, AsEvents(<<TextKey.c>>, {"abbreviated"})),
                          AsEvents(e.output, {"abbreviated"})), "input", FALSE)
  /\ word' = [word EXCEPT !.text = <<>>] /\ abcnt' = abcntNext
  /\ Outside /\ UNCHANGED <<sigint, interrupted>>

TextQuoted ==
  /\ AtText /\ ~Overflow /\ quote
  /\ word' = Insert(word, TextKey.c) /\ abcnt' = abcntNext
  /\ Get(buf, "input", FALSE)
  /\ Outside /\ UNCHANGED <<sigint, interrupted>>

AtPlainKey == AtText /\ ~Overflow /\ ~quote /\ ~Abbreviates
Special == TextKey.c \notin Words \cup {Escape} /\ "quoted" \notin TextKey.flags

TextGoesOn ==
  /\ AtPlainKey /\ (TextKey.c # Escape \/ "quoted" \in TextKey.flags)
  /\ word' = [Insert(word, TextKey.c) EXCEPT !.inword = TextKey.c \in Words]
  /\ abcnt' = abcntNext
  /\ Get(buf, "input", FALSE)
  /\ Outside /\ UNCHANGED <<sigint, interrupted>>

\* ^V; abbreviations are not looked for
TextQuotes ==
  /\ AtText /\ ~Overflow /\ ~quote /\ Special
  /\ abcnt' = abcntNext
  /\ Get(buf, "input", TRUE)
  /\ Outside /\ UNCHANGED <<sigint, interrupted, word>>

TextEnds ==
  /\ AtPlainKey /\ TextKey.c = Escape /\ "quoted" \notin TextKey.flags
  /\ EndCommand(buf, FALSE)

\* txt_showmatch() is not called when keys are waiting.
TextShowsMatch ==
  /\ AtPlainKey /\ Special /\ buf.q = <<>>
  /\ word' = NoWord /\ abcnt' = abcntNext
  /\ Get(buf, "match", FALSE)
  /\ Outside /\ UNCHANGED <<sigint, interrupted>>

MatchShown ==
  /\ pc = "ready" /\ ctx = "match"
  /\ Get(buf, "input", FALSE) /\ InText /\ UNCHANGED word

-----------------------------------------------------------------------------
(* The user and the kernel.  An interrupt typed at the terminal also drops *)
(* what was typed and not read; a key that is being quoted may be one.     *)

World == UNCHANGED <<interrupted, seqq, remap, buf, pc, get, got, ctx, quote, word, abcnt>>

Type ==
  /\ pc # "ended" /\ used < MaxTyped
  /\ \E k \in Keys : tty' = Append(tty, k)
  /\ used' = used + 1
  /\ World /\ UNCHANGED sigint

Interrupt ==
  /\ pc # "ended" /\ ~(pc = "read" /\ quote)
  /\ sigint' = TRUE /\ tty' \in {tty, <<>>}
  /\ World /\ UNCHANGED used

Init ==
  /\ tty = <<>> /\ sigint = FALSE
  /\ interrupted = FALSE /\ seqq = <<>> /\ remap \in Remap
  /\ buf = [q |-> <<>>, next |-> 0, nelem |-> 0]
  /\ pc = "read" /\ get = NoLocals /\ got = NotDigit /\ ctx = "command" /\ quote = FALSE
  /\ word = NoWord /\ abcnt = 0 /\ used = 0

Signal == ReadFatal \/ ReadResize

GetStep ==
  \/ ReadInterrupt \/ ReadKeys \/ ReadTimeout
  \/ MapEvent \/ MapNone \/ MapPartial \/ MapDigits \/ MapRemap \/ MapInterrupted \/ MapOnce
  \/ Deliver

Reader ==
  \/ CommandEnds(FALSE) \/ CommandEnds(TRUE) \/ CommandInterrupted \/ CommandBroken
  \/ CommandGoesOn \/ CountStarts \/ CountGoesOn \/ CountEnds \/ QuoteCommand \/ Alias \/ v_at
  \/ TextStarts \/ TextOverflow \/ TextAbbreviation \/ TextQuoted \/ TextGoesOn \/ TextQuotes
  \/ TextEnds \/ TextShowsMatch \/ MatchShown

Next == GetStep \/ Signal \/ Reader \/ ex_map \/ Type \/ Interrupt

(* The editor runs whenever it can; nobody has to type anything, and a map *)
(* command is not repeated for ever.                                       *)
Fairness == WF_vars(GetStep \/ Reader)

Spec == Init /\ [][Next]_vars /\ Fairness

-----------------------------------------------------------------------------
(* The buffer never overruns: the events that wait lie within the slots    *)
(* allocated, an empty queue starts at the first one, and v_event_get()    *)
(* looks at the next event only when there is one (QREM, v_event_push(),   *)
(* v_event_append() and the paths through newmap).                         *)
BufferHolds ==
  /\ buf.next + Len(buf.q) <= buf.nelem
  /\ buf.q = <<>> => buf.next = 0
  /\ pc \in {"map", "nomap"} => buf.q # <<>>

(* The early ends of seq_find() miss nothing: every entry is found again   *)
(* by its input, so that :unmap works and no input is there twice, and     *)
(* keys from the terminal give the shortest entry they begin with, or a    *)
(* partial match just when some entry begins with them.                    *)
MapsAreFound ==
  LET keys == Chars(buf.q)
      mine == {i \in DOMAIN seqq : seqq[i].stype = MapOf(ctx, quote)}
      full == {i \in mine : IsPrefix(seqq[i].input, keys)}
  IN  /\ \A i \in DOMAIN seqq :
            seq_find(seqq, seqq[i].input, seqq[i].stype, FALSE) = Result("match", i)
      /\ AtKey /\ Mappable =>
            CASE Found.what = "match"   -> /\ Found.at \in full
                                           /\ \A i \in full : Len(seqq[Found.at].input)
                                                                <= Len(seqq[i].input)
              [] Found.what = "partial" -> full = {} /\ \E i \in mine : IsPrefix(keys, seqq[i].input)
              [] OTHER -> full = {} /\ ~\E i \in mine : IsPrefix(keys, seqq[i].input)

(* Keys are delivered in order, none lost, doubled or left unmapped,       *)
(* whatever the buffer did: the queue implements the abstract stream.      *)
Stream == INSTANCE KeyStream WITH q <- buf.q, maps <- {seqq[i] : i \in DOMAIN seqq},
                                  mode <- MapOf(ctx, quote)
KeysInOrder == Stream!Spec

(* An interrupt stops a macro that feeds itself, as the comment on         *)
(* v_event_get() promises: in the end no mapped key is waiting, or the     *)
(* editor waits for the user - unless the interrupt came while keys that   *)
(* begin a map waited for more, when it is queued behind them and may be   *)
(* swallowed.  With noremap the promise is not kept.                       *)
Stopped ==
  \/ pc = "ended" \/ (pc = "read" /\ buf.q = <<>>)
  \/ pc \in {"read", "map"} /\ ctx = "command" /\ "mapped" \notin buf.q[1].flags
Queued == \E i \in DOMAIN buf.q : buf.q[i].type = "interrupt"
InterruptStopsMacro == (remap /\ sigint) ~> (Stopped \/ Queued)
=============================================================================
