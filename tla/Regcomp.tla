------------------------------- MODULE Regcomp -------------------------------
(***************************************************************************)
(* The compiler of src/regex: regcomp() turns a pattern into a strip of    *)
(* operators.  A pattern is a sequence of characters; a parse is a record: *)
(*   next    what is left of the pattern     strip    the operators so far *)
(*   pbegin, pend  where the i-th group begins and ends, 0 when not yet    *)
(*   sets    the bracket sets in use         cs       the set being built  *)
(*   val     what the last parsing function returned                       *)
(* and the counts nsub, nbol, neol, backrefs, error of struct re_guts.     *)
(* Strip positions start at 1.  REG_NEWLINE, which the editor never asks   *)
(* for, and the failure of an allocation are left out.                     *)
(***************************************************************************)
EXTENDS Integers, Sequences, FiniteSets, SequencesExt

CONSTANTS Chars,      \* the characters, a sequence in ascending order
          Other,      \* the other case of each letter that has one
          Classes,    \* the characters of each [:class:] name
          DupMax      \* DUPMAX

NParen   == 10
Infinity == DupMax + 1
Digit    == [c \in {"0", "1", "2", "3"} |->
               CASE c = "0" -> 0 [] c = "1" -> 1 [] c = "2" -> 2 [] OTHER -> 3]
CharSet  == ToSet(Chars)
Letters  == DOMAIN Other \cup DOMAIN Classes
Ord(c)   == IF c \in CharSet THEN CHOOSE i \in DOMAIN Chars : Chars[i] = c ELSE 0

(* The reading macros.                                                     *)
More(p)         == p.next # <<>>
More2(p)        == Len(p.next) > 1
See(p, c)       == More(p) /\ Head(p.next) = c
SeeTwo(p, a, b) == More2(p) /\ p.next[1] = a /\ p.next[2] = b
Peek2(p)        == IF More2(p) THEN p.next[2] ELSE "nul"
Skip(p, n)      == [p EXCEPT !.next = SubSeq(@, n + 1, Len(@))]
SeeDigit(p)     == More(p) /\ Head(p.next) \in DOMAIN Digit

(* seterr: the earliest error is kept and nothing more is read.            *)
SetError(p, e)    == [p EXCEPT !.error = IF @ = "" THEN e ELSE @, !.next = <<>>]
Require(p, co, e) == IF co THEN p ELSE SetError(p, e)

Here(p)  == Len(p.strip) + 1
There(p) == Len(p.strip)

Emit(p, op, n) ==
  IF p.error # "" THEN p ELSE [p EXCEPT !.strip = Append(@, [op |-> op, n |-> n])]

Astern(p, op, pos) == Emit(p, op, Here(p) - pos)
Ahead(p, pos) == IF p.error # "" THEN p ELSE [p EXCEPT !.strip[pos].n = Here(p) - pos]
Drop(p, n)    == [p EXCEPT !.strip = SubSeq(@, 1, Len(@) - n)]

(* Mutant of Insert: the group pointers are not moved.                     *)
InsertOnly(p, op, pos) ==
  IF p.error # "" THEN p
  ELSE [p EXCEPT !.strip = InsertAt(@, pos, [op |-> op, n |-> Here(p) - pos + 1])]

Insert(p, op, pos) ==
  LET Up(f) == [i \in DOMAIN f |-> IF f[i] >= pos THEN f[i] + 1 ELSE f[i]]
  IN  IF p.error # "" THEN p
      ELSE [p EXCEPT !.strip  = InsertAt(@, pos, [op |-> op, n |-> Here(p) - pos + 1]),
                     !.pbegin = Up(@), !.pend = Up(@)]

Dupl(p, start, finish) == [p EXCEPT !.strip = @ \o SubSeq(@, start, finish - 1)]

(* x+ , x* as (x+)? and the end of x? written (x|), from pos on.           *)
Plus(p, pos) == Astern(Insert(p, "OPLUS_", pos), "O_PLUS", pos)
Star(p, pos) == Astern(Insert(Plus(p, pos), "OQUEST_", pos), "O_QUEST", pos)
FixLast(p)   == Ahead(p, There(p))
EndChoice(p) == Astern(p, "O_CH", There(p) - 1)
OrNothing(p, pos) ==
  EndChoice(FixLast(Emit(Ahead(Astern(p, "OOR1", pos), pos), "OOR2", 0)))
Optional(p, pos) == OrNothing(Insert(p, "OCH_", pos), pos)

RECURSIVE Repeat(_, _, _, _)
RepeatCopy(p, start, finish, to) ==
  Repeat(Dupl(p, start + 1, finish + 1), Here(p), 1, to - 1)

Repeat(p, start, from, to) ==
  LET finish == Here(p)
      less   == IF to = Infinity THEN to ELSE to - 1
  IN  IF p.error # "" THEN p
      ELSE CASE to = 0 -> Drop(p, finish - start)
             [] from = 0 /\ to # 0 -> OrNothing(Repeat(Insert(p, "OCH_", start), start + 1, 1, to), start)
             [] from = 1 /\ to = 1 -> p
             [] from = 1 /\ to = Infinity -> Plus(p, start)
             [] from = 1 /\ to \notin {1, Infinity} ->
                  RepeatCopy(Optional(p, start), start, finish, to)
             [] OTHER -> Repeat(Dupl(p, start, finish), finish, from - 1, less)

(* p_count                                                                 *)
RECURSIVE CountFrom(_, _, _)
CountFrom(p, count, ndigits) ==
  IF SeeDigit(p) /\ count <= DupMax
  THEN CountFrom(Skip(p, 1), count * 10 + Digit[Head(p.next)], ndigits + 1)
  ELSE [Require(p, ndigits > 0 /\ count <= DupMax, "BADBR") EXCEPT !.val = count]

(* What follows \{ (or {), up to the closing characters.                   *)
InOrder(lo, hi) == Require(hi, lo.val <= hi.val, "BADBR")
High(lo) ==
  IF ~See(lo, ",") THEN lo
  ELSE IF SeeDigit(Skip(lo, 1)) THEN InOrder(lo, CountFrom(Skip(lo, 1), 0, 0))
  ELSE [Skip(lo, 1) EXCEPT !.val = Infinity]
RepeatTo(hi, pos, from) == Repeat(hi, pos, from, hi.val)
BoundEnd(p, close) ==
  IF IsPrefix(close, p.next) THEN Skip(p, Len(close))
  ELSE IF \E k \in 0..Len(p.next) : IsPrefix(close, Skip(p, k).next)
  THEN SetError(p, "BADBR") ELSE SetError(p, "EBRACE")
BoundFrom(lo, pos, close) == BoundEnd(RepeatTo(High(lo), pos, lo.val), close)
Bound(p, pos, close) == BoundFrom(CountFrom(p, 0, 0), pos, close)

(***************************************************************************)
(* Characters and bracket expressions.                                     *)
(***************************************************************************)
(* freezeset: an equal set that is in use already is used again.           *)
AnyOf(p, cs) ==
  IF \E i \in DOMAIN p.sets : p.sets[i] = cs
  THEN Emit(p, "OANYOF", CHOOSE i \in DOMAIN p.sets : p.sets[i] = cs)
  ELSE Emit([p EXCEPT !.sets = Append(@, cs)], "OANYOF", Len(p.sets) + 1)

(* ordinary, with bothcases: a letter is a set when case is ignored.       *)
Ordinary(p, c) ==
  IF "icase" \in p.cflags /\ c \in DOMAIN Other THEN AnyOf(p, {c, Other[c]})
  ELSE Emit(p, "OCHAR", c)

Add(p, cs) == [p EXCEPT !.cs = @ \cup cs]

(* p_b_coll_elem: a name of one character stands for itself.               *)
CollElem(p, endc) ==
  LET ends == {k \in 0..Len(p.next) : SeeTwo(Skip(p, k), endc, "]")}
      len  == CHOOSE k \in ends : \A j \in ends : k <= j
  IN  IF ends = {} THEN [SetError(p, "EBRACK") EXCEPT !.val = "nul"]
      ELSE IF len = 1 THEN [Skip(p, 1) EXCEPT !.val = Head(p.next)]
      ELSE [SetError(p, "ECOLLATE") EXCEPT !.val = "nul"]

(* p_b_symbol                                                              *)
EndSymbol(p) == IF SeeTwo(p, ".", "]") THEN Skip(p, 2) ELSE SetError(p, "ECOLLATE")
Symbol(p) ==
  IF ~More(p) THEN [SetError(p, "EBRACK") EXCEPT !.val = "nul"]
  ELSE IF ~SeeTwo(p, "[", ".") THEN [Skip(p, 1) EXCEPT !.val = Head(p.next)]
  ELSE EndSymbol(CollElem(Skip(p, 2), "."))

(* p_b_cclass: the name is all the letters that follow.                    *)
ClassName(p) ==
  LET len == CHOOSE k \in 0..Len(p.next) :
               /\ \A i \in 1..k : p.next[i] \in Letters
               /\ k < Len(p.next) => p.next[k + 1] \notin Letters
  IN  IF len = 1 /\ Head(p.next) \in DOMAIN Classes
      THEN Add(Skip(p, 1), Classes[Head(p.next)])
      ELSE SetError(p, "ECTYPE")

(* p_b_term: a class, an equivalence class, a character or a range.        *)
EndName(p, c, e) ==
  IF ~More(p) THEN SetError(p, "EBRACK")
  ELSE IF SeeTwo(p, c, "]") THEN Skip(p, 2) ELSE SetError(p, e)
AtName(p, e) ==
  IF ~More(p) THEN SetError(p, "EBRACK") ELSE Require(p, ~(See(p, "-") \/ See(p, "]")), e)

AddValue(p) == Add(p, {p.val} \ {"nul"})
EClass(p)   == AddValue(CollElem(p, "="))

Finish(p) ==
  IF ~(See(p, "-") /\ More2(p) /\ Peek2(p) # "]") THEN p
  ELSE IF Peek2(p) = "-" THEN [Skip(p, 2) EXCEPT !.val = "-"]
  ELSE Symbol(Skip(p, 1))
AddRange(p, from) ==
  IF Ord(from) > Ord(p.val) THEN SetError(p, "ERANGE")
  ELSE Add(p, {c \in CharSet : Ord(c) \in Ord(from)..Ord(p.val)})
RangeFrom(p) == AddRange(Finish(p), p.val)
RangeOf(p)   == RangeFrom(Symbol(p))

Term(p) ==
  CASE See(p, "-") -> SetError(p, "ERANGE")
    [] SeeTwo(p, "[", ":") -> EndName(ClassName(AtName(Skip(p, 2), "ECTYPE")), ":", "ECTYPE")
    [] SeeTwo(p, "[", "=") -> EndName(EClass(AtName(Skip(p, 2), "ECOLLATE")), "=", "ECOLLATE")
    [] OTHER -> RangeOf(p)

RECURSIVE Terms(_)
Terms(p) == IF ~More(p) \/ See(p, "]") \/ SeeTwo(p, "-", "]") THEN p ELSE Terms(Term(p))

(* p_bracket, after its opening bracket.  A set of one is a character.     *)
EmitSet(p, cs) ==
  IF Cardinality(cs) = 1 THEN Ordinary(p, CHOOSE c \in cs : TRUE) ELSE AnyOf(p, cs)
Cased(p) ==
  p.cs \cup IF "icase" \in p.cflags THEN {Other[c] : c \in p.cs \cap DOMAIN Other} ELSE {}
EndBracket(p, invert) ==
  IF p.error # "" THEN p
  ELSE IF ~See(p, "]") THEN SetError(p, "EBRACK")
  ELSE EmitSet(Skip(p, 1), IF invert THEN CharSet \ Cased(p) ELSE Cased(p))
Itself(p, cs) == IF More(p) /\ Head(p.next) \in cs THEN Add(Skip(p, 1), {Head(p.next)}) ELSE p
Listed(p, invert) == EndBracket(Itself(Terms(Itself(p, {"]", "-"})), {"-"}), invert)

Bracket(p) ==
  IF IsPrefix(<<"[", ":", "<", ":", "]", "]">>, p.next) THEN Emit(Skip(p, 6), "OBOW", 0)
  ELSE IF IsPrefix(<<"[", ":", ">", ":", "]", "]">>, p.next) THEN Emit(Skip(p, 6), "OEOW", 0)
  ELSE IF See(p, "^") THEN Listed([Skip(p, 1) EXCEPT !.cs = {}], TRUE)
  ELSE Listed([p EXCEPT !.cs = {}], FALSE)

Bol(p) == [Emit(p, "OBOL", 0) EXCEPT !.nbol = @ + 1]
Eol(p) == [Emit(p, "OEOL", 0) EXCEPT !.neol = @ + 1]

(* The beginning and the end of the group that opens next.                 *)
Place(f, n, at) == IF n < NParen THEN [f EXCEPT ![n] = at] ELSE f
Opened(p) ==
  Emit([p EXCEPT !.nsub = @ + 1, !.pbegin = Place(@, p.nsub + 1, Here(p))],
       "OLPAREN", p.nsub + 1)
Closed(p, n) == Emit([p EXCEPT !.pend = Place(@, n, Here(p))], "ORPAREN", n)

(***************************************************************************)
(* Basic expressions: p_bre and p_simp_re.                                 *)
(***************************************************************************)
RECURSIVE Bre(_, _), Simples(_, _, _)

CopyGroup(p, i) ==
  [Emit(Dupl(p, p.pbegin[i] + 1, p.pend[i]), "O_BACK", i) EXCEPT !.backrefs = TRUE]
BackReference(p, i) ==
  IF p.pend[i] = 0 THEN SetError(p, "ESUBREG") ELSE CopyGroup(Emit(p, "OBACK_", i), i)

EndBreGroup(p) == IF SeeTwo(p, "\\", ")") THEN Skip(p, 2) ELSE SetError(p, "EPAREN")
BreGroup(open) ==
  EndBreGroup(Closed(IF More(open) /\ ~SeeTwo(open, "\\", ")") THEN Bre(open, TRUE) ELSE open,
                     open.nsub))

SimpAtom(p, esc, c, first) ==
  CASE ~esc /\ c = "." -> Emit(p, "OANY", 0)
    [] ~esc /\ c = "[" -> Bracket(p)
    [] ~esc /\ c = "*" /\ ~first -> SetError(p, "BADRPT")
    [] esc /\ c = "<" -> Emit(p, "OBOW", 0)
    [] esc /\ c = ">" -> Emit(p, "OEOW", 0)
    [] esc /\ c = "{" -> SetError(p, "BADRPT")
    [] esc /\ c = "(" -> BreGroup(Opened(p))
    [] esc /\ c \in {")", "}"} -> SetError(p, "EPAREN")
    [] esc /\ c \in DOMAIN Digit \ {"0"} -> BackReference(p, Digit[c])
    [] OTHER -> IF p.error # "" THEN p ELSE Ordinary(p, c)

(* p_simp_re: val says whether this was a plain dollar.                    *)
SimpRepeat(p, pos, dollar) ==
  IF See(p, "*") THEN [Star(Skip(p, 1), pos) EXCEPT !.val = FALSE]
  ELSE IF SeeTwo(p, "\\", "{")
  THEN [Bound(Skip(p, 2), pos, <<"\\", "}">>) EXCEPT !.val = FALSE]
  ELSE [p EXCEPT !.val = dollar]
SimpRe(p, first) ==
  IF See(p, "\\")
  THEN SimpRepeat(SimpAtom(Require(Skip(p, 2), More2(p), "EESCAPE"), TRUE, Peek2(p), first),
                  Here(p), FALSE)
  ELSE SimpRepeat(SimpAtom(Skip(p, 1), FALSE, Head(p.next), first),
                  Here(p), Head(p.next) = "$")

Simples(p, inside, first) ==
  IF ~More(p) \/ (inside /\ SeeTwo(p, "\\", ")")) THEN p
  ELSE Simples(SimpRe(p, first), inside, FALSE)

(* p_bre: a final dollar was taken as a character and becomes an anchor.   *)
Bre(p, inside) ==
  LET Anchor(q) == IF q.val THEN Eol(Drop(q, 1)) ELSE q
      Full(q)   == Require(q, Here(q) # Here(p), "EMPTY")
      start     == IF See(p, "^") THEN Bol(Skip(p, 1)) ELSE p
  IN  Full(Anchor(Simples([start EXCEPT !.val = FALSE], inside, TRUE)))

(***************************************************************************)
(* Extended expressions: p_ere and p_ere_exp.                              *)
(***************************************************************************)
RECURSIVE EreFrom(_, _, _, _, _), EreExps(_, _)

SeeRepeat(p) ==
  \/ See(p, "*") \/ See(p, "+") \/ See(p, "?")
  \/ See(p, "{") /\ Peek2(p) \in DOMAIN Digit

EndEreGroup(p) == IF See(p, ")") THEN Skip(p, 1) ELSE SetError(p, "EPAREN")
EreGroup(open) ==
  EndEreGroup(Closed(IF See(open, ")") THEN open ELSE EreFrom(open, ")", TRUE, 0, 0),
                     open.nsub))

EreAtom(p, c) ==
  CASE c = "(" -> EreGroup(Opened(Require(p, More(p), "EPAREN")))
    [] c = "^" -> Bol(p)
    [] c = "$" -> Eol(p)
    [] c = "|" -> SetError(p, "EMPTY")
    [] c \in {"*", "+", "?"} -> SetError(p, "BADRPT")
    [] c = "." -> Emit(p, "OANY", 0)
    [] c = "[" -> Bracket(p)
    [] c = "\\" -> IF ~More(p) THEN SetError(p, "EESCAPE")
                   ELSE IF See(p, "<") THEN Emit(Skip(p, 1), "OBOW", 0)
                   ELSE IF See(p, ">") THEN Emit(Skip(p, 1), "OEOW", 0)
                   ELSE Ordinary(Skip(p, 1), Head(p.next))
    [] c = "{" /\ SeeDigit(p) -> SetError(p, "BADRPT")
    [] OTHER -> Ordinary(p, c)

EreRepeat(p, c, pos) ==
  CASE c = "*" -> Star(p, pos)
    [] c = "+" -> Plus(p, pos)
    [] c = "?" -> Optional(p, pos)
    [] OTHER   -> Bound(p, pos, <<"}">>)

EndRepeat(p) == IF SeeRepeat(p) THEN SetError(p, "BADRPT") ELSE p
EreRepeated(p, c, pos) ==
  IF ~SeeRepeat(p) THEN p
  ELSE EndRepeat(EreRepeat(Require(Skip(p, 1), c # "^", "BADRPT"), Head(p.next), pos))
EreExp(p) == EreRepeated(EreAtom(Skip(p, 1), Head(p.next)), Head(p.next), Here(p))

EreExps(p, stop) ==
  IF ~More(p) \/ See(p, "|") \/ See(p, stop) THEN p ELSE EreExps(EreExp(p), stop)

(* The alternatives, from one on; fwd and back are prevfwd and prevback.   *)
NextBranch(p, stop, fwd) ==
  EreFrom(Emit(Ahead(p, fwd), "OOR2", 0), stop, FALSE, There(p), Here(p))
EreMore(p, stop, first, conc, back, fwd) ==
  IF ~See(p, "|") THEN IF first THEN p ELSE Astern(Ahead(p, fwd), "O_CH", back)
  ELSE IF first THEN NextBranch(Astern(Insert(Skip(p, 1), "OCH_", conc), "OOR1", conc), stop, conc)
  ELSE NextBranch(Astern(Skip(p, 1), "OOR1", back), stop, fwd)
EreFrom(p, stop, first, back, fwd) ==
  LET Full(q) == Require(q, Here(q) # Here(p), "EMPTY")
  IN  EreMore(Full(EreExps(p, stop)), stop, first, Here(p), back, fwd)

(***************************************************************************)
(* What is learnt from the whole strip.                                    *)
(***************************************************************************)
(* The end of the optional part or the choice at i.                        *)
RECURSIVE Across(_, _)
Across(strip, j) ==
  IF strip[j].op \in {"O_QUEST", "O_CH"} THEN j ELSE Across(strip, j + strip[j].n)

(* Mutant of MustFrom: an optional part is read like the rest.             *)
RECURSIVE MustFromAll(_, _, _, _, _)
MustFromAll(strip, i, new, len, best) ==
  LET op == strip[i].op
      b  == IF len > best.len THEN [at |-> new, len |-> len] ELSE best
  IN  CASE op = "OCHAR" -> MustFromAll(strip, i + 1, IF len = 0 THEN i ELSE new, len + 1, best)
        [] op = "OEND" -> b
        [] OTHER -> MustFromAll(strip, i + 1, new, len, best)

(* findmust: the longest run of characters every match has.                *)
RECURSIVE MustFrom(_, _, _, _, _)
MustFrom(strip, i, new, len, best) ==
  LET op == strip[i].op
      b  == IF len > best.len THEN [at |-> new, len |-> len] ELSE best
  IN  CASE op = "OCHAR" -> MustFrom(strip, i + 1, IF len = 0 THEN i ELSE new, len + 1, best)
        [] op \in {"OPLUS_", "OLPAREN", "ORPAREN"} -> MustFrom(strip, i + 1, new, len, best)
        [] op \in {"OQUEST_", "OCH_"} -> MustFrom(strip, Across(strip, i) + 1, new, 0, b)
        [] op = "OEND" -> b
        [] OTHER -> MustFrom(strip, i + 1, new, 0, b)

FindMust(strip) ==
  LET run == MustFrom(strip, 2, 0, 0, [at |-> 0, len |-> 0])
      IsChar(s) == s.op = "OCHAR"
  IN  IF run.len = 0 THEN <<>>
      ELSE LET chars == SelectSeq(SubSeq(strip, run.at, Len(strip)), IsChar)
           IN  [i \in 1..run.len |-> chars[i].n]

(* pluscount: how deep the repetitions are nested.                         *)
PlusNest(strip, k) ==
  Cardinality({i \in 1..k : strip[i].op = "OPLUS_"})
    - Cardinality({i \in 1..k : strip[i].op = "O_PLUS"})
PlusCount(strip) == Max({PlusNest(strip, k) : k \in DOMAIN strip})

Guts(p) ==
  [error |-> p.error, strip |-> p.strip, sets |-> p.sets, nsub |-> p.nsub,
   backrefs |-> p.backrefs, nbol |-> p.nbol, neol |-> p.neol,
   pbegin |-> p.pbegin, pend |-> p.pend,
   must  |-> IF p.error = "" THEN FindMust(p.strip) ELSE <<>>,
   nplus |-> IF p.error = "" THEN PlusCount(p.strip) ELSE 0]

Regcomp(pattern, cflags) ==
  LET none  == [i \in 1..NParen - 1 |-> 0]
      start == [next |-> pattern, strip |-> <<>>, pbegin |-> none, pend |-> none,
                sets |-> <<>>, cs |-> {}, val |-> 0, cflags |-> cflags, error |-> "",
                nsub |-> 0, backrefs |-> FALSE, nbol |-> 0, neol |-> 0]
      Parsed(p) == IF "extended" \in cflags THEN EreFrom(p, "OUT", TRUE, 0, 0) ELSE Bre(p, FALSE)
  IN  Guts(Emit(Parsed(Emit(start, "OEND", 0)), "OEND", 0))
==============================================================================
