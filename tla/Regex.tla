-------------------------------- MODULE Regex --------------------------------
(***************************************************************************)
(* A pattern is written, compiled at every change as the editor compiles   *)
(* it, and looked for in a line.  A pattern is either composed, so that    *)
(* what it means is known, or typed a piece at a time and perhaps wrong.   *)
(* A composed pattern is a sequence of nodes:                              *)
(*   one   a character of set, or of none of it when neg                   *)
(*   at    an anchor, or a word boundary, op                               *)
(*   rep   x from lo to hi times           grp  the n-th group, of l       *)
(*   back  what the n-th group matched     alt  one of the nodes of l      *)
(***************************************************************************)
EXTENDS Engine

CONSTANTS Atoms,      \* the nodes that stand for themselves, with their text
          Bounds,     \* the repetitions <<lo, hi>>
          Pieces,     \* what is typed
          MaxNodes, MaxPlain, MaxPieces,
          Flags,      \* the sets of compilation flags
          Lines,      \* the lines
          Quirks      \* "boundary", "counted", "greedy": what is written though it fails

VARIABLES cflags, nodes, typed, guts, found
vars == <<cflags, nodes, typed, guts, found>>

Nothing == [done |-> FALSE]

(* A number, and a repetition as it is written.                            *)
Numeral(n) == CHOOSE d \in DOMAIN Digit : Digit[d] = n
BoundText(lo, hi, extended) ==
  LET close == IF extended THEN <<"}">> ELSE <<"\\", "}">>
      open  == IF extended THEN <<"{">> ELSE <<"\\", "{">>
  IN  IF <<lo, hi>> = <<0, Infinity>> THEN <<"*">>
      ELSE IF <<lo, hi>> = <<1, Infinity>> /\ extended THEN <<"+">>
      ELSE IF <<lo, hi>> = <<0, 1>> /\ extended THEN <<"?">>
      ELSE open \o <<Numeral(lo)>>
                \o (IF lo = hi THEN <<>> ELSE IF hi = Infinity THEN <<",">> ELSE <<",", Numeral(hi)>>)
                \o close

RECURSIVE SizeOf(_), Text(_, _), TextOf(_, _, _), Bump(_, _), BumpAll(_, _), Within(_), Size(_)
TextOf(l, sep, ext) ==
  IF l = <<>> THEN <<>>
  ELSE Text(Head(l), ext) \o (IF Len(l) > 1 THEN sep ELSE <<>>) \o TextOf(Tail(l), sep, ext)
Text(x, ext) ==
  CASE x.k \in {"one", "at"} -> x.text
    [] x.k = "rep"  -> Text(x.x, ext) \o BoundText(x.lo, x.hi, ext)
    [] x.k = "back" -> <<"\\", Numeral(x.n)>>
    [] x.k = "alt"  -> TextOf(x.l, <<"|">>, ext)
    [] OTHER        -> IF ext THEN <<"(">> \o TextOf(x.l, <<>>, ext) \o <<")">>
                       ELSE <<"\\", "(">> \o TextOf(x.l, <<>>, ext) \o <<"\\", ")">>

(* The groups are numbered by where they open: those from n on move up.    *)
BumpAll(l, n) == [i \in DOMAIN l |-> Bump(l[i], n)]
Bump(x, n) ==
  LET up == IF x.n >= n THEN x.n + 1 ELSE x.n
  IN  CASE x.k = "rep"  -> [x EXCEPT !.x = Bump(@, n)]
        [] x.k = "back" -> [x EXCEPT !.n = up]
        [] x.k = "alt"  -> [x EXCEPT !.l = BumpAll(@, n)]
        [] x.k = "grp"  -> [x EXCEPT !.n = up, !.l = BumpAll(@, n)]
        [] OTHER        -> x

(* The nodes of l, at any depth, and how many x is.                        *)
Within(x) ==
  {x} \cup CASE x.k = "rep" -> Within(x.x)
              [] x.k \in {"alt", "grp"} -> UNION {Within(x.l[i]) : i \in DOMAIN x.l}
              [] OTHER -> {}
Kinds(l, k) == {x \in UNION {Within(l[i]) : i \in DOMAIN l} : x.k = k}
NGroups(l)  == Cardinality({x.n : x \in Kinds(l, "grp")})

SizeOf(l) == FoldSeq(LAMBDA x, n : n + Size(x), 0, l)
Size(x) ==
  CASE x.k = "rep" -> 1 + Size(x.x)
    [] x.k \in {"alt", "grp"} -> 1 + SizeOf(x.l)
    [] OTHER -> 1

Counted(l) == \E x \in Kinds(l, "rep") : x.hi # Infinity /\ x.lo # x.hi

(* An anchor is within a group that is written out again.                  *)
AnchorCopied(l) ==
  LET copied == {x.x : x \in {y \in Kinds(l, "rep") : y.hi # Infinity}}
                \cup {g \in Kinds(l, "grp") : \E b \in Kinds(l, "back") : b.n = g.n}
  IN  \E x \in copied : Kinds(<<x>>, "at") # {}

(* A node may come last after l.                                           *)
Fits(l, x) ==
  /\ x.k = "at" /\ x.op = "OBOL" => l = <<>>
  /\ l # <<>> => ~(l[Len(l)].k = "at" /\ l[Len(l)].op = "OEOL")

Extended == "extended" \in cflags

(* Characters and endless repetitions only.                                *)
Plain(l) ==
  /\ Kinds(l, "at") = {} /\ \A x \in Kinds(l, "one") : Len(x.text) = 1
  /\ \A x \in Kinds(l, "rep") : x.hi = Infinity

Compose(l) ==
  /\ typed = <<>> /\ ~found.done
  /\ SizeOf(l) <= IF Plain(l) THEN MaxPlain ELSE MaxNodes
  /\ NGroups(l) < Cardinality(DOMAIN Digit)
  /\ "counted" \notin Quirks => (Counted(l) => Kinds(l, "back") = {})
  /\ "boundary" \notin Quirks => ~AnchorCopied(l)
  /\ nodes' = l
  /\ guts' = Regcomp(TextOf(l, <<>>, Extended), cflags)
  /\ UNCHANGED <<cflags, typed, found>>

Write == \E a \in Atoms : Fits(nodes, a) /\ Compose(Append(nodes, a))

Again ==
  \E b \in Bounds :
    /\ nodes # <<>> /\ nodes[Len(nodes)].k \in {"one", "grp", "back"}
    /\ LET x == nodes[Len(nodes)]
       IN  Compose([nodes EXCEPT ![Len(nodes)] = [k |-> "rep", x |-> x, lo |-> b[1], hi |-> b[2]]])

Upto(k) == SubSeq(nodes, 1, k - 1)
Onwards(k)  == SubSeq(nodes, k, Len(nodes))

(* The nodes from the k-th on become a group; in an extended pattern they  *)
(* may be its alternatives.                                                *)
Group ==
  \E k \in DOMAIN nodes :
    LET n == NGroups(Upto(k)) + 1
    IN  Compose(Append(Upto(k), [k |-> "grp", n |-> n, l |-> BumpAll(Onwards(k), n)]))

Alternatives ==
  /\ Extended
  /\ \E k \in DOMAIN nodes :
       LET n == NGroups(Upto(k)) + 1
       IN  /\ k < Len(nodes)
           /\ Compose(Append(Upto(k), [k |-> "grp", n |-> n,
                 l |-> <<[k |-> "alt", l |-> BumpAll(Onwards(k), n)]>>]))

Refer ==
  /\ ~Extended
  /\ \E n \in 1..NGroups(nodes) : Fits(nodes, [k |-> "back", n |-> n])
                                  /\ Compose(Append(nodes, [k |-> "back", n |-> n]))

Type ==
  /\ nodes = <<>> /\ Len(typed) < MaxPieces
  /\ \E piece \in Pieces :
       /\ typed' = Append(typed, piece)
       /\ guts' = Regcomp(FlattenSeq(typed'), cflags)
       /\ UNCHANGED <<cflags, nodes, found>>

(* The editor looks from the beginning of the line, or from further on,    *)
(* where the beginning of the line is no longer a place to match.          *)
Exec ==
  /\ nodes # <<>> /\ guts.error = "" /\ ~found.done
  /\ \E s \in Lines, large \in BOOLEAN, nmatch \in {0, 1, 10} :
       \E beg \in 0..Len(s) :
         found' = [done |-> TRUE, s |-> s, beg |-> beg, nmatch |-> nmatch,
                   r |-> Regexec(guts, s, beg, beg > 0, large, nmatch)]
  /\ UNCHANGED <<cflags, nodes, typed, guts>>

Init ==
  /\ cflags \in Flags /\ nodes = <<>> /\ typed = <<>> /\ found = Nothing
  /\ guts = Regcomp(<<>>, cflags)

Next == Write \/ Again \/ Group \/ Alternatives \/ Refer \/ Type \/ Exec

Spec == Init /\ [][Next]_vars

-----------------------------------------------------------------------------
(* What regcomp() and regexec() promise, told from the meaning of the      *)
(* pattern, without strip or states.                                       *)

Op(i)    == guts.strip[i].op
Size_(i) == guts.strip[i].n
Compiled == guts.error = ""

(* A pattern that is accepted, whatever was typed, leaves a strip whose    *)
(* beginnings and ends point at each other and whose back references hold  *)
(* a copy of their group: what step(), dissect() and backref() walk by.    *)
StripSound ==
  Compiled =>
    /\ Op(1) = "OEND" /\ Op(Len(guts.strip)) = "OEND"
    /\ \A i \in 2..Len(guts.strip) - 1 :
         LET to == i + Size_(i)
         IN  CASE Op(i) = "OPLUS_"  -> Op(to) = "O_PLUS" /\ Size_(to) = Size_(i)
               [] Op(i) = "OQUEST_" -> Op(to) = "O_QUEST" /\ Size_(to) = Size_(i)
               [] Op(i) = "OCH_"    -> Op(to) = "OOR2" /\ Op(to - 1) = "OOR1"
               [] Op(i) = "OOR2"    -> \/ Op(to) = "O_CH"
                                       \/ Op(to) = "OOR2" /\ Op(to - 1) = "OOR1"
               [] Op(i) \in {"OOR1", "O_CH"} -> Op(i - Size_(i)) \in {"OCH_", "OOR1"}
               [] Op(i) = "OBACK_"  ->
                    LET b == guts.pbegin[Size_(i)]
                        e == guts.pend[Size_(i)]
                    IN  /\ guts.strip[b] = [op |-> "OLPAREN", n |-> Size_(i)]
                        /\ guts.strip[e] = [op |-> "ORPAREN", n |-> Size_(i)]
                        /\ SubSeq(guts.strip, i + 1, i + e - b - 1)
                             = SubSeq(guts.strip, b + 1, e - 1)
                        /\ guts.strip[i + e - b] = [op |-> "O_BACK", n |-> Size_(i)]
               [] OTHER -> Op(i) # "OEND"

(***************************************************************************)
(* The meaning of a pattern: the ways it can match from a place on.  A way *)
(* has come to at, with the groups pm; z is the anchors it has passed just *)
(* there, and met is set when a word boundary came together with another.  *)
(***************************************************************************)
Holds(op, i) ==
  LET s    == found.s
      bol  == i = found.beg /\ found.beg = 0
      next == i < Len(s) /\ s[i + 1] \in Word
      prev == i > 0 /\ s[i] \in Word
  IN  CASE op = "OBOL" -> bol
        [] op = "OEOL" -> i = Len(s)
        [] op = "OBOW" -> next /\ ~prev
        [] OTHER       -> prev /\ ~next

Stands(x, c) ==
  LET same == {c} \cup (IF "icase" \in cflags /\ c \in DOMAIN Other THEN {Other[c]} ELSE {})
  IN  (same \cap x.set # {}) # x.neg

RECURSIVE Ways(_, _), WaysAll(_, _), Times(_, _, _, _)
WaysAll(l, r) ==
  IF l = <<>> THEN {r} ELSE UNION {WaysAll(Tail(l), q) : q \in Ways(Head(l), r)}

Forget(x, r) ==
  [r EXCEPT !.pm = [n \in DOMAIN @ |->
     IF \E y \in Kinds(<<x>>, "grp") : y.n = n THEN <<Null, Null>> ELSE @[n]]]

Times(x, r, lo, hi) ==
  LET once == {q \in Ways(x, r) \cup Ways(x, Forget(x, r)) : TRUE}
      less == IF hi = Infinity THEN hi ELSE hi - 1
  IN  (IF lo = 0 THEN {r} ELSE {})
      \cup (IF hi = 0 THEN {}
            ELSE UNION {IF q.at = r.at THEN {q}
                        ELSE Times(x, q, IF lo = 0 THEN 0 ELSE lo - 1, less) : q \in once})

Ways(x, r) ==
  CASE x.k = "one"  -> IF r.at < Len(found.s) /\ Stands(x, found.s[r.at + 1])
                       THEN {[r EXCEPT !.at = @ + 1, !.z = {}]} ELSE {}
    [] x.k = "at"   -> IF Holds(x.op, r.at)
                       THEN {[r EXCEPT !.z = @ \cup {x.op}, !.met = @ \/
                               (r.z # {} /\ (r.z \cup {x.op}) \cap {"OBOW", "OEOW"} # {})]}
                       ELSE {}
    [] x.k = "grp"  -> {[q EXCEPT !.pm[x.n] = <<r.at, q.at>>] : q \in WaysAll(x.l, r)}
    [] x.k = "alt"  -> UNION {Ways(x.l[i], r) : i \in DOMAIN x.l}
    [] x.k = "rep"  -> Times(x.x, r, x.lo, x.hi)
    [] OTHER        ->
         LET g   == r.pm[x.n]
             len == g[2] - g[1]
         IN  IF g[2] # Null /\ r.at + len <= Len(found.s)
                /\ SubSeq(found.s, r.at + 1, r.at + len) = SubSeq(found.s, g[1] + 1, g[2])
             THEN {[r EXCEPT !.at = @ + len, !.z = IF len = 0 THEN @ ELSE {}]} ELSE {}

From(i)     == [at |-> i, z |-> {}, met |-> FALSE, pm |-> [n \in 1..guts.nsub |-> <<Null, Null>>]]
WaysFrom(i) == WaysAll(nodes, From(i))

(* Boundaries that come together are passed one at a time by step(), and   *)
(* there is one pass for them.                                             *)
Excused(ways) == "boundary" \notin Quirks /\ \E i \in DOMAIN ways : \E w \in ways[i] : w.met

(* dissect() looks for the last pass of a repetition by making each as     *)
(* long as it can be, which may lead nowhere though a shorter one does not.*)
RECURSIVE Reaches(_, _, _)
Ends(x, i, j) == {w.at : w \in {v \in Ways(x, From(i)) : v.at \in i + 1..j}}
Reaches(x, i, j) ==
  \/ i = j
  \/ \E ends \in {Ends(x, i, j)} : ends # {} /\ Reaches(x, Max(ends), j)
Stuck(x) ==
  \E i, j \in 0..Len(found.s) : j \in Ends(x, i, j) /\ ~Reaches(x.x, i, j)
AnyStuck == "greedy" \notin Quirks /\ \E x \in Kinds(nodes, "rep") : Stuck(x)

(* The match is the leftmost there is and of those the longest, and none   *)
(* is missed: the screening by the mandatory string, the cold start of     *)
(* fast(), the two widths of the state sets, the backing off for back      *)
(* references and the number of offsets asked for make no difference.      *)
LeftmostLongest ==
  found.done =>
    \A ways \in {[i \in found.beg..Len(found.s) |-> WaysFrom(i)]}, r \in {found.r} :
      LET starts == {i \in DOMAIN ways : ways[i] # {}}
      IN  \/ Excused(ways)
          \/ /\ r.found <=> starts # {}
             /\ r.found /\ found.nmatch > 0 =>
                  /\ r.so \in starts /\ \A i \in starts : r.so <= i
                  /\ \E w \in ways[r.so] : w.at = r.eo
                  /\ \A w \in ways[r.so] : w.at <= r.eo

(* The groups that are reported with a match are those of one way to match *)
(* just that text, and no assertion of dissect() or backref() fails.       *)
GroupsExplain ==
  found.done /\ found.r.found /\ found.nmatch = 10 =>
    \A ways \in {[i \in {found.r.so} |-> WaysFrom(i)]} :
      \/ Excused(ways) \/ AnyStuck
      \/ /\ found.r.ok
         /\ \E w \in ways[found.r.so] : w.at = found.r.eo /\ w.pm = found.r.pm

(* No assertion of dissect() fails when a match is taken apart: in         *)
(* particular the passes of a repetition that are found one after the      *)
(* other use up what the repetition matched.                               *)
MustExhaust == found.done /\ found.r.found /\ ~guts.backrefs => found.r.ok
==============================================================================
