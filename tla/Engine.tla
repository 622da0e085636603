-------------------------------- MODULE Engine --------------------------------
(***************************************************************************)
(* The matcher of src/regex: regexec() and engine.c.  Offsets into the     *)
(* line are counted from 0, a set of strip positions stands for the bits   *)
(* of a states word, and -1 is a null pointer.  A match is a record        *)
(*   g  the compiled pattern          s     the line                       *)
(*   beg  where the search may begin  notbol  REG_NOTBOL                   *)
(*   large  the array form of states, whose step() reads what it writes    *)
(* The assertions, which the build switches off, are made: where one would *)
(* fail the result is not ok.                                              *)
(***************************************************************************)
EXTENDS Regcomp

CONSTANTS Word,          \* the characters of words
          MaxRecursion   \* MAX_RECURSION

Null     == -1
End(m)   == Len(m.s)
IsBol(f) == f \in {"BOL", "BOLEOL"}
IsEol(f) == f \in {"EOL", "BOLEOL"}

CharBefore(m, p) == IF p = 0 \/ (p = m.beg /\ ~m.notbol) THEN "OUT" ELSE m.s[p]
CharAt(m, p)     == IF p = End(m) THEN "OUT" ELSE m.s[p + 1]

(* Does the operator s take character, or anchor, ch?                      *)
Takes(g, s, ch) ==
  CASE s.op = "OCHAR"  -> ch = s.n
    [] s.op = "OANY"   -> ch \in CharSet
    [] s.op = "OANYOF" -> ch \in g.sets[s.n]
    [] s.op = "OBOL"   -> IsBol(ch)
    [] s.op = "OEOL"   -> IsEol(ch)
    [] s.op = "OBOW"   -> ch = "BOW"
    [] s.op = "OEOW"   -> ch = "EOW"
    [] OTHER           -> FALSE

(* Where an operator at pc that takes nothing leads.                       *)
Leads(strip, pc) ==
  LET s == strip[pc]
  IN  CASE s.op \in {"OQUEST_", "OCH_"} -> {pc + 1, pc + s.n}
        [] s.op = "OOR1" -> {Across(strip, pc + 1) + 1}
        [] s.op = "OOR2" -> {pc + 1} \cup (IF strip[pc + s.n].op = "O_CH" THEN {} ELSE {pc + s.n})
        [] s.op \in {"OBACK_", "O_BACK", "OPLUS_", "O_QUEST", "OLPAREN", "ORPAREN", "O_CH"} -> {pc + 1}
        [] OTHER -> {}

(* step: one pass over the strip; a repetition that leads back to its      *)
(* body for the first time has the pass resumed there.                     *)
RECURSIVE Step(_, _, _, _, _, _, _)
Step(g, pc, stop, bef, ch, aft, alias) ==
  IF pc = stop THEN aft
  ELSE LET s    == g.strip[pc]
           from == IF alias THEN aft ELSE bef
           back == s.op = "O_PLUS" /\ pc \in aft
           more == IF s.op = "O_PLUS" THEN IF back THEN {pc + 1, pc - s.n} ELSE {}
                   ELSE IF pc \in from /\ Takes(g, s, ch) THEN {pc + 1}
                   ELSE IF pc \in aft THEN Leads(g.strip, pc) ELSE {}
       IN  Step(g, IF back /\ pc - s.n \notin aft THEN pc - s.n ELSE pc + 1,
                stop, bef, ch, aft \cup more, alias)

(* The anchors between two characters: the pass is made once for each      *)
(* line anchor in the pattern, and once for a word boundary.               *)
RECURSIVE Passes(_, _, _, _, _, _)
Passes(m, ss, es, st, flag, k) ==
  IF k = 0 THEN st
  ELSE Passes(m, ss, es, Step(m.g, ss, es, st, flag, st, m.large), flag, k - 1)

LineFlag(m, lastc, c) ==
  IF lastc = "OUT" /\ ~m.notbol THEN IF c = "OUT" THEN "BOLEOL" ELSE "BOL"
  ELSE IF c = "OUT" THEN "EOL" ELSE "NONE"

WordFlag(flag, lastc, c) ==
  LET nonw(x) == x # "OUT" /\ x \notin Word
  IN  CASE (flag = "BOL" \/ nonw(lastc)) /\ c \in Word -> "BOW"
        [] lastc \in Word /\ (flag = "EOL" \/ nonw(c)) -> "EOW"
        [] OTHER -> "NONE"

AtFlag(m, ss, es, st, flag, lastc, c) ==
  LET n == (IF IsBol(flag) THEN m.g.nbol ELSE 0) + (IF IsEol(flag) THEN m.g.neol ELSE 0)
      w == WordFlag(flag, lastc, c)
  IN  Passes(m, ss, es, Passes(m, ss, es, st, flag, n), w, IF w = "NONE" THEN 0 ELSE 1)

Anchors(m, ss, es, st, lastc, c) == AtFlag(m, ss, es, st, LineFlag(m, lastc, c), lastc, c)

Fresh(m, ss, es) == Step(m.g, ss, es, {}, "NOTHING", {ss}, FALSE)

(* fast: is there a match, and from where on may it begin?  The states    *)
(* of a match that has not begun are added again after every character.    *)
RECURSIVE FastFrom(_, _, _, _, _, _, _, _)
FastAt(m, p, ss, es, now, c, cold, fresh) ==
  IF es \in now \/ p = End(m) THEN [hit |-> es \in now, coldp |-> cold]
  ELSE FastFrom(m, p + 1, ss, es, Step(m.g, ss, es, now, c, fresh, FALSE), c, cold, fresh)
FastFrom(m, p, ss, es, st, lastc, cold, fresh) ==
  FastAt(m, p, ss, es, Anchors(m, ss, es, st, lastc, CharAt(m, p)), CharAt(m, p),
         IF st = fresh THEN p ELSE cold, fresh)

Fast(m, start, ss, es) ==
  LET From(fresh) == FastFrom(m, start, ss, es, fresh, CharBefore(m, start), Null, fresh)
  IN  From(Fresh(m, ss, es))

(* slow: the last place up to stop where a match from start ends.          *)
RECURSIVE SlowFrom(_, _, _, _, _, _, _, _)
SlowAt(m, p, stop, ss, es, now, c, matchp) ==
  IF now = {} \/ p = stop THEN matchp
  ELSE SlowFrom(m, p + 1, stop, ss, es, Step(m.g, ss, es, now, c, {}, FALSE), c, matchp)
SlowFrom(m, p, stop, ss, es, st, lastc, matchp) ==
  LET At(now) == SlowAt(m, p, stop, ss, es, now, CharAt(m, p), IF es \in now THEN p ELSE matchp)
  IN  At(Anchors(m, ss, es, st, lastc, CharAt(m, p)))

Slow(m, start, stop, ss, es) ==
  SlowFrom(m, start, stop, ss, es, Fresh(m, ss, es), CharBefore(m, start), Null)

(***************************************************************************)
(* dissect: what each group matched, when there are no back references.    *)
(***************************************************************************)
RECURSIVE Dissect(_, _, _, _, _, _), Fit(_, _, _, _, _, _, _),
          LastPass(_, _, _, _, _, _), Branch(_, _, _, _, _)

SubEnd(strip, ss) ==
  CASE strip[ss].op \in {"OPLUS_", "OQUEST_"} -> ss + strip[ss].n + 1
    [] strip[ss].op = "OCH_" -> Across(strip, ss) + 1
    [] OTHER -> ss + 1

(* How much the part from ss to es takes so that the rest takes the rest.  *)
Fitted(m, sp, rest, stop, ss, es, stopst) ==
  IF rest = Null \/ Slow(m, rest, stop, es, stopst) = stop THEN rest
  ELSE Fit(m, sp, rest - 1, stop, ss, es, stopst)
Fit(m, sp, stp, stop, ss, es, stopst) ==
  IF stp < sp THEN Null ELSE Fitted(m, sp, Slow(m, sp, stp, ss, es), stop, ss, es, stopst)

(* Mutant of LastPass: the first time round instead of the last.           *)
FirstPass(m, ssp, old, rest, ssub, esub) == <<ssp, rest>>

(* The last time round a repetition: where it begins and ends.             *)
LastPass(m, ssp, old, rest, ssub, esub) ==
  LET Go(sep) == IF sep = Null THEN <<old, ssp>>
                 ELSE IF sep = ssp THEN <<ssp, ssp>>
                 ELSE LastPass(m, sep, ssp, rest, ssub, esub)
  IN  Go(Slow(m, ssp, rest, ssub, esub))

(* The branch of a choice that takes all of it; the one at ssub to esub    *)
(* is tried first.                                                         *)
NextEnd(strip, to) == IF strip[to].op = "OOR2" THEN to - 1 ELSE to
Branch(m, sp, rest, ssub, esub) ==
  LET strip == m.g.strip
  IN  IF Slow(m, sp, rest, ssub, esub) = rest THEN <<ssub, esub>>
      ELSE IF strip[esub].op # "OOR1" THEN <<Null, Null>>
      ELSE Branch(m, sp, rest, esub + 2, NextEnd(strip, esub + 1 + strip[esub + 1].n))

Bad(d) == [d EXCEPT !.ok = FALSE]
Inside(m, sp, rest, part, d) ==
  IF part[1] = Null THEN Bad(d) ELSE Dissect(m, sp, rest, part[1], part[2], d)
InPlus(m, pass, rest, part, d) ==
  [Dissect(m, pass[1], pass[2], part[1], part[2], d) EXCEPT !.ok = @ /\ pass[2] = rest]

(* What is inside the part from ss to es, that took the text to rest.      *)
Parts(m, sp, rest, ss, es, d) ==
  LET s == m.g.strip[ss]
  IN  CASE rest = Null -> Bad(d)
        [] s.op = "OQUEST_" /\ rest # Null ->
             IF Slow(m, sp, rest, ss + 1, es - 1) # Null
             THEN Dissect(m, sp, rest, ss + 1, es - 1, d) ELSE [d EXCEPT !.ok = sp = rest]
        [] s.op = "OPLUS_" /\ rest # Null ->
             InPlus(m, LastPass(m, sp, sp, rest, ss + 1, es - 1), rest, <<ss + 1, es - 1>>, d)
        [] OTHER -> Inside(m, sp, rest, Branch(m, sp, rest, ss + 1, ss + s.n - 1), d)

Dissect(m, sp, stop, ss, stopst, d) ==
  LET s  == m.g.strip[ss]
      es == SubEnd(m.g.strip, ss)
      Rest(r) == IF r = Null THEN Bad(d)
                 ELSE Dissect(m, r, stop, es, stopst, Parts(m, sp, r, ss, es, d))
  IN  IF ~d.ok \/ ss = stopst THEN [d EXCEPT !.ok = @ /\ sp = stop]
      ELSE CASE s.op \in {"OCHAR", "OANY", "OANYOF"} -> Dissect(m, sp + 1, stop, es, stopst, d)
             [] s.op \in {"OBOL", "OEOL", "OBOW", "OEOW"} -> Dissect(m, sp, stop, es, stopst, d)
             [] s.op = "OLPAREN" ->
                  Dissect(m, sp, stop, es, stopst, [d EXCEPT !.pm[s.n][1] = sp])
             [] s.op = "ORPAREN" ->
                  Dissect(m, sp, stop, es, stopst, [d EXCEPT !.pm[s.n][2] = sp])
             [] s.op \in {"OQUEST_", "OPLUS_", "OCH_"} ->
                  Rest(Fit(m, sp, stop, stop, ss, es, stopst))
             [] OTHER -> Bad(d)

(***************************************************************************)
(* backref: the same by trying, when there are.  The result has dp, the    *)
(* groups, and lastpos, which is not undone when a try fails.              *)
(***************************************************************************)
Between(m, sp, op) ==
  LET prev == IF sp = 0 THEN "OUT" ELSE m.s[sp]
      next == CharAt(m, sp)
      bol  == sp = m.beg /\ ~m.notbol
  IN  CASE op = "OBOL" -> bol
        [] op = "OEOL" -> next = "OUT"
        [] op = "OBOW" -> next \in Word /\ (bol \/ (sp > 0 /\ prev \notin Word))
        [] OTHER       -> next \notin Word /\ sp > m.beg /\ prev \in Word

(* As far as there is no choice: at a hard place, done, or failed.         *)
RECURSIVE Easy(_, _, _, _, _)
Easy(m, sp, stop, ss, stopst) ==
  LET s == m.g.strip[ss]
  IN  IF ss >= stopst THEN [end |-> "done", sp |-> sp, ss |-> ss]
      ELSE CASE s.op \in {"OCHAR", "OANY", "OANYOF"} ->
                  IF sp = stop \/ ~Takes(m.g, s, CharAt(m, sp))
                  THEN [end |-> "failed", sp |-> sp, ss |-> ss]
                  ELSE Easy(m, sp + 1, stop, ss + 1, stopst)
             [] s.op \in {"OBOL", "OEOL", "OBOW", "OEOW"} ->
                  IF Between(m, sp, s.op) THEN Easy(m, sp, stop, ss + 1, stopst)
                  ELSE [end |-> "failed", sp |-> sp, ss |-> ss]
             [] s.op = "O_QUEST" -> Easy(m, sp, stop, ss + 1, stopst)
             [] s.op = "OOR1" -> Easy(m, sp, stop, Across(m.g.strip, ss + 1) + 1, stopst)
             [] OTHER -> [end |-> "hard", sp |-> sp, ss |-> ss]

RECURSIVE Backref(_, _, _, _, _, _, _, _), Branches(_, _, _, _, _, _, _, _), EndBack(_, _, _)

EndBack(strip, ss, i) ==
  IF strip[ss] = [op |-> "O_BACK", n |-> i] THEN ss ELSE EndBack(strip, ss + 1, i)

(* d is the groups and lastpos so far.                                     *)
Failed(d) == [d EXCEPT !.dp = Null]

(* Is the text of the group repeated at sp?                                *)
SameText(m, sp, pm) ==
  SubSeq(m.s, sp + 1, sp + (pm[2] - pm[1])) = SubSeq(m.s, pm[1] + 1, pm[2])

(* A second try, when the first, r, failed.                                *)
Retry(m, r, at, stop, to, stopst, lev, rec, d) ==
  IF r.dp # Null THEN r
  ELSE Backref(m, at, stop, to, stopst, lev, rec, [d EXCEPT !.lastpos = r.lastpos])
Undo(r, n, k, was) == IF r.dp # Null THEN r ELSE [r EXCEPT !.pm[n][k] = was]

Hard(m, sp, stop, ss, stopst, lev, rec, d) ==
  LET s   == m.g.strip[ss]
      pm  == d.pm[s.n]
      len == pm[2] - pm[1]
      Go(at, to, lv, dd) == Backref(m, at, stop, to, stopst, lv, rec, dd)
  IN  CASE s.op = "OBACK_" ->
             IF \/ pm[2] = Null \/ (len = 0 /\ rec > MaxRecursion)
                \/ sp + len > stop \/ ~SameText(m, sp, pm)
             THEN Failed(d)
             ELSE Backref(m, sp + len, stop, EndBack(m.g.strip, ss, s.n) + 1, stopst, lev,
                          IF len = 0 THEN rec + 1 ELSE rec, d)
        [] s.op = "OQUEST_" ->
             Retry(m, Go(sp, ss + 1, lev, d), sp, stop, ss + s.n + 1, stopst, lev, rec, d)
        [] s.op = "OPLUS_" -> Go(sp, ss + 1, lev + 1, [d EXCEPT !.lastpos[lev + 1] = sp])
        [] s.op = "O_PLUS" ->
             IF sp = d.lastpos[lev] THEN Go(sp, ss + 1, lev - 1, d)
             ELSE Retry(m, Go(sp, ss - s.n + 1, lev, [d EXCEPT !.lastpos[lev] = sp]),
                        sp, stop, ss + 1, stopst, lev - 1, rec, d)
        [] s.op = "OCH_" -> Branches(m, sp, stop, ss + 1, ss + s.n - 1, lev, rec, d)
        [] s.op = "OLPAREN" -> Undo(Go(sp, ss + 1, lev, [d EXCEPT !.pm[s.n][1] = sp]), s.n, 1, pm[1])
        [] s.op = "ORPAREN" -> Undo(Go(sp, ss + 1, lev, [d EXCEPT !.pm[s.n][2] = sp]), s.n, 2, pm[2])
        [] OTHER -> Failed(d)

BackrefAt(m, easy, stop, stopst, lev, rec, d) ==
  CASE easy.end = "hard" -> Hard(m, easy.sp, stop, easy.ss, stopst, lev, rec, d)
    [] easy.end = "done" /\ easy.sp = stop -> [d EXCEPT !.dp = stop]
    [] OTHER -> Failed(d)
Backref(m, start, stop, startst, stopst, lev, rec, d) ==
  BackrefAt(m, Easy(m, start, stop, startst, stopst), stop, stopst, lev, rec, d)

(* A branch of a choice is tried on its own: what follows the choice in    *)
(* the strip is not part of the try.                                       *)
OtherBranch(m, r, sp, stop, esub, lev, rec, d) ==
  LET strip == m.g.strip
  IN  IF r.dp # Null THEN r
      ELSE IF strip[esub].op = "O_CH" THEN Failed(r)
      ELSE Branches(m, sp, stop, esub + 2, NextEnd(strip, esub + 1 + strip[esub + 1].n),
                    lev, rec, [d EXCEPT !.lastpos = r.lastpos])
Branches(m, sp, stop, ssub, esub, lev, rec, d) ==
  OtherBranch(m, Backref(m, sp, stop, ssub, esub, lev, rec, d), sp, stop, esub, lev, rec, d)

(***************************************************************************)
(* matcher                                                                 *)
(***************************************************************************)
NoGroups(g) == [i \in 1..g.nsub |-> <<Null, Null>>]
NoMatch(g)  == [found |-> FALSE, ok |-> TRUE, so |-> Null, eo |-> Null, pm |-> NoGroups(g)]

(* The prescreen: the characters every match has are in the line.          *)
HasMust(g, s, beg) == \E i \in beg..Len(s) : IsPrefix(g.must, SubSeq(s, i + 1, Len(s)))

(* Where the match begins: the first place from coldp on.                  *)
RECURSIVE StartOf(_, _), Backoff(_, _, _, _), MatchFrom(_, _, _)
StartOf(m, coldp) ==
  IF coldp > End(m) \/ Slow(m, coldp, End(m), 2, Len(m.g.strip)) # Null THEN coldp
  ELSE StartOf(m, coldp + 1)

(* With back references, ever shorter matches are tried.                   *)
Shorter(m, coldp, endp, less, r) ==
  IF r.dp # Null \/ less = Null THEN [dp |-> r.dp, pm |-> r.pm, end |-> endp]
  ELSE Backoff(m, coldp, less, r)
Backoff(m, coldp, endp, d) ==
  Shorter(m, coldp, endp, IF endp <= coldp THEN Null ELSE Slow(m, coldp, endp - 1, 2, Len(m.g.strip)),
          Backref(m, coldp, endp, 2, Len(m.g.strip), 0, 0, d))

Found(so, eo, ok, pm) == [found |-> TRUE, ok |-> ok, so |-> so, eo |-> eo, pm |-> pm]

(* When all that was tried at the end of the line failed too, the line is  *)
(* said to match nevertheless.                                             *)
Referred(m, so, back, nmatch) ==
  IF back.dp # Null \/ so = End(m) THEN Found(so, back.end, back.dp # Null, back.pm)
  ELSE MatchFrom(m, so + 1, nmatch)

Located(m, so, eo, nmatch) ==
  LET start == [dp |-> Null, pm |-> NoGroups(m.g), ok |-> TRUE,
                lastpos |-> [i \in 0..m.g.nplus |-> Null]]
      Dissected(d) == Found(so, eo, d.ok, d.pm)
  IN  IF m.g.backrefs THEN Referred(m, so, Backoff(m, so, eo, start), nmatch)
      ELSE IF nmatch = 1 THEN Found(so, eo, TRUE, NoGroups(m.g))
      ELSE Dissected(Dissect(m, so, eo, 2, Len(m.g.strip), start))

MatchFrom(m, start, nmatch) ==
  LET last    == Len(m.g.strip)
      From(so) == IF so > End(m) THEN Found(so, so, FALSE, NoGroups(m.g))
                  ELSE Located(m, so, Slow(m, so, End(m), 2, last), nmatch)
      After(f) == IF ~f.hit THEN NoMatch(m.g)
                  ELSE IF nmatch = 0 /\ ~m.g.backrefs THEN [NoMatch(m.g) EXCEPT !.found = TRUE]
                  ELSE From(StartOf(m, f.coldp))
  IN  After(Fast(m, start, 2, last))

Regexec(g, s, beg, notbol, large, nmatch) ==
  IF g.must # <<>> /\ ~HasMust(g, s, beg) THEN NoMatch(g)
  ELSE MatchFrom([g |-> g, s |-> s, beg |-> beg, notbol |-> notbol, large |-> large], beg, nmatch)
==============================================================================
