------------------------------ MODULE KeyStream -----------------------------
(***************************************************************************)
(* What the queue of events promises, without its buffer, its reads and    *)
(* its search: events come out in the order they came in, each once; what  *)
(* a map stands for comes in the place of the keys that were mapped, and   *)
(* no key that a map applies to comes out unmapped.                        *)
(***************************************************************************)
EXTENDS Integers, SequencesExt

VARIABLES q,       \* the events that wait
          got,     \* the event delivered last
          maps,    \* the entries [stype, input, output] in force
          mode,    \* whose maps apply: "command", "input" or "none"
          remap    \* the output of a map is mapped in its turn

vars == <<q, got, maps, mode, remap>>

Rest(s, n) == SubSeq(s, n + 1, Len(s))
IsKey(e) == e.type = "key"
KeyEvents(s, flags) == [i \in 1..Len(s) |-> [type |-> "key", c |-> s[i], flags |-> flags]]

(* An entry applies to keys that it is spelled by; of two, the shorter.    *)
Spelled(m) ==
  /\ m.stype = mode /\ Len(m.input) <= Len(q)
  /\ \A i \in 1..Len(m.input) : q[i].c = m.input[i]
Applying ==
  IF q = <<>> \/ ~IsKey(q[1]) \/ "nomap" \in q[1].flags THEN {}
  ELSE {m \in maps : Spelled(m) /\ \A n \in maps : Spelled(n) => Len(m.input) <= Len(n.input)}
OfKeys(m) == \A i \in 1..Len(m.input) : IsKey(q[i])

(* What an entry puts in the place of its keys: its output, of which the   *)
(* same keys at the start, or with noremap all, are not mapped again.      *)
Replaced(m) ==
  LET n     == Len(m.input)
      keeps == IsPrefix(m.input, m.output)
  IN  IF ~remap  THEN KeyEvents(m.output, {"mapped", "nomap"})
      ELSE IF keeps THEN KeyEvents(m.input, {"mapped", "nomap"}) \o KeyEvents(Rest(m.output, n), {"mapped"})
      ELSE KeyEvents(m.output, {"mapped"})

-----------------------------------------------------------------------------
\* The reader may have done with the event delivered last.
Used == got' = got \/ got'.type = "notdigit"
Same == UNCHANGED <<got, maps, mode, remap>>

Arrive == /\ \E n \in 1..Len(q') : IsPrefix(q, q') /\ Len(q') = Len(q) + n
          /\ Same

Take == /\ q # <<>> /\ Applying = {}
        /\ got' = q[1] /\ q' = Tail(q)
        /\ UNCHANGED <<maps, mode, remap>>

\* The next key does not go on with a count, nor does what it stands for.
EndOfCount == /\ q # <<>> /\ got'.type = "notdigit"
              /\ UNCHANGED <<q, maps, mode, remap>>

Expand == /\ \E m \in Applying : OfKeys(m) /\ q' = Replaced(m) \o Rest(q, Len(m.input))
          /\ Same

\* An interrupt in place of the expansion.
Abandon == /\ \E m \in Applying : q' = Rest(q, Len(m.input))
           /\ got'.type = "interrupt" /\ UNCHANGED <<maps, mode, remap>>

\* Keys put back in front: by an @ buffer, an alias or an abbreviation.
PushBack == /\ IsSuffix(q, q') /\ \A i \in 1..Len(q') - Len(q) : IsKey(q'[i])
            /\ Used /\ UNCHANGED <<maps, remap>>

Discard == /\ \E f \in {"mapped", "abbreviated"}, n \in 1..Len(q) :
                /\ \A i \in 1..n : f \in q[i].flags
                /\ n < Len(q) => f \notin q[n + 1].flags
                /\ q' = Rest(q, n)
           /\ Used /\ UNCHANGED <<maps, remap>>

\* The reader turns to something else, or the maps are changed.
Turn == Used /\ UNCHANGED <<q, remap>>

(* What the code does besides: an event that is no key is taken for the    *)
(* one left in its record and goes with a map; with noremap the delivered  *)
(* event need not be the next one.                                         *)
Swallow == /\ \E m \in Applying : ~OfKeys(m) /\ q' = Replaced(m) \o Rest(q, Len(m.input))
           /\ Same
Misread == /\ ~remap /\ q # <<>> /\ "nomap" \in q[1].flags /\ q' = Tail(q)
           /\ UNCHANGED <<maps, mode, remap>>

Init == q = <<>> /\ got.type = "notdigit" /\ maps = {} /\ mode = "command" /\ remap \in BOOLEAN

Next == \/ Arrive \/ Take \/ EndOfCount \/ Expand \/ Abandon \/ PushBack \/ Discard \/ Turn
        \/ Swallow \/ Misread

Spec == Init /\ [][Next]_vars
=============================================================================
