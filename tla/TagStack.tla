------------------------------ MODULE TagStack ------------------------------
(***************************************************************************)
(* What the tags stack promises: every screen has a place and a stack of   *)
(* places.  Following a tag saves the place left, popping comes back to a  *)
(* place saved, and nothing else touches the stack.                        *)
(***************************************************************************)
EXTENDS Sequences, Integers

CONSTANTS Screen,
          Place,
          Temporary,    \* the places one does not come back to
          Closed        \* where a screen that is not there is

VARIABLES at,           \* the place of every screen
          stack         \* its places saved, the last one first

Rest(s, n) == SubSeq(s, n + 1, Len(s))

Init == /\ at \in [Screen -> Place \cup {Closed}]
        /\ stack = [s \in Screen |-> <<>>]

(* A temporary file is not kept: the new place is saved in its stead.      *)
Saved(from, to) == IF from \in Temporary THEN to ELSE from
Push(s) ==
  \E p \in Place :
    /\ at' = [at EXCEPT ![s] = p]
    /\ stack' = [stack EXCEPT ![s] = <<Saved(at[s], p)>> \o @]
Pop(s) ==
  \E n \in DOMAIN stack[s] :
    /\ at' = [at EXCEPT ![s] = stack[s][n]]
    /\ stack' = [stack EXCEPT ![s] = Rest(@, n)]
Go(s) == /\ \E p \in Place : at' = [at EXCEPT ![s] = p]
         /\ UNCHANGED stack
(* A new screen t has the stack of the one it is split from, with the      *)
(* place of that one saved when it was opened to follow a tag.             *)
Open(s, t) ==
  /\ at[t] = Closed
  /\ \E p \in Place : at' = [at EXCEPT ![t] = p]
  /\ \E push \in {<<>>, <<at[s]>>} : stack' = [stack EXCEPT ![t] = push \o stack[s]]
Close(s) == /\ at' = [at EXCEPT ![s] = Closed]
            /\ stack' = [stack EXCEPT ![s] = <<>>]

Next == \E s \in Screen :
          /\ at[s] # Closed
          /\ \/ Push(s) \/ Pop(s) \/ Go(s) \/ Close(s)
             \/ \E t \in Screen : Open(s, t)

Spec == Init /\ [][Next]_<<at, stack>>
=============================================================================
