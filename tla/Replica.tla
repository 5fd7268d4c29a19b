------------------------------- MODULE Replica -------------------------------
(***************************************************************************)
(* What snapshots promise, without servers, connections or packets: every  *)
(* node shows a state the game was in, and moves on to later ones only.    *)
(* States are numbered in the order in which the game goes through them.   *)
(***************************************************************************)
EXTENDS Naturals

CONSTANTS Node, Unseen      \* Unseen: what a node shows before the first one

VARIABLES
    current,    \* the state the game is in
    seen        \* the state each node shows

Init == current = 1 /\ seen = [n \in Node |-> Unseen]

Advance == current' = current + 1 /\ seen' = seen

(* A node skips to a state that is not older than the one it shows.        *)
CatchUp(n) ==
    /\ \E v \in 1 .. current :
          /\ seen[n] # Unseen => seen[n] <= v
          /\ seen' = [seen EXCEPT ![n] = v]
    /\ current' = current

(* A node starts anew.                                                     *)
Forget(n) == seen' = [seen EXCEPT ![n] = Unseen] /\ current' = current

Next == Advance \/ \E n \in Node : CatchUp(n) \/ Forget(n)

Spec == Init /\ [][Next]_<<current, seen>>
=============================================================================
