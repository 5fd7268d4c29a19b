------------------------------- MODULE MCChat -------------------------------
(* Instances of Chat for TLC.                                              *)
EXTENDS Chat

CONSTANTS c1, c2

(* One player writes two messages, the other one and the host one each.    *)
Texts == (c1 :> 2) @@ (c2 :> 1) @@ (Host :> 1)
Symmetric == Permutations(Slots)
=============================================================================
