-------------------------- MODULE MCTransformSync --------------------------
(* Instances of TransformSync for TLC.                                     *)
EXTENDS TransformSync

Symmetric == Permutations(Clients) \cup Permutations(Slots) \cup Permutations(Keys)
=============================================================================
