--------------------------- MODULE MCVariableSync ---------------------------
(* Instances of VariableSync for TLC.                                      *)
EXTENDS VariableSync

Symmetric == Permutations(Clients) \cup Permutations(Slots) \cup Permutations(Keys)
=============================================================================
