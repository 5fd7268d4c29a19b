--------------------------- MODULE MCMatchmaking ---------------------------
(* Instances of Matchmaking for TLC.                                       *)
EXTENDS Matchmaking

Symmetric == Permutations(Clients) \cup Permutations(Slots)
=============================================================================
