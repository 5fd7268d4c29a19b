------------------------------ MODULE MCLobby ------------------------------
(* Instances of Lobby for TLC.                                             *)
EXTENDS Lobby, TLC

Symmetric == Permutations(Clients) \cup Permutations(Slots)
=============================================================================
