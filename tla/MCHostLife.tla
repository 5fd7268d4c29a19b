----------------------------- MODULE MCHostLife -----------------------------
(* Instances of HostLife for TLC.                                          *)
EXTENDS HostLife

Symmetric == Permutations(Clients)
=============================================================================
