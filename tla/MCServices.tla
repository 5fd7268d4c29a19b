----------------------------- MODULE MCServices -----------------------------
(* Instances of Services for TLC: c1 uses both services, c2 is there to    *)
(* take its place on the server.                                           *)
EXTENDS Services, TLC

CONSTANTS c1, c2

OffersMC == (c1 :> {"rpc", "snapshot"}) @@ (c2 :> {}) @@ (ServerEnd :> {"rpc", "other"})

CallLimitMC == (c1 :> 1) @@ (c2 :> 0)
=============================================================================
