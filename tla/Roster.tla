------------------------------- MODULE Roster -------------------------------
(***************************************************************************)
(* What a Server promises about its players, without peers, slots or ENet: *)
(* an identity is announced once, is present for one uninterrupted stretch *)
(* and never comes back.  Closing the server removes everybody at once.    *)
(***************************************************************************)
CONSTANT ID         \* the identities there are

VARIABLES
    born,           \* identities announced so far (onConnect ran for them)
    live            \* identities of the players present (clientCount() of them)

Init == born = {} /\ live = {}

(* A player arrives under an identity nobody had before.                   *)
Join == \E i \in ID \ born :
            /\ born' = born \cup {i}
            /\ live' = live \cup {i}

(* One player leaves.                                                      *)
Leave == \E i \in live : live' = live \ {i} /\ born' = born

(* The server closes.                                                      *)
CloseAll == live # {} /\ live' = {} /\ born' = born

Next == Join \/ Leave \/ CloseAll

Spec == Init /\ [][Next]_<<born, live>>
=============================================================================
