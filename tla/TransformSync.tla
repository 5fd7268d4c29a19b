---------------------------- MODULE TransformSync ----------------------------
(***************************************************************************)
(* Sync/TransformSync.h: tracked transforms, broadcast unreliably when     *)
(* they change, and one callback for all of them.  A value is a position   *)
(* with a rotation; the two are compared, sent and remembered together.    *)
(***************************************************************************)
EXTENDS Tracking

transformVars == <<sessionVars, trackVars>>

(* Of the reports to a client some may be lost on their way; the entry     *)
(* takes them for sent all the same.                                       *)
Arriving(r, ks) == Picked(r, {i \in DOMAIN r : r[i].key \in ks})

TransformUpdate ==
    \E arrives \in [Reachable -> SUBSET Changed], r \in Reports :
        SendReports([c \in Reachable |-> Arriving(r, arrives[c])], arrives)

TransformReceive(c) ==
    /\ ClientReceive(c) /\ UNCHANGED up
    /\ LET m == Head(down[c])
       IN  shown' = [shown EXCEPT ![c][m.key] = m.value]
    /\ UNCHANGED <<value, last, heard>>

TransformRestarts(c) == Crash(c) /\ Restarted(c)

TransformNext ==
    \/ Underneath
    \/ TransformUpdate
    \/ \E k \in Keys : Track(k) \/ Untrack(k) \/ \E x \in Values : Write(k, x)
    \/ \E c \in Clients : Connected(c) \/ TransformReceive(c) \/ TransformRestarts(c)

TransformSpec == TrackInit /\ [][TransformNext]_transformVars

-----------------------------------------------------------------------------
(* What a client shows of a key once it has taken what is on its way.      *)
WillShow(c, k) ==
    LET q == SelectSeq(down[c], LAMBDA m : m.key = k)
    IN  IF q = <<>> THEN shown[c][k] ELSE Last(q).value

(* README.md: "Automatically sync position/rotation of game objects".  A   *)
(* client that follows an object sees it, or is about to see it, where it  *)
(* came to rest.  An entry that is as new (Zero) does not count.           *)
RestIsSeen ==
    \A c \in Reachable, k \in Keys :
        /\ last[k] = value[k] /\ last[k] # Zero
        /\ WillShow(c, k) # Nothing
        => WillShow(c, k) = value[k]
=============================================================================
