------------------------------ MODULE Tracking ------------------------------
(***************************************************************************)
(* What Sync/VariableSync.h and Sync/TransformSync.h have in common: the   *)
(* server tracks values it reads through pointers, remembers of each what  *)
(* it has sent last, and broadcasts those that differ; the client hands    *)
(* what it receives to the application.  Neither looks at connections.     *)
(* The two modules add how a change is broadcast and received.             *)
(*                                                                         *)
(* A key stands for "id:name" of a variable, or for the id of a transform. *)
(***************************************************************************)
EXTENDS Session, SequencesExt

CONSTANTS
    Keys,       \* what can be tracked
    Values,     \* what a tracked pointer can point to
    Zero,       \* the value with which every entry starts
    Nothing     \* no entry, or nothing shown yet

ASSUME TrackingAssumption == Zero \in Values /\ Nothing \notin Values

VARIABLES
    value,      \* the application's variables, read through the pointers
    last,       \* the entries of m_vars, m_tracked: what was sent last
    shown,      \* what each client's application was last told of a key
    heard       \* history: the pairs (client, key) with a broadcast of the key
                \* while the client could be reached, since the key is tracked

trackVars == <<value, last, shown, heard>>

Report == [key : Keys, value : Values]

ASSUME PayloadAssumption == Report \subseteq ToClient

TrackInit ==
    /\ Init
    /\ value = [k \in Keys |-> Zero]
    /\ last = [k \in Keys |-> Nothing]
    /\ shown = [c \in Clients |-> [k \in Keys |-> Nothing]]
    /\ heard = {}

-----------------------------------------------------------------------------
(* Server.                                                                 *)

Write(k, x) ==
    /\ x # value[k]
    /\ value' = [value EXCEPT ![k] = x]
    /\ UNCHANGED <<sessionVars, last, shown, heard>>

(* track(): the entry is new even when the key is tracked already.         *)
Track(k) ==
    /\ last' = [last EXCEPT ![k] = Zero]
    /\ heard' = heard \ (Clients \X {k})
    /\ UNCHANGED <<sessionVars, value, shown>>

Untrack(k) ==
    /\ last[k] # Nothing
    /\ last' = [last EXCEPT ![k] = Nothing]
    /\ heard' = heard \ (Clients \X {k})
    /\ UNCHANGED <<sessionVars, value, shown>>

Changed == {k \in Keys : last[k] \notin {Nothing, value[k]}}

(* One packet for each key that changed, in the order of the unordered_map.*)
Reports == {[i \in DOMAIN ks |-> [key |-> ks[i], value |-> value[ks[i]]]] : ks \in SetToSeqs(Changed)}

Reachable == Reached(pstate, link)

(* The end of update()'s loop body, for every entry that changed.          *)
Remember == last' = [k \in Keys |-> IF k \in Changed THEN value[k] ELSE last[k]]

(* update(): got[c] are the packets for the changed keys that reach client *)
(* c, and told[c] the keys of those that c has a use for.  README.md polls *)
(* a server from start() on; without a host broadcast() must not be called.*)
SendReports(got, told) ==
    /\ srvHost /\ Changed # {}
    /\ RoomDown
    /\ down' = [c \in Clients |-> IF c \in Reachable THEN down[c] \o got[c] ELSE down[c]]
    /\ Remember
    /\ heard' = (heard \ (Reachable \X Changed)) \cup UNION {{c} \X told[c] : c \in Reachable}
    /\ UNCHANGED <<serverVars, enetVars, up, clientVars, value, shown>>

-----------------------------------------------------------------------------
(* The session underneath.  No callback but the client's onReceive is      *)
(* installed, and no client sends.                                         *)

Underneath ==
    /\ \/ Background
       \/ ServerClose
       \/ \E s \in Slots : (ServerConnect(s) \/ ServerDisconnect(s)) /\ UNCHANGED down
       \/ \E i \in ClientID : Kick(i) /\ UNCHANGED down
       \/ \E c \in Clients : ClientDisconnect(c)
    /\ UNCHANGED trackVars

Connected(c) ==
    /\ ConnectSucceeds(c) /\ UNCHANGED up
    /\ heard' = heard \ ({c} \X Keys)
    /\ UNCHANGED <<value, last, shown>>

Restarted(c) ==
    /\ shown' = [shown EXCEPT ![c] = [k \in Keys |-> Nothing]]
    /\ heard' = heard \ ({c} \X Keys)
    /\ UNCHANGED <<value, last>>

CallReturned(c) ==
    \/ Connected(c)
    \/ (ConnectFails(c) \/ DisconnectEnd(c)) /\ UNCHANGED trackVars

-----------------------------------------------------------------------------
ReportsOf(k) == {m \in Report : m.key = k}

(* A client that was told of a key since it connected and since the key is *)
(* tracked shows, once it has taken what is on its way, what the server    *)
(* takes for sent: no broadcast is skipped, doubled or overtaken when      *)
(* several keys change in one frame, when keys are tracked anew, and when  *)
(* clients come and go meanwhile.                                          *)
ToldAreInStep ==
    \A c \in Reachable, k \in Keys :
        <<c, k>> \in heard => EndsAs(down[c], ReportsOf(k), "value", shown[c][k], last[k])

Meddle == \E k \in Keys : Track(k) \/ Untrack(k) \/ \E x \in Values : Write(k, x)

(* Once the application neither writes nor tracks, the clients that were   *)
(* told of a key and stay show its value, not an earlier one.              *)
ToldConverge ==
    <>[][~Meddle]_<<sessionVars, trackVars>> =>
        \A c \in Clients, k \in Keys :
            []<>(<<c, k>> \in heard /\ c \in Reachable => shown[c][k] = value[k])
=============================================================================
