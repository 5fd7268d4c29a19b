------------------------------ MODULE Callbacks ------------------------------
(***************************************************************************)
(* The onReceive slots of Core/Server.h and Core/Client.h (the callback    *)
(* types of Core/Events.h).  There is one slot per object and no list: a   *)
(* service takes it in its constructor, and the service that had it hears  *)
(* nothing from then on.  What is registered with the service that holds a *)
(* slot (on, onReceive) starts empty with every new object.                *)
(*                                                                         *)
(* Sync/RPC.h and Sync/Snapshot.h are modelled on top; any other service   *)
(* appears as one that holds a slot and ignores their packets.             *)
(***************************************************************************)
EXTENDS Session

CONSTANTS
    ServerEnd,      \* the server, as an end of connections next to Clients
    Offers          \* the services an end may construct, for each end

Ends == Clients \cup {ServerEnd}

ASSUME CallbacksAssumption ==
    /\ ServerEnd \notin Clients
    /\ DOMAIN Offers = Ends
    /\ \A e \in Ends : "none" \notin Offers[e]

VARIABLES
    holder,     \* the service whose callback is in onReceive of each end
    handlers    \* what has been registered with that service

callbackVars == <<holder, handlers>>

CallbacksInit ==
    /\ holder = [e \in Ends |-> "none"]
    /\ handlers = [e \in Ends |-> {}]

(* A constructor: onReceive(cb) overwrites the slot.                       *)
Construct(e, svc) ==
    /\ holder' = [holder EXCEPT ![e] = svc]
    /\ handlers' = [handlers EXCEPT ![e] = {}]

(* on(name, handler), onReceive(cb) of the service that has the slot.      *)
Register(e, h) ==
    /\ h \notin handlers[e]
    /\ handlers' = [handlers EXCEPT ![e] = @ \cup {h}]
    /\ UNCHANGED holder

(* The process of a client starts anew.                                    *)
Forgets(c) ==
    /\ holder' = [holder EXCEPT ![c] = "none"]
    /\ handlers' = [handlers EXCEPT ![c] = {}]

(* Whom a reliable packet for the player with this id reaches.             *)
Addressee(i) == IF i \in Known THEN Attached(peers[i]) \cap Reached(pstate, link) ELSE {}
=============================================================================
