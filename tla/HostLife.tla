------------------------------- MODULE HostLife -------------------------------
(***************************************************************************)
(* The ENet hosts that one process creates and destroys through a Server   *)
(* (Core/Server.h) and its Client objects (Core/Client.h): which of them   *)
(* exist, and to which of them m_host, the peers in m_peers and m_peer     *)
(* lead.  The process has one thread.  Its calls nest: poll() runs a       *)
(* callback, a callback may call connect(), which runs a callback, ...     *)
(*                                                                         *)
(* Connections, packets and ids are those of Session; here the interest is *)
(* in null and dangling pointers, so ENet may offer any event at any time, *)
(* and every call may fail.  A loop that is about to service a host that   *)
(* does not exist is where the process dies: no step leads on from there.  *)
(***************************************************************************)
EXTENDS Integers, SequencesExt

CONSTANTS
    Clients,    \* the rnf::Client objects of the process
    Server,     \* its rnf::Server object
    Null,       \* no host, no peer
    HostLimit   \* bound: calls of enet_host_create

Objects == Clients \cup {Server}
Hosts == 1 .. HostLimit

ASSUME HostAssumption == Server \notin Clients /\ HostLimit \in Nat /\ Null \notin Nat

VARIABLES
    born,       \* calls of enet_host_create so far; each host is the number of its call
    alive,      \* ENet: the hosts that exist
    inits,      \* ENet: calls of enet_initialize without one of enet_deinitialize
    host,       \* m_host of each object
    peers,      \* hosts with a peer in Server::m_peers
    peer,       \* the host whose peer Client::m_peer is
    running,    \* Server::m_running
    state,      \* Client::m_state
    stack,      \* the loops and callbacks the thread is in, the innermost last
    upsets      \* history: what happened that the code is not prepared for

hostVars == <<born, alive, inits, host, peers, peer, running, state, stack, upsets>>

Loops == {"polling", "connecting", "disconnecting"}
Callbacks == {"onConnect", "onReceive", "onDisconnect"}

Top == IF stack = <<>> THEN [of |-> Null, at |-> "main"] ELSE Last(stack)
In(o, at) == Top = [of |-> o, at |-> at]
Enter(o, at) == stack' = Append(stack, [of |-> o, at |-> at])
Return == stack' = Front(stack)
Becomes(o, at) == stack' = Append(Front(stack), [of |-> o, at |-> at])

(* The application makes calls from its main loop and from callbacks; only *)
(* poll() it calls from the main loop alone, as RaylibBackend does.        *)
MayCall == Top.at \in {"main"} \cup Callbacks
Polled(o) == \E i \in DOMAIN stack : stack[i] = [of |-> o, at |-> "polling"]

(* What the thread may come upon without the code being prepared for it.   *)
Upset == {"startedTwice", "connectedTwice", "endedInPoll",
          "noHostInPoll", "connectFailed", "serverLost"}
Note(S) == upsets' = upsets \cup S
When(cond, u) == IF cond THEN {u} ELSE {}

HostInit ==
    /\ born = 0 /\ alive = {} /\ inits = 0
    /\ host = [o \in Objects |-> Null]
    /\ peers = {} /\ running = FALSE
    /\ peer = [c \in Clients |-> Null]
    /\ state = [c \in Clients |-> "Disconnected"]
    /\ stack = <<>>
    /\ upsets = {}

-----------------------------------------------------------------------------
(* ENet.                                                                   *)

(* enet_initialize, then enet_host_create: m_host is overwritten.          *)
Create(o, S) ==
    /\ born < HostLimit
    /\ born' = born + 1
    /\ inits' = inits + 1
    /\ \/ /\ alive' = alive \cup {born'}
          /\ host' = [host EXCEPT ![o] = born']
       \/ host' = [host EXCEPT ![o] = Null] /\ UNCHANGED alive
    /\ Note(S \cup When(host'[o] = Null /\ Polled(o), "noHostInPoll"))

(* enet_host_destroy, enet_deinitialize.                                   *)
Destroy(o) ==
    /\ alive' = alive \ {host[o]}
    /\ inits' = inits - 1
    /\ host' = [host EXCEPT ![o] = Null]
    /\ UNCHANGED born

Serviceable(o) == host[o] \in alive

-----------------------------------------------------------------------------
(* Server.h                                                                *)

(* start(), also on a server that runs; false when the host is not created.*)
(* An enet_initialize that fails changes nothing.                          *)
Start ==
    /\ MayCall
    /\ Create(Server, When(running, "startedTwice"))
    /\ running' = (running \/ host'[Server] # Null)
    /\ UNCHANGED <<peers, peer, state, stack>>

Close_Fault ==  \* m_host keeps its value
    /\ MayCall
    /\ host[Server] # Null
    /\ alive' = alive \ {host[Server]}
    /\ inits' = inits - 1
    /\ peers' = {}
    /\ running' = FALSE
    /\ Note(When(Polled(Server), "endedInPoll"))
    /\ UNCHANGED <<born, host, peer, state, stack>>

CloseUnasked_Fault ==  \* no test whether there is a host
    /\ MayCall
    /\ Destroy(Server)
    /\ peers' = {}
    /\ running' = FALSE
    /\ Note(When(Polled(Server), "endedInPoll"))
    /\ UNCHANGED <<peer, state, stack>>

(* close() and ~Server(): nothing to do without a host.                    *)
Close ==
    /\ MayCall
    /\ host[Server] # Null
    /\ Destroy(Server)
    /\ peers' = {}
    /\ running' = FALSE
    /\ Note(When(Polled(Server), "endedInPoll"))
    /\ UNCHANGED <<peer, state, stack>>

(* poll(), one turn of its loop: an event and the callback for it, or none.*)
ServerTurn ==
    /\ In(Server, "polling") /\ Serviceable(Server)
    /\ \/ Enter(Server, "onConnect") /\ peers' = peers \cup {host[Server]}
       \/ Enter(Server, "onReceive") /\ UNCHANGED peers
       \/ Enter(Server, "onDisconnect") /\ peers' \in {peers, peers \ {host[Server]}}
       \/ Return /\ UNCHANGED peers
    /\ UNCHANGED <<born, alive, inits, host, peer, running, state, upsets>>

-----------------------------------------------------------------------------
(* Client.h                                                                *)

Connect_Fault(c) ==  \* m_state stays Connecting when the connection is refused
    /\ MayCall
    /\ Create(c, When(peer[c] # Null, "connectedTwice") \cup {"connectFailed"})
    /\ state' = [state EXCEPT ![c] = "Connecting"]
    /\ UNCHANGED <<peers, running, peer, stack>>

(* connect(), up to the wait.  What m_host and m_peer were is forgotten,   *)
(* m_peer only when a host could be created.                               *)
Connect(c) ==
    /\ MayCall
    /\ \E refused \in BOOLEAN :
          /\ Create(c, When(peer[c] # Null, "connectedTwice") \cup When(refused, "connectFailed"))
          /\ IF host'[c] = Null THEN refused /\ UNCHANGED <<peer, stack>>
             ELSE IF refused THEN peer' = [peer EXCEPT ![c] = Null] /\ UNCHANGED stack
             ELSE peer' = [peer EXCEPT ![c] = host'[c]] /\ Enter(c, "connecting")
    /\ UNCHANGED <<peers, running, state>>

(* connect(), from the wait on.                                            *)
ConnectTurn(c) ==
    /\ In(c, "connecting") /\ Serviceable(c)
    /\ \/ /\ state' = [state EXCEPT ![c] = "Connected"]
          /\ Becomes(c, "onConnect")
          /\ UNCHANGED <<peer, upsets>>
       \/ /\ state' = [state EXCEPT ![c] = "Disconnected"]
          /\ peer' = [peer EXCEPT ![c] = Null]
          /\ Return
          /\ Note({"connectFailed"})
    /\ UNCHANGED <<born, alive, inits, host, peers, running>>

(* disconnect() and ~Client(), up to the loop; nothing to do when there is *)
(* no peer or the state is Disconnected already.                           *)
Disconnect(c) ==
    /\ MayCall
    /\ peer[c] # Null /\ state[c] # "Disconnected"
    /\ state' = [state EXCEPT ![c] = "Disconnecting"]
    /\ Enter(c, "disconnecting")
    /\ Note(When(Polled(c), "endedInPoll"))
    /\ UNCHANGED <<born, alive, inits, host, peers, peer, running>>

DisconnectTurn_Fault(c) ==  \* the host is not destroyed
    /\ In(c, "disconnecting") /\ Serviceable(c)
    /\ host' = [host EXCEPT ![c] = Null]
    /\ peer' = [peer EXCEPT ![c] = Null]
    /\ state' = [state EXCEPT ![c] = "Disconnected"]
    /\ Return
    /\ UNCHANGED <<born, alive, inits, peers, running, upsets>>

(* disconnect(), its loop and what follows.                                *)
DisconnectTurn(c) ==
    /\ In(c, "disconnecting") /\ Serviceable(c)
    /\ Destroy(c)
    /\ peer' = [peer EXCEPT ![c] = Null]
    /\ state' = [state EXCEPT ![c] = "Disconnected"]
    /\ Return
    /\ UNCHANGED <<peers, running, upsets>>

ClientTurn_Fault(c) ==  \* m_state keeps its value
    /\ In(c, "polling") /\ Serviceable(c)
    /\ \/ peer[c] = host[c] /\ Enter(c, "onReceive") /\ UNCHANGED <<peer, state, upsets>>
       \/ /\ peer[c] = host[c]
          /\ peer' = [peer EXCEPT ![c] = Null]
          /\ UNCHANGED state
          /\ Enter(c, "onDisconnect")
          /\ Note({"serverLost"})
       \/ Return /\ UNCHANGED <<peer, state, upsets>>
    /\ UNCHANGED <<born, alive, inits, host, peers, running>>

(* poll(), one turn of its loop.  Only a peer brings events.               *)
ClientTurn(c) ==
    /\ In(c, "polling") /\ Serviceable(c)
    /\ \/ peer[c] = host[c] /\ Enter(c, "onReceive") /\ UNCHANGED <<peer, state, upsets>>
       \/ /\ peer[c] = host[c]
          /\ peer' = [peer EXCEPT ![c] = Null]
          /\ state' = [state EXCEPT ![c] = "Disconnected"]
          /\ Enter(c, "onDisconnect")
          /\ Note({"serverLost"})
       \/ Return /\ UNCHANGED <<peer, state, upsets>>
    /\ UNCHANGED <<born, alive, inits, host, peers, running>>

-----------------------------------------------------------------------------
(* poll() of either: nothing without a host.  The main loop calls it.      *)
Poll(o) ==
    /\ stack = <<>>
    /\ host[o] # Null
    /\ Enter(o, "polling")
    /\ UNCHANGED <<born, alive, inits, host, peers, peer, running, state, upsets>>

CallbackReturns ==
    /\ Top.at \in Callbacks
    /\ Return
    /\ UNCHANGED <<born, alive, inits, host, peers, peer, running, state, upsets>>

HostNext ==
    \/ Start \/ Close \/ ServerTurn
    \/ \E c \in Clients :
          Connect(c) \/ ConnectTurn(c) \/ Disconnect(c) \/ DisconnectTurn(c) \/ ClientTurn(c)
    \/ \E o \in Objects : Poll(o)
    \/ CallbackReturns

HostSpec == HostInit /\ [][HostNext]_hostVars

-----------------------------------------------------------------------------
(* Properties.                                                             *)

(* Types of the members of both classes, the hosts and the thread.         *)
HostTypeOK ==
    /\ born \in 0 .. HostLimit
    /\ alive \subseteq 1 .. born
    /\ inits \in Int
    /\ host \in [Objects -> Hosts \cup {Null}]
    /\ peers \subseteq Hosts
    /\ peer \in [Clients -> Hosts \cup {Null}]
    /\ running \in BOOLEAN
    /\ state \in [Clients -> {"Disconnected", "Disconnecting", "Connected"}]
    /\ upsets \subseteq Upset
    /\ stack \in Seq([of : Objects, at : Loops \cup Callbacks])

(* No loop services a host that is null or destroyed, neither poll() after *)
(* a callback, however deep the calls in it were nested, nor connect() or  *)
(* disconnect(), which do not test m_host.  It takes one of three things:  *)
(* in a callback of an object's poll() the object is ended, or a new host  *)
(* for it is not to be had; or a client that has a peer is connected.      *)
ServicesExist ==
    upsets \cap {"endedInPoll", "noHostInPoll", "connectedTwice"} = {} /\ Top.at \in Loops
        => Serviceable(Top.of)

(* m_host and the peers behind m_peers and m_peer never dangle: a host is  *)
(* forgotten before its time (by start() of a server that runs, connect()  *)
(* of a client that has a peer), never destroyed under a pointer to it.    *)
PointersLive ==
    /\ \A o \in Objects : host[o] # Null => host[o] \in alive
    /\ peers \subseteq alive
    /\ \A c \in Clients : peer[c] # Null => peer[c] \in alive

(* isRunning() and isConnected() say what can be used: broadcast(), which  *)
(* does not test m_host, has a host when the one is true, and disconnect() *)
(* one to service when the other is.                                       *)
StateTells ==
    /\ "startedTwice" \notin upsets => (running <=> host[Server] # Null)
    /\ "connectedTwice" \notin upsets =>
          \A c \in Clients : state[c] # "Disconnected" => peer[c] # Null /\ peer[c] = host[c]

(* ENet stays initialised for as long as any object of the process has a   *)
(* host: none of them pairs enet_deinitialize with the call of another.    *)
InitialisedWhileUsed == Cardinality(alive) <= inits

(* "Cleans up resources": no host outlives the pointer to it when every    *)
(* connection is ended by disconnect().  When the server ends it, or it    *)
(* never comes about, disconnect() returns early, and connect() then       *)
(* forgets the host.                                                       *)
NothingLeftBehind ==
    upsets \subseteq {"endedInPoll", "noHostInPoll"} => alive \subseteq {host[o] : o \in Objects}
=============================================================================
