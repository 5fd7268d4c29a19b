------------------------------ MODULE Session ------------------------------
(***************************************************************************)
(* One rnf::Server (Core/Server.h), a set of rnf::Client objects           *)
(* (Core/Client.h) and the ENet library between them.                      *)
(*                                                                         *)
(* ENet keeps, per host, an array of peers.  A server-side peer (a slot)   *)
(* is reused for one connection after the other and carries the user       *)
(* pointer `data', in which the server stores the ClientID.  ENet is not   *)
(* part of the repository: slots, links and queues are modelled from how   *)
(* Server.h and Client.h use them.                                         *)
(*                                                                         *)
(* Both poll() loops take one ENet event at a time and run the callback    *)
(* for it, so one event with its callback is one action.  A component that *)
(* installs callbacks (a lobby, matchmaking, ...) conjoins their effect to *)
(* these actions.  For that reason an action here leaves unspecified the   *)
(* queue that a callback run by it may append to:                          *)
(*   ServerConnect, ServerDisconnect, ServerReceive and Kick leave `down'  *)
(*   open, ConnectSucceeds and ClientReceive leave `up' open.              *)
(*                                                                         *)
(* Of the applications it is assumed that they keep to the lifecycle that  *)
(* README.md shows (connect, poll, disconnect) and do not connect a client *)
(* that has a peer (MayConnect), nor start a server that runs.  The code   *)
(* does not test for either; HostLife has what happens then.               *)
(***************************************************************************)
EXTENDS Integers, Sequences, FiniteSets

CONSTANTS
    Clients,    \* the rnf::Client objects, one per player process
    Slots,      \* the peers of the server's ENet host (maxClients of start)
    NoSlot,     \* no ENet peer
    ToServer,   \* payloads a client may send
    ToClient,   \* payloads the server may send
    IdSpan,     \* number of values of ClientID (2^32 in the code)
    IdLimit,    \* bound: connections accepted before the model stops accepting
    UpCap,      \* bound: packets in flight from one client
    DownCap     \* bound: packets in flight to one client when more are sent

ASSUME NoSlotAssumption == NoSlot \notin Slots
ASSUME SpanAssumption == IdSpan \in Nat \ {0} /\ IdLimit \in Nat /\ UpCap \in Nat /\ DownCap \in Nat

VARIABLES
    srvHost,    \* Server::m_host is not null (m_running changes with it)
    nextID,     \* Server::m_nextID
    peers,      \* Server::m_peers: ClientID -> slot, NoSlot where there is no entry
    pstate,     \* ENet: state of each server-side peer
    data,       \* ENet: the user pointer of each server-side peer, a ClientID
    link,       \* ENet: the slot a client's own peer is attached to
    up,         \* packets in flight from the client attached to a slot
    down,       \* packets in flight to a client
    cHost,      \* Client::m_host is not null
    cPeer,      \* Client::m_peer is not null
    cState,     \* Client::m_state
    cCall       \* the blocking call the client's thread is in, if any

serverVars == <<srvHost, nextID, peers>>
enetVars   == <<pstate, data, link>>
clientVars == <<cHost, cPeer, cState, cCall>>
sessionVars == <<serverVars, enetVars, up, down, clientVars>>

ClientID == 0 .. IdSpan - 1
ConnectionState == {"Disconnected", "Connecting", "Connected", "Disconnecting"}
PeerState == {"free", "pending", "acknowledged", "connected", "disconnecting"}

Known == {i \in ClientID : peers[i] # NoSlot}
Attached(s) == {c \in Clients : link[c] = s}
Pending == {s \in Slots : pstate[s] \in {"pending", "acknowledged"}}

-----------------------------------------------------------------------------
(* Sending.  ENet transmits only to peers whose state is `connected'; for  *)
(* any other peer the packet vanishes (enet_peer_send fails).              *)

Reached(ps, lk) == {c \in Clients : lk[c] \in Slots /\ ps[lk[c]] = "connected"}

AppendTo_Fault(q, S, m) == [x \in S |-> Append(q[x], m)]  \* forgets the others

AppendTo(q, S, m) == [x \in DOMAIN q |-> IF x \in S THEN Append(q[x], m) ELSE q[x]]

RoomUp(s) == Len(up[s]) < UpCap
RoomDown == \A c \in Clients : Len(down[c]) < DownCap

(* What send() and broadcast() leave in flight: a reliable packet is       *)
(* queued for every receiver, an unreliable one may be lost for any.       *)
Transmit(S, m, delivery) ==
    \E lost \in SUBSET S :
        /\ delivery = "Reliable" => lost = {}
        /\ down' = AppendTo(down, S \ lost, m)

(* What is left of q when only some of its places are kept: the order is.  *)
Picked(q, kept) ==
    LET Nth(n) == CHOOSE k \in kept : Cardinality({j \in kept : j <= k}) = n
    IN  [n \in 1 .. Cardinality(kept) |-> q[Nth(n)]]

(* A receiver that takes the packets of q one by one, and sets something   *)
(* that is `old' now to the field f of each of those in S, ends with `new'.*)
EndsAs(q, S, f, old, new) ==
    \/ \E k \in DOMAIN q :
          /\ q[k] \in S /\ q[k][f] = new
          /\ \A j \in DOMAIN q : j > k => q[j] \notin S
    \/ (\A k \in DOMAIN q : q[k] \notin S) /\ old = new

-----------------------------------------------------------------------------
Init ==
    /\ srvHost = FALSE
    /\ nextID = 1 % IdSpan
    /\ peers = [i \in ClientID |-> NoSlot]
    /\ pstate = [s \in Slots |-> "free"]
    /\ data = [s \in Slots |-> 0]
    /\ link = [c \in Clients |-> NoSlot]
    /\ up = [s \in Slots |-> <<>>]
    /\ down = [c \in Clients |-> <<>>]
    /\ cHost = [c \in Clients |-> FALSE]
    /\ cPeer = [c \in Clients |-> FALSE]
    /\ cState = [c \in Clients |-> "Disconnected"]
    /\ cCall = [c \in Clients |-> "none"]

-----------------------------------------------------------------------------
(* Server.h                                                                *)

ServerStart_Fault ==  \* ids start from 1 again
    /\ ~srvHost
    /\ srvHost' = TRUE
    /\ nextID' = 1
    /\ UNCHANGED <<peers, enetVars, up, down, clientVars>>

(* start(): a fresh ENet host, every peer of it unused.                    *)
ServerStart ==
    /\ ~srvHost
    /\ srvHost' = TRUE
    /\ UNCHANGED <<nextID, peers, enetVars, up, down, clientVars>>

ServerClose_Fault ==  \* the host is not destroyed
    /\ srvHost
    /\ srvHost' = FALSE
    /\ peers' = [i \in ClientID |-> NoSlot]
    /\ pstate' = [s \in Slots |-> "free"]
    /\ UNCHANGED <<nextID, data, link, up, down, clientVars>>

(* close(): every peer is told to disconnect and the host is destroyed, so *)
(* what it has not received is lost, and the clients are left to find out. *)
(* No callback runs, and m_nextID keeps its value.                         *)
ServerClose ==
    /\ srvHost
    /\ srvHost' = FALSE
    /\ peers' = [i \in ClientID |-> NoSlot]
    /\ pstate' = [s \in Slots |-> "free"]
    /\ data' = [s \in Slots |-> 0]
    /\ link' = [c \in Clients |-> NoSlot]
    /\ up' = [s \in Slots |-> <<>>]
    /\ UNCHANGED <<nextID, down, clientVars>>

ServerConnect_Fault(s) ==  \* the id is the number of players plus one
    /\ srvHost
    /\ pstate[s] = "acknowledged"
    /\ nextID < IdLimit
    /\ pstate' = [pstate EXCEPT ![s] = "connected"]
    /\ nextID' = (nextID + 1) % IdSpan
    /\ peers' = [peers EXCEPT ![Cardinality(Known) + 1] = s]
    /\ data' = [data EXCEPT ![s] = Cardinality(Known) + 1]
    /\ UNCHANGED <<srvHost, link, up, clientVars>>

ServerConnectStale_Fault(s) ==  \* a user pointer that is set already is kept
    /\ srvHost
    /\ pstate[s] = "acknowledged"
    /\ nextID < IdLimit
    /\ pstate' = [pstate EXCEPT ![s] = "connected"]
    /\ nextID' = (nextID + 1) % IdSpan
    /\ peers' = [peers EXCEPT ![nextID] = s]
    /\ data' = [data EXCEPT ![s] = IF @ = 0 THEN nextID ELSE @]
    /\ UNCHANGED <<srvHost, link, up, clientVars>>

(* poll(), ENET_EVENT_TYPE_CONNECT: the client acknowledged the handshake, *)
(* and may be gone since.  The id is m_nextID++, a u32 that wraps.         *)
ServerConnect(s) ==
    /\ srvHost
    /\ pstate[s] = "acknowledged"
    /\ nextID < IdLimit
    /\ pstate' = [pstate EXCEPT ![s] = "connected"]
    /\ nextID' = (nextID + 1) % IdSpan
    /\ peers' = [peers EXCEPT ![nextID] = s]
    /\ data' = [data EXCEPT ![s] = nextID]
    /\ UNCHANGED <<srvHost, link, up, clientVars>>

(* poll(), ENET_EVENT_TYPE_RECEIVE: the packet is attributed to the id in  *)
(* the peer's user pointer.                                                *)
ServerReceive(s) ==
    /\ srvHost
    /\ pstate[s] = "connected"
    /\ up[s] # <<>>
    /\ up' = [up EXCEPT ![s] = Tail(@)]
    /\ UNCHANGED <<serverVars, enetVars, clientVars>>

ServerDisconnect_Fault(s) ==  \* the entry is not erased
    /\ srvHost
    /\ pstate[s] \in {"connected", "disconnecting"}
    /\ pstate' = [pstate EXCEPT ![s] = "free"]
    /\ link' = [c \in Clients |-> IF link[c] = s THEN NoSlot ELSE link[c]]
    /\ up' = [up EXCEPT ![s] = <<>>]
    /\ UNCHANGED <<serverVars, data, clientVars>>

(* poll(), ENET_EVENT_TYPE_DISCONNECT: the other end left, a kick was      *)
(* acknowledged, or ENet gave the peer up.  m_peers.erase(data); ENet      *)
(* frees the slot, and a client still attached is left without a peer.     *)
ServerDisconnect(s) ==
    /\ srvHost
    /\ pstate[s] \in {"connected", "disconnecting"}
    /\ pstate' = [pstate EXCEPT ![s] = "free"]
    /\ peers' = [peers EXCEPT ![data[s]] = NoSlot]
    /\ link' = [c \in Clients |-> IF link[c] = s THEN NoSlot ELSE link[c]]
    /\ up' = [up EXCEPT ![s] = <<>>]
    /\ UNCHANGED <<srvHost, nextID, data, clientVars>>

(* kick(id): an unknown id is ignored; a peer that is already being        *)
(* disconnected is left alone by ENet.  The entry stays in m_peers until   *)
(* the DISCONNECT event; packets received but not yet taken are dropped.   *)
Kick(i) ==
    /\ srvHost
    /\ i \in Known
    /\ pstate[peers[i]] = "connected"
    /\ pstate' = [pstate EXCEPT ![peers[i]] = "disconnecting"]
    /\ up' = [up EXCEPT ![peers[i]] = <<>>]
    /\ UNCHANGED <<serverVars, data, link, clientVars>>

(* send(id, packet): nothing happens for an id that is not in m_peers.     *)
ServerSend(i, m, delivery) ==
    /\ srvHost
    /\ i \in Known
    /\ RoomDown
    /\ Transmit(Attached(peers[i]) \cap Reached(pstate, link), m, delivery)
    /\ UNCHANGED <<serverVars, enetVars, up, clientVars>>

(* broadcast(packet): every connected peer of the host.                    *)
ServerBroadcast(m, delivery) ==
    /\ srvHost
    /\ RoomDown
    /\ Transmit(Reached(pstate, link), m, delivery)
    /\ UNCHANGED <<serverVars, enetVars, up, clientVars>>

-----------------------------------------------------------------------------
(* Client.h                                                                *)

(* The application calls connect(); of the two conditions the first one is *)
(* that the thread is free, the second one the assumed lifecycle.          *)
MayConnect(c) == cCall[c] = "none" /\ ~cPeer[c]

(* connect(), up to the wait: host and peer created.  m_state is not set   *)
(* to Connecting anywhere.                                                 *)
ConnectBegin(c) ==
    /\ MayConnect(c)
    /\ cHost' = [cHost EXCEPT ![c] = TRUE]
    /\ cPeer' = [cPeer EXCEPT ![c] = TRUE]
    /\ cCall' = [cCall EXCEPT ![c] = "connect"]
    /\ UNCHANGED <<serverVars, enetVars, up, down, cState>>

(* connect() that returns false before it waits: enet_initialize failed    *)
(* (m_host as it was), enet_host_create failed (m_host null) or            *)
(* enet_host_connect failed (m_host set, m_peer null).                     *)
ConnectRefused(c) ==
    /\ MayConnect(c)
    /\ \E h \in BOOLEAN : cHost' = [cHost EXCEPT ![c] = h]
    /\ UNCHANGED <<serverVars, enetVars, up, down, cPeer, cState, cCall>>

(* connect(): the first event of the new host is CONNECT, and ENet lets    *)
(* the server know.                                                        *)
ConnectSucceeds(c) ==
    /\ cCall[c] = "connect"
    /\ link[c] # NoSlot
    /\ pstate' = [pstate EXCEPT ![link[c]] = "acknowledged"]
    /\ cState' = [cState EXCEPT ![c] = "Connected"]
    /\ cCall' = [cCall EXCEPT ![c] = "none"]
    /\ UNCHANGED <<serverVars, data, link, down, cHost, cPeer>>

(* connect(): timeoutMs passed, or another event came first.  The peer is  *)
(* reset without telling the server; the host is kept.                     *)
ConnectFails(c) ==
    /\ cCall[c] = "connect"
    /\ cPeer' = [cPeer EXCEPT ![c] = FALSE]
    /\ cState' = [cState EXCEPT ![c] = "Disconnected"]
    /\ cCall' = [cCall EXCEPT ![c] = "none"]
    /\ link' = [link EXCEPT ![c] = NoSlot]
    /\ down' = [down EXCEPT ![c] = <<>>]
    /\ UNCHANGED <<serverVars, pstate, data, up, cHost>>

(* disconnect(), up to its loop: returns at once without a peer.           *)
DisconnectBegin(c) ==
    /\ cCall[c] = "none"
    /\ cPeer[c] /\ cState[c] # "Disconnected"
    /\ cState' = [cState EXCEPT ![c] = "Disconnecting"]
    /\ cCall' = [cCall EXCEPT ![c] = "disconnect"]
    /\ UNCHANGED <<serverVars, enetVars, up, down, cHost, cPeer>>

(* disconnect(), from its loop on: packets that arrive are thrown away     *)
(* until the DISCONNECT event or a silence of three seconds, then host and *)
(* peer are gone.                                                          *)
DisconnectEnd(c) ==
    /\ cCall[c] = "disconnect"
    /\ cHost' = [cHost EXCEPT ![c] = FALSE]
    /\ cPeer' = [cPeer EXCEPT ![c] = FALSE]
    /\ cState' = [cState EXCEPT ![c] = "Disconnected"]
    /\ cCall' = [cCall EXCEPT ![c] = "none"]
    /\ link' = [link EXCEPT ![c] = NoSlot]
    /\ down' = [down EXCEPT ![c] = <<>>]
    /\ UNCHANGED <<serverVars, pstate, data, up>>

(* poll(), ENET_EVENT_TYPE_RECEIVE.                                        *)
ClientReceive(c) ==
    /\ cHost[c] /\ cCall[c] = "none"
    /\ down[c] # <<>>
    /\ down' = [down EXCEPT ![c] = Tail(@)]
    /\ UNCHANGED <<serverVars, enetVars, clientVars>>

ClientDisconnect_Fault(c) ==  \* m_state is not set
    /\ cHost[c] /\ cCall[c] = "none"
    /\ cPeer[c]
    /\ cPeer' = [cPeer EXCEPT ![c] = FALSE]
    /\ link' = [link EXCEPT ![c] = NoSlot]
    /\ down' = [down EXCEPT ![c] = <<>>]
    /\ UNCHANGED <<serverVars, pstate, data, up, cHost, cState, cCall>>

(* poll(), ENET_EVENT_TYPE_DISCONNECT: the server let the client go or     *)
(* ENet gave the connection up.  m_peer becomes null, m_host stays.        *)
ClientDisconnect(c) ==
    /\ cHost[c] /\ cCall[c] = "none"
    /\ cPeer[c]
    /\ cState' = [cState EXCEPT ![c] = "Disconnected"]
    /\ cPeer' = [cPeer EXCEPT ![c] = FALSE]
    /\ link' = [link EXCEPT ![c] = NoSlot]
    /\ down' = [down EXCEPT ![c] = <<>>]
    /\ UNCHANGED <<serverVars, pstate, data, up, cHost, cCall>>

(* send(packet) of a client: dropped without a peer; a packet for a slot   *)
(* that no longer takes any is discarded by ENet.                          *)
ClientSend(c, m, delivery) ==
    /\ cCall[c] = "none"
    /\ cPeer[c]
    /\ LET open == {s \in Slots : link[c] = s /\ pstate[s] \in {"acknowledged", "connected"}}
       IN  /\ \A s \in open : RoomUp(s)
           /\ \/ up' = AppendTo(up, open, m)
              \/ delivery = "Unreliable" /\ up' = up
    /\ UNCHANGED <<serverVars, enetVars, down, clientVars>>

(* The client's process dies and is started again.                         *)
Crash(c) ==
    /\ cHost' = [cHost EXCEPT ![c] = FALSE]
    /\ cPeer' = [cPeer EXCEPT ![c] = FALSE]
    /\ cState' = [cState EXCEPT ![c] = "Disconnected"]
    /\ cCall' = [cCall EXCEPT ![c] = "none"]
    /\ link' = [link EXCEPT ![c] = NoSlot]
    /\ down' = [down EXCEPT ![c] = <<>>]
    /\ UNCHANGED <<serverVars, pstate, data, up>>

-----------------------------------------------------------------------------
(* ENet                                                                    *)

(* The server's host answers a client's connect request with a free peer.  *)
(* The peer's user pointer keeps what the slot's last connection left.     *)
Accept(c, s) ==
    /\ srvHost
    /\ cCall[c] = "connect" /\ link[c] = NoSlot
    /\ pstate[s] = "free"
    /\ nextID + Cardinality(Pending) < IdLimit
    /\ pstate' = [pstate EXCEPT ![s] = "pending"]
    /\ link' = [link EXCEPT ![c] = s]
    /\ up' = [up EXCEPT ![s] = <<>>]
    /\ UNCHANGED <<serverVars, data, down, clientVars>>

(* A handshake that is not completed in time is forgotten without an event.*)
ReapPending(s) ==
    /\ srvHost
    /\ s \in Pending
    /\ pstate' = [pstate EXCEPT ![s] = "free"]
    /\ link' = [c \in Clients |-> IF link[c] = s THEN NoSlot ELSE link[c]]
    /\ up' = [up EXCEPT ![s] = <<>>]
    /\ UNCHANGED <<serverVars, data, down, clientVars>>

-----------------------------------------------------------------------------
(* Steps without a callback of their own, for the components above.        *)
Background ==
    \/ ServerStart
    \/ \E c \in Clients :
          \/ ConnectBegin(c) \/ ConnectRefused(c) \/ ConnectFails(c)
          \/ DisconnectBegin(c) \/ DisconnectEnd(c)
          \/ \E s \in Slots : Accept(c, s)
    \/ \E s \in Slots : ReapPending(s)

(* A server and clients whose callbacks send nothing, and applications     *)
(* that send from their main loops.                                        *)
ServerStep ==
    \/ ServerClose
    \/ \E s \in Slots :
          \/ ServerConnect(s) /\ UNCHANGED down
          \/ ServerReceive(s) /\ UNCHANGED down
          \/ ServerDisconnect(s) /\ UNCHANGED down
    \/ \E i \in ClientID : Kick(i) /\ UNCHANGED down
    \/ \E m \in ToClient, d \in {"Reliable", "Unreliable"} :
          \/ ServerBroadcast(m, d)
          \/ \E i \in ClientID : ServerSend(i, m, d)

ClientStep(c) ==
    \/ ConnectSucceeds(c) /\ UNCHANGED up
    \/ ClientReceive(c) /\ UNCHANGED up
    \/ ClientDisconnect(c)
    \/ Crash(c)
    \/ \E m \in ToServer, d \in {"Reliable", "Unreliable"} : ClientSend(c, m, d)

Next == Background \/ ServerStep \/ \E c \in Clients : ClientStep(c)

Spec == Init /\ [][Next]_sessionVars

-----------------------------------------------------------------------------
(* Fairness.  RaylibBackend::run and the loops of README.md poll every     *)
(* frame, so a process that stays up takes every event ENet keeps offering *)
(* and its blocking calls return.  ENet keeps offering a DISCONNECT for a  *)
(* peer whose other end is gone or that is being disconnected.  Failures,  *)
(* crashes and the calls of the applications are not fair.                 *)

Gone(s) == pstate[s] = "disconnecting" \/ Attached(s) = {}

Severed(c) == \A s \in Slots : link[c] = s => pstate[s] = "disconnecting"

PollServer(s) ==
    \/ ServerConnect(s) /\ UNCHANGED down
    \/ ServerReceive(s) /\ UNCHANGED down

NoticeGone(s) ==
    /\ Gone(s)
    /\ ReapPending(s) \/ (ServerDisconnect(s) /\ UNCHANGED down)

CallReturns(c) ==
    \/ ConnectSucceeds(c) /\ UNCHANGED up
    \/ ConnectFails(c)
    \/ DisconnectEnd(c)

Fairness ==
    /\ \A s \in Slots :
          /\ WF_sessionVars(PollServer(s))
          /\ WF_sessionVars(NoticeGone(s))
    /\ \A c \in Clients :
          /\ WF_sessionVars(CallReturns(c))
          /\ WF_sessionVars(ClientReceive(c) /\ UNCHANGED up)
          /\ WF_sessionVars(Severed(c) /\ ClientDisconnect(c))

FairSpec == Spec /\ Fairness

-----------------------------------------------------------------------------
(* Properties.                                                             *)

(* The types of the variables, for the connection state of Server.h and    *)
(* Client.h.                                                               *)
SessionTypeOK ==
    /\ srvHost \in BOOLEAN
    /\ nextID \in ClientID
    /\ peers \in [ClientID -> Slots \cup {NoSlot}]
    /\ pstate \in [Slots -> PeerState]
    /\ data \in [Slots -> ClientID]
    /\ link \in [Clients -> Slots \cup {NoSlot}]
    /\ cHost \in [Clients -> BOOLEAN]
    /\ cPeer \in [Clients -> BOOLEAN]
    /\ cState \in [Clients -> ConnectionState]
    /\ cCall \in [Clients -> {"none", "connect", "disconnect"}]

TypeOK ==
    /\ SessionTypeOK
    /\ up \in [Slots -> Seq(ToServer)]
    /\ down \in [Clients -> Seq(ToClient)]

Held(s) == pstate[s] \in {"connected", "disconnecting"}

(* m_peers and the user pointers of the ENet peers are inverse to each     *)
(* other on the peers the server holds: no entry outlives its connection,  *)
(* no connection is without an entry, no two entries share a peer.  This   *)
(* is what makes poll()'s erase(data) and send()'s find(id) hit the right  *)
(* player, across kicks, timeouts, slot reuse and restarts of the server.  *)
PeersMatchSlots ==
    /\ \A i \in Known : Held(peers[i]) /\ data[peers[i]] = i
    /\ \A s \in Slots : Held(s) => peers[data[s]] = s

(* Two clients never share a peer of the server, and a client's peer is    *)
(* never attached to a slot that ENet has given back: a packet queued for  *)
(* one player cannot reach another one after the slot is reused.           *)
LinksAgree ==
    /\ \A c, d \in Clients : link[c] = link[d] /\ link[c] # NoSlot => c = d
    /\ \A c \in Clients : link[c] # NoSlot => pstate[link[c]] # "free" /\ srvHost

(* A ClientID is not handed from one connection to another one: an entry   *)
(* of m_peers changes only by being added or erased.                       *)
IdentityStable ==
    [][\A i \in ClientID : peers[i] # NoSlot => peers'[i] \in {peers[i], NoSlot}]_sessionVars

(* The server implements the abstract roster.                              *)
Abstract == INSTANCE Roster WITH
    ID <- ClientID, born <- 1 .. nextID - 1, live <- Known

ImplementsRoster == Abstract!Spec

(* A client that believes it is connected does not stay so without the     *)
(* server holding the other end: it is known there or it finds out.        *)
NoPhantomClient ==
    \A c \in Clients :
        cState[c] = "Connected" ~> \/ cState[c] # "Connected"
                                   \/ link[c] # NoSlot /\ pstate[link[c]] = "connected"

(* m_peers does not keep a player whose client is gone, or one the server  *)
(* has kicked.                                                             *)
NoPhantomPlayer ==
    \A i \in ClientID : i \in Known /\ Gone(peers[i]) ~> ~(i \in Known /\ Gone(peers[i]))
=============================================================================
