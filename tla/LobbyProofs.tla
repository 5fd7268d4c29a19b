----------------------------- MODULE LobbyProofs -----------------------------
(***************************************************************************)
(* Proofs about Lobby, for any set of clients, slots and names.  What      *)
(* depends on ids not being reused is proved under NoWrap.                 *)
(***************************************************************************)
EXTENDS Lobby, SessionProofs

-----------------------------------------------------------------------------
(* A step of the lobby is a step of the session below it.                  *)
LEMMA LobbyIsSession == [LobbyNext]_lobbyVars => SessionStep
BY DEF LobbyNext, lobbyVars, sessionVars, SessionStep, ButConnect, LobbyBackground, LobbyServerClose,
       HostStarts, ServerBroadcast, LobbyKick, PlayerConnects, PlayerLeaves, PlayerReady,
       PlayerJoins, Connected, ReceiveState, ReceiveStart, LosesServer, ClientRestarts,
       Request, ClientSend

(* The lobby's own steps, each with the event or the call it belongs to.   *)
LEMMA LobbyCases ==
  ASSUME LobbyNext
  PROVE  \/ LobbyBackground
         \/ LobbyServerClose
         \/ HostStarts
         \/ \E i \in ClientID : LobbyKick(i)
         \/ \E s \in Slots : PlayerConnects(s)
         \/ \E s \in Slots : PlayerLeaves(s)
         \/ \E s \in Slots : PlayerReady(s)
         \/ \E s \in Slots : PlayerJoins(s)
         \/ \E c \in Clients : Connected(c)
         \/ \E c \in Clients : ReceiveState(c)
         \/ \E c \in Clients : ReceiveStart(c)
         \/ \E c \in Clients : LosesServer(c)
         \/ \E c \in Clients : ClientRestarts(c)
         \/ \E c \in Clients, m \in LobbyToServer : Request(c, m)
BY DEF LobbyNext

-----------------------------------------------------------------------------
(* Type correctness.                                                       *)

(* What broadcastState() and startGame() put into the queues.              *)
LEMMA BroadcastType ==
  ASSUME NEW P, down \in [Clients -> Seq(P)], NEW msgs \in Seq(P), Broadcast(msgs)
  PROVE  down' \in [Clients -> Seq(P)]
<1>1. \A c \in Clients : down[c] \o msgs \in Seq(P)
  OBVIOUS
<1> QED
  BY <1>1 DEF Broadcast

(* One packet, and one after the other.                                    *)
LEMMA PacketTypes ==
  ASSUME NEW t \in Table, NEW w \in {"allReady", "host"}
  PROVE  /\ <<State(t)>> \in Seq(LobbyToClient)
         /\ <<State(t), Start(w)>> \in Seq(LobbyToClient)
         /\ Start(w) \in LobbyToClient
BY DEF LobbyToClient

(* What is in a request.                                                   *)
LEMMA RequestTypes ==
  ASSUME NEW m \in LobbyToServer, NEW e \in Entry
  PROVE  /\ m.type \in {"READY", "JOIN"}
         /\ m.type = "READY" => m.ready \in BOOLEAN
         /\ m.type = "JOIN" => m.name \in Names
         /\ Apply(e, m) \in Entry
BY DEF LobbyToServer, Ready, Join, Apply, Entry

(* What is in a packet of the server.                                      *)
LEMMA StateIsTable ==
  ASSUME NEW m \in LobbyToClient
  PROVE  /\ m.type = "STATE" => m.players \in Table /\ m \in StatePackets
         /\ m.type = "START" => m \notin StatePackets
         /\ m.type \in {"STATE", "START"}
BY DEF LobbyToClient, State, Start, StatePackets

(* The tables of the lobby.                                                *)
LEMMA TableTypes ==
  /\ NoPlayers \in Table
  /\ Newcomer \in Entry
  /\ \A t \in Table, i \in ClientID : \A e \in Entry \cup {NoPlayer} :
        [t EXCEPT ![i] = e] \in Table
BY DEF NoPlayers, Newcomer, Table, Entry

(* The initial values have their types.                                    *)
LEMMA LobbyTypeInit == LobbyInit => LobbyTypeOK
<1> SUFFICES ASSUME LobbyInit PROVE LobbyTypeOK
  OBVIOUS
<1>1. SessionTypeOK
  BY TypeInit DEF LobbyInit, TypeOK
<1>2. 0 \in ClientID
  BY SpanAssumption DEF ClientID
<1>3. up \in [Slots -> Seq(LobbyToServer)] /\ down \in [Clients -> Seq(LobbyToClient)]
  BY DEF LobbyInit, Init
<1> QED
  BY <1>1, <1>2, <1>3, TableTypes DEF LobbyInit, LobbyTypeOK

(* The types of the queues and of the lobby's own variables.               *)
LobbyLocalOK ==
    /\ up \in [Slots -> Seq(LobbyToServer)]
    /\ down \in [Clients -> Seq(LobbyToClient)]
    /\ players \in Table
    /\ view \in [Clients -> Table]
    /\ asked \in [Clients -> Entry]
    /\ closedAt \in ClientID

(* Every step keeps them.                                                  *)
LEMMA LobbyTypeStep == ASSUME LobbyTypeOK, LobbyNext PROVE LobbyTypeOK'
<1> USE DEF serverVars, enetVars, clientVars, lobbyLocal
<1>0. SessionTypeOK /\ LobbyLocalOK
  BY DEF LobbyTypeOK, LobbyLocalOK
<1>1. SessionTypeOK'
  BY <1>0, LobbyIsSession, StateType
<1>2. ASSUME LobbyBackground PROVE LobbyLocalOK'
  BY <1>0, <1>2, BackgroundQueues DEF LobbyBackground, LobbyLocalOK
<1>3. ASSUME LobbyServerClose PROVE LobbyLocalOK'
  <2>1. nextID \in ClientID /\ down' = down
    BY <1>0, <1>3 DEF LobbyServerClose, ServerClose, SessionTypeOK
  <2>2. up' \in [Slots -> Seq(LobbyToServer)]
    BY <1>0, <1>3, ServerQueues DEF LobbyServerClose, LobbyLocalOK
  <2> QED
    BY <1>0, <1>3, <2>1, <2>2 DEF LobbyServerClose, LobbyLocalOK
<1>4. ASSUME HostStarts PROVE LobbyLocalOK'
  <2>1. Transmit(Reached(pstate, link), Start("host"), "Reliable") /\ up' = up
    BY <1>4 DEF HostStarts, ServerBroadcast
  <2>2. Start("host") \in LobbyToClient
    BY DEF LobbyToClient
  <2>3. down' \in [Clients -> Seq(LobbyToClient)]
    BY <1>0, <2>1, <2>2, TransmitType DEF LobbyLocalOK
  <2> QED
    BY <1>0, <1>4, <2>1, <2>3 DEF HostStarts, LobbyLocalOK
<1>5. ASSUME NEW i \in ClientID, LobbyKick(i) PROVE LobbyLocalOK'
  <2>1. up' \in [Slots -> Seq(LobbyToServer)]
    BY <1>0, <1>5, ServerQueues DEF LobbyKick, LobbyLocalOK
  <2> QED
    BY <1>0, <1>5, <2>1 DEF LobbyKick, LobbyLocalOK
<1>6. ASSUME NEW s \in Slots, PlayerConnects(s) \/ PlayerLeaves(s) PROVE LobbyLocalOK'
  <2>1. players' \in Table /\ Broadcast(<<State(players')>>)
    <3>1. nextID \in ClientID /\ data[s] \in ClientID /\ players \in Table
      BY <1>0 DEF LobbyLocalOK, SessionTypeOK
    <3>2. \/ players' = [players EXCEPT ![nextID] = Newcomer]
          \/ players' = [players EXCEPT ![data[s]] = NoPlayer]
      BY <1>6 DEF PlayerConnects, PlayerLeaves
    <3>3. players' \in Table
      BY <3>1, <3>2, TableTypes
    <3> QED
      BY <1>6, <3>3 DEF PlayerConnects, PlayerLeaves
  <2>2. up' \in [Slots -> Seq(LobbyToServer)]
    BY <1>0, <1>6, ServerQueues DEF PlayerConnects, PlayerLeaves, LobbyLocalOK
  <2>3. down' \in [Clients -> Seq(LobbyToClient)]
    BY <1>0, <2>1, BroadcastType, PacketTypes DEF LobbyLocalOK
  <2> QED
    BY <1>0, <1>6, <2>1, <2>2, <2>3 DEF PlayerConnects, PlayerLeaves, LobbyLocalOK
<1>7. ASSUME NEW s \in Slots, PlayerReady(s) \/ PlayerJoins(s) PROVE LobbyLocalOK'
  <2>1. ServerReceive(s) /\ up[s] # <<>> /\ up[s] \in Seq(LobbyToServer)
    BY <1>0, <1>7 DEF PlayerReady, PlayerJoins, ServerReceive, LobbyLocalOK
  <2>2. Head(up[s]) \in LobbyToServer
    BY <2>1
  <2>3. up' \in [Slots -> Seq(LobbyToServer)]
    BY <1>0, <2>1, ServerQueues DEF LobbyLocalOK
  <2>4. data[s] \in ClientID /\ players[data[s]] \in Entry \cup {NoPlayer}
    BY <1>0 DEF SessionTypeOK, LobbyLocalOK, Table
  <2>5. players[data[s]] # NoPlayer =>
          [players EXCEPT ![data[s]] = Apply(players[data[s]], Head(up[s]))] \in Table
    BY <1>0, <2>2, <2>4, RequestTypes, TableTypes DEF LobbyLocalOK
  <2>6. players' \in Table
    BY <1>0, <1>7, <2>5 DEF PlayerReady, PlayerJoins, LobbyLocalOK
  <2>7. down' \in [Clients -> Seq(LobbyToClient)]
    <3>1. \/ down' = down
          \/ Broadcast(<<State(players')>>)
          \/ Broadcast(<<State(players'), Start("allReady")>>)
      BY <1>7 DEF PlayerReady, PlayerJoins
    <3> QED
      BY <1>0, <2>6, <3>1, BroadcastType, PacketTypes DEF LobbyLocalOK
  <2> QED
    BY <1>0, <1>7, <2>3, <2>6, <2>7 DEF PlayerReady, PlayerJoins, LobbyLocalOK
<1>8. ASSUME NEW c \in Clients, Connected(c) PROVE LobbyLocalOK'
  BY <1>0, <1>8, TableTypes DEF Connected, ConnectSucceeds, LobbyLocalOK
<1>9. ASSUME NEW c \in Clients, ReceiveState(c) PROVE LobbyLocalOK'
  <2>1. down[c] # <<>> /\ down[c] \in Seq(LobbyToClient) /\ Head(down[c]).type = "STATE"
    BY <1>0, <1>9 DEF ReceiveState, ClientReceive, LobbyLocalOK
  <2>2. Head(down[c]).players \in Table
    BY <2>1, StateIsTable
  <2>3. down' \in [Clients -> Seq(LobbyToClient)]
    BY <1>0, <1>9, ClientQueues DEF ReceiveState, LobbyLocalOK
  <2> QED
    BY <1>0, <1>9, <2>2, <2>3 DEF ReceiveState, LobbyLocalOK
<1>10. ASSUME NEW c \in Clients, ReceiveStart(c) \/ LosesServer(c) \/ ClientRestarts(c)
       PROVE  LobbyLocalOK'
  <2>1. down' \in [Clients -> Seq(LobbyToClient)]
    BY <1>0, <1>10, ClientQueues DEF ReceiveStart, LosesServer, ClientRestarts, LobbyLocalOK
  <2>2. up' = up
    BY <1>10 DEF ReceiveStart, LosesServer, ClientRestarts, ClientDisconnect, Crash
  <2> QED
    BY <1>0, <1>10, <2>1, <2>2, TableTypes
       DEF ReceiveStart, LosesServer, ClientRestarts, LobbyLocalOK
<1>11. ASSUME NEW c \in Clients, NEW m \in LobbyToServer, Request(c, m) PROVE LobbyLocalOK'
  <2>1. up' \in [Slots -> Seq(LobbyToServer)]
    BY <1>0, <1>11, ClientSendType DEF Request, LobbyLocalOK
  <2>2. down' = down
    BY <1>11 DEF Request, ClientSend
  <2> QED
    BY <1>0, <1>11, <2>1, <2>2, RequestTypes DEF Request, LobbyLocalOK
<1>12. LobbyLocalOK'
  BY <1>2, <1>3, <1>4, <1>5, <1>6, <1>7, <1>8, <1>9, <1>10, <1>11, LobbyCases
<1> QED
  BY <1>1, <1>12 DEF LobbyTypeOK, LobbyLocalOK

(* Packets, tables and ids keep their types, and with them what is sent:   *)
(* no request and no state is built from anything else.                    *)
THEOREM LobbyTypesCorrect == LobbySpec => []LobbyTypeOK
<1>1. LobbyTypeOK /\ [LobbyNext]_lobbyVars => LobbyTypeOK'
  <2>1. LobbyTypeOK /\ UNCHANGED lobbyVars => LobbyTypeOK'
    BY DEF LobbyTypeOK, SessionTypeOK, lobbyVars, lobbyLocal, sessionVars,
           serverVars, enetVars, clientVars
  <2> QED
    BY <2>1, LobbyTypeStep
<1> QED
  BY <1>1, LobbyTypeInit, PTL DEF LobbySpec

-----------------------------------------------------------------------------
(* What the session guarantees holds under the lobby.                      *)

(* Nobody shares a link, whatever the lobby sends.                         *)
LEMMA LobbyLinks == LobbySpec => [](LobbyTypeOK /\ LinkInv)
<1>1. LobbyInit => LinkInv
  BY LinkInit DEF LobbyInit
<1>2. LobbyTypeOK /\ LinkInv /\ [LobbyNext]_lobbyVars => LinkInv'
  BY LobbyIsSession, LinkStep DEF LobbyTypeOK
<1> QED
  BY <1>1, <1>2, LobbyTypesCorrect, PTL DEF LobbySpec

(* And m_peers is right, while no id is used twice.                        *)
LEMMA LobbyMatch == NoWrap => (LobbySpec => [](LobbyTypeOK /\ LinkInv /\ MatchInv))
<1> SUFFICES ASSUME NoWrap PROVE LobbySpec => [](LobbyTypeOK /\ LinkInv /\ MatchInv)
  OBVIOUS
<1>1. LobbyInit => MatchInv
  BY MatchInit DEF LobbyInit
<1>2. LobbyTypeOK /\ LinkInv /\ MatchInv /\ [LobbyNext]_lobbyVars => MatchInv'
  BY LobbyIsSession, MatchStep DEF LobbyTypeOK
<1> QED
  BY <1>1, <1>2, LobbyLinks, PTL DEF LobbySpec

-----------------------------------------------------------------------------
(* Who is in the table.                                                    *)

(* A CONNECT puts one player into the table, a DISCONNECT takes one out,    *)
(* and nothing else changes who is in it.                                  *)
LEMMA PresentStep ==
  ASSUME LobbyTypeOK, LobbyNext
  PROVE  \/ /\ \E s \in Slots : ServerConnect(s)
            /\ Present(players)' = Present(players) \cup {nextID}
            /\ closedAt' = closedAt
         \/ /\ \E s \in Slots :
                  ServerDisconnect(s) /\ Present(players)' = Present(players) \ {data[s]}
            /\ closedAt' = closedAt
         \/ /\ ServerClose
            /\ Present(players)' = Present(players)
            /\ closedAt' = IF Present(players) = {} THEN closedAt ELSE nextID
         \/ /\ UNCHANGED <<peers, nextID, closedAt>>
            /\ Present(players)' = Present(players)
<1> USE DEF lobbyLocal, serverVars
<1>0. /\ players \in [ClientID -> Entry \cup {NoPlayer}] /\ SessionTypeOK
      /\ NoPlayer \notin Entry
  BY LobbyAssumption DEF LobbyTypeOK, Table, Entry
<1>1. ASSUME NEW s \in Slots, PlayerConnects(s)
      PROVE  /\ ServerConnect(s) /\ closedAt' = closedAt
             /\ Present(players)' = Present(players) \cup {nextID}
  <2>1. players' = [players EXCEPT ![nextID] = Newcomer] /\ nextID \in ClientID
    BY <1>0, <1>1 DEF PlayerConnects, SessionTypeOK
  <2>2. Newcomer # NoPlayer
    BY <1>0, TableTypes
  <2> QED
    BY <1>0, <1>1, <2>1, <2>2 DEF PlayerConnects, Present
<1>2. ASSUME NEW s \in Slots, PlayerLeaves(s)
      PROVE  /\ ServerDisconnect(s) /\ closedAt' = closedAt
             /\ Present(players)' = Present(players) \ {data[s]}
  <2>1. players' = [players EXCEPT ![data[s]] = NoPlayer] /\ data[s] \in ClientID
    BY <1>0, <1>2 DEF PlayerLeaves, SessionTypeOK
  <2> QED
    BY <1>0, <1>2, <2>1 DEF PlayerLeaves, Present
<1>3. ASSUME NEW s \in Slots, PlayerReady(s) \/ PlayerJoins(s)
      PROVE  /\ UNCHANGED <<peers, nextID, closedAt>>
             /\ Present(players)' = Present(players)
  <2>1. ServerReceive(s) /\ closedAt' = closedAt
    BY <1>3 DEF PlayerReady, PlayerJoins
  <2>2. data[s] \in ClientID /\ up[s] # <<>> /\ up[s] \in Seq(LobbyToServer)
    BY <1>0, <2>1 DEF ServerReceive, SessionTypeOK, LobbyTypeOK
  <2>3. Head(up[s]) \in LobbyToServer
    BY <2>2
  <2>4. \/ players' = players
        \/ /\ players[data[s]] # NoPlayer
           /\ players' = [players EXCEPT ![data[s]] = Apply(players[data[s]], Head(up[s]))]
    BY <1>3 DEF PlayerReady, PlayerJoins
  <2>5. players[data[s]] # NoPlayer => Apply(players[data[s]], Head(up[s])) # NoPlayer
    BY <1>0, <2>2, <2>3, RequestTypes
  <2> QED
    BY <1>0, <2>1, <2>2, <2>4, <2>5 DEF ServerReceive, Present
<1>4. CASE LobbyServerClose
  BY <1>4 DEF LobbyServerClose, ServerClose, Present
<1> QED
  <2>1. CASE \E s \in Slots :
               PlayerConnects(s) \/ PlayerLeaves(s) \/ PlayerReady(s) \/ PlayerJoins(s)
    BY <2>1, <1>1, <1>2, <1>3
  <2>2. CASE LobbyBackground \/ HostStarts \/ \E i \in ClientID : LobbyKick(i)
    <3>1. UNCHANGED <<players, closedAt, nextID, peers>>
      BY <2>2 DEF LobbyBackground, HostStarts, ServerBroadcast, LobbyKick, Kick, Background,
         ServerStart, ConnectBegin, ConnectRefused, ConnectFails,
         DisconnectBegin, DisconnectEnd, Accept, ReapPending
    <3> QED
      BY <3>1 DEF Present
  <2>3. CASE \E c \in Clients :
               \/ Connected(c) \/ ReceiveState(c) \/ ReceiveStart(c)
               \/ LosesServer(c) \/ ClientRestarts(c)
               \/ \E m \in LobbyToServer : Request(c, m)
    <3>1. UNCHANGED <<players, closedAt, nextID, peers>>
      BY <2>3 DEF Connected, ReceiveState, ReceiveStart, LosesServer, ClientRestarts, Request,
         ConnectSucceeds, ClientReceive, ClientDisconnect, Crash, ClientSend
    <3> QED
      BY <3>1 DEF Present
  <2> QED
    BY <2>1, <2>2, <2>3, <1>4 DEF LobbyNext

(* No event is lost to the lobby: whoever the server holds is in the       *)
(* table. No assumption about ids is needed.                               *)
THEOREM ConnectedCorrect == LobbySpec => []ConnectedArePlayers
<1>1. LobbyInit => ConnectedArePlayers
  BY DEF LobbyInit, Init, ConnectedArePlayers, Known
<1>2. LobbyTypeOK /\ ConnectedArePlayers /\ LobbyNext => ConnectedArePlayers'
  BY PresentStep, KnownWith DEF ConnectedArePlayers, LobbyTypeOK
<1>3. ConnectedArePlayers /\ UNCHANGED lobbyVars => ConnectedArePlayers'
  BY DEF ConnectedArePlayers, Known, Present, lobbyVars, lobbyLocal, sessionVars, serverVars
<1> QED
  BY <1>1, <1>2, <1>3, LobbyTypesCorrect, PTL DEF LobbySpec

(* Every id in the table was taken from m_nextID before: what makes        *)
(* closedAt a bound for those who are left behind.                         *)
GhostsInv == GhostsPredateClose /\ \A i \in Present(players) : i < nextID

(* Kicks, losses and reconnects in any order leave no other ghost in the   *)
(* table than the players a server was closed on.                          *)
THEOREM GhostsCorrect == NoWrap => (LobbySpec => []GhostsPredateClose)
<1> SUFFICES ASSUME NoWrap PROVE LobbySpec => []GhostsPredateClose
  OBVIOUS
<1>1. LobbyInit => GhostsInv
  BY DEF LobbyInit, GhostsInv, GhostsPredateClose, Present, NoPlayers
<1>2. ASSUME LobbyTypeOK, GhostsInv, LobbyNext PROVE GhostsInv'
  <2>1. /\ nextID \in Int /\ nextID \in ClientID /\ ClientID \subseteq Int
        /\ SessionTypeOK /\ Present(players) \subseteq ClientID
    BY <1>2, SpanAssumption DEF LobbyTypeOK, SessionTypeOK, ClientID, Present
  <2>2. ASSUME NEW s \in Slots, ServerConnect(s), closedAt' = closedAt,
               Present(players)' = Present(players) \cup {nextID}
        PROVE  GhostsInv'
    <3>1. nextID' = nextID + 1
      BY <2>1, <2>2, NextIDGrows DEF ServerConnect
    <3>2. Known' = Known \cup {nextID}
      BY <2>1, <2>2, KnownWith
    <3>3. \A i \in Present(players)' : i \in Present(players) \/ i = nextID
      BY <2>2
    <3>4. ASSUME NEW i \in Present(players)' PROVE i < nextID'
      <4>1. i = nextID \/ i \in Present(players)
        BY <3>3
      <4>2. i \in Int /\ (i = nextID \/ i < nextID)
        BY <1>2, <2>1, <4>1 DEF GhostsInv
      <4> QED
        BY <2>1, <3>1, <4>2
    <3>5. \A i \in Present(players)' \ Known' : i < closedAt'
      BY <1>2, <2>2, <3>2, <3>3 DEF GhostsInv, GhostsPredateClose
    <3> QED
      BY <3>4, <3>5 DEF GhostsInv, GhostsPredateClose
  <2>3. ASSUME NEW s \in Slots, ServerDisconnect(s), closedAt' = closedAt,
               Present(players)' = Present(players) \ {data[s]}
        PROVE  GhostsInv'
    <3>1. nextID' = nextID
      BY <2>3 DEF ServerDisconnect
    <3> QED
      BY <1>2, <2>1, <2>3, <3>1, KnownWith DEF GhostsInv, GhostsPredateClose
  <2>4. ASSUME ServerClose, Present(players)' = Present(players),
               closedAt' = IF Present(players) = {} THEN closedAt ELSE nextID
        PROVE  GhostsInv'
    <3>1. nextID' = nextID
      BY <2>4 DEF ServerClose
    <3> QED
      BY <1>2, <2>1, <2>4, <3>1, KnownWith DEF GhostsInv, GhostsPredateClose
  <2>5. ASSUME UNCHANGED <<peers, nextID, closedAt>>, Present(players)' = Present(players)
        PROVE  GhostsInv'
    BY <1>2, <2>1, <2>5, KnownWith DEF GhostsInv, GhostsPredateClose
  <2> QED
    BY <1>2, <2>2, <2>3, <2>4, <2>5, PresentStep
<1>3. GhostsInv /\ UNCHANGED lobbyVars => GhostsInv'
  BY DEF GhostsInv, GhostsPredateClose, Known, Present, lobbyVars, lobbyLocal,
         sessionVars, serverVars
<1>4. GhostsInv => GhostsPredateClose
  BY DEF GhostsInv
<1> QED
  BY <1>1, <1>2, <1>3, <1>4, LobbyTypesCorrect, PTL DEF LobbySpec

-----------------------------------------------------------------------------
(* What is on its way to the clients.                                      *)

(* After a broadcastState() the table it sends is what everybody the       *)
(* server reaches ends with, and a START behind it has the table before it.*)
LEMMA BroadcastEnds ==
  ASSUME down \in [Clients -> Seq(LobbyToClient)], NEW t \in Table,
         \/ Broadcast(<<State(t)>>)
         \/ Broadcast(<<State(t), Start("allReady")>>),
         NEW c \in Reached(pstate', link'), NEW old
  PROVE  EndsAs(down'[c], StatePackets, "players", old, t)
<1> DEFINE q == Append(down[c], State(t))
<1>1. c \in Clients /\ down[c] \in Seq(LobbyToClient)
  BY DEF Reached
<1>2. /\ State(t) \in LobbyToClient /\ Start("allReady") \in LobbyToClient
      /\ State(t) \in StatePackets /\ State(t)["players"] = t
      /\ Start("allReady") \notin StatePackets
  BY DEF LobbyToClient, StatePackets, State, Start
<1>3. q \in Seq(LobbyToClient) /\ EndsAs(q, StatePackets, "players", old, t)
  BY <1>1, <1>2, EndsAsAppend
<1>4. EndsAs(Append(q, Start("allReady")), StatePackets, "players", old, t)
  BY <1>2, <1>3, EndsAsAppend
<1>5. down'[c] = q \/ down'[c] = Append(q, Start("allReady"))
  BY <1>1, <1>2, ConcatIsAppend DEF Broadcast
<1> QED
  BY <1>3, <1>4, <1>5

(* No change is left without a broadcastState().                           *)
LEMMA LatestStep ==
  ASSUME LobbyTypeOK, LinkInv, LatestStateOnTheWire, LobbyNext, LobbyTypeOK'
  PROVE  LatestStateOnTheWire'
<1> USE DEF lobbyLocal
<1> SUFFICES ASSUME NEW c \in Reached(pstate', link')
             PROVE  EndsAs(down'[c], StatePackets, "players", view'[c], players')
  BY DEF LatestStateOnTheWire
<1>0. /\ c \in Clients /\ SessionTypeOK /\ players' \in Table
      /\ down \in [Clients -> Seq(LobbyToClient)] /\ view \in [Clients -> Table]
  BY DEF LobbyTypeOK, Reached
<1>1. ASSUME ButConnect, UNCHANGED <<players, view>>, down'[c] = down[c]
      PROVE  EndsAs(down'[c], StatePackets, "players", view'[c], players')
  BY <1>0, <1>1, ReachedStep DEF LatestStateOnTheWire
<1>2. ASSUME NEW s \in Slots, PlayerConnects(s) \/ PlayerLeaves(s) \/ PlayerJoins(s)
      PROVE  EndsAs(down'[c], StatePackets, "players", view'[c], players')
  BY <1>0, <1>2, BroadcastEnds DEF PlayerConnects, PlayerLeaves, PlayerJoins
<1>3. ASSUME NEW s \in Slots, PlayerReady(s)
      PROVE  EndsAs(down'[c], StatePackets, "players", view'[c], players')
  <2>1. /\ ServerReceive(s) /\ view' = view
        /\ \/ UNCHANGED <<players, down>>
           \/ Broadcast(<<State(players')>>)
           \/ Broadcast(<<State(players'), Start("allReady")>>)
    BY <1>3 DEF PlayerReady
  <2> QED
    BY <1>0, <1>1, <2>1, BroadcastEnds DEF ButConnect
<1>4. CASE LobbyBackground \/ \E d \in Clients : Connected(d) \/ LosesServer(d)
  BY <1>0, <1>1, <1>4, KeptDown DEF LobbyBackground, Connected, LosesServer, ButConnect
<1>5. CASE LobbyServerClose \/ \E i \in ClientID : LobbyKick(i)
  BY <1>1, <1>5 DEF LobbyServerClose, ServerClose, LobbyKick, ButConnect
<1>6. CASE \E d \in Clients, m \in LobbyToServer : Request(d, m)
  BY <1>1, <1>6 DEF Request, ClientSend, ButConnect
<1>7. ASSUME NEW d \in Clients, ClientRestarts(d)
      PROVE  EndsAs(down'[c], StatePackets, "players", view'[c], players')
  <2>1. ButConnect /\ d # c
    BY <1>0, <1>7, NoSlotAssumption
       DEF ClientRestarts, ButConnect, Crash, Reached, SessionTypeOK
  <2>2. down'[c] = down[c] /\ view'[c] = view[c] /\ players' = players
    BY <1>0, <1>7, <2>1, KeptDown DEF ClientRestarts
  <2> QED
    BY <1>0, <2>1, <2>2, ReachedStep DEF LatestStateOnTheWire
<1>8. CASE HostStarts
  <2>1. ButConnect /\ players' = players /\ view' = view
    BY <1>8 DEF HostStarts, ServerBroadcast, ButConnect
  <2>2. EndsAs(down[c], StatePackets, "players", view[c], players)
    BY <1>0, <2>1, ReachedStep DEF LatestStateOnTheWire
  <2>3. down'[c] = Append(down[c], Start("host")) \/ down'[c] = down[c]
    BY <1>0, <1>8 DEF HostStarts, ServerBroadcast, Transmit, AppendTo
  <2>4. Start("host") \in LobbyToClient /\ Start("host") \notin StatePackets
    BY DEF LobbyToClient, Start, StatePackets
  <2>5. EndsAs(Append(down[c], Start("host")), StatePackets, "players", view[c], players)
    <3>1. down[c] \in Seq(LobbyToClient)
      BY <1>0
    <3> QED
      BY <2>2, <2>4, <3>1, EndsAsAppend
  <2> QED
    BY <2>1, <2>2, <2>3, <2>5
<1>9. ASSUME NEW d \in Clients, ReceiveState(d) \/ ReceiveStart(d)
      PROVE  EndsAs(down'[c], StatePackets, "players", view'[c], players')
  <2>1. /\ ButConnect /\ players' = players
        /\ down[d] # <<>> /\ down' = [down EXCEPT ![d] = Tail(down[d])]
    BY <1>9 DEF ReceiveState, ReceiveStart, ClientReceive, ButConnect
  <2>2. EndsAs(down[c], StatePackets, "players", view[c], players)
    BY <1>0, <2>1, ReachedStep DEF LatestStateOnTheWire
  <2>3. CASE d = c
    <3>1. Head(down[c]) \in LobbyToClient
      BY <1>0, <2>1, <2>3
    <3>2. view'[c] = IF Head(down[c]) \in StatePackets THEN Head(down[c])["players"] ELSE view[c]
      BY <1>0, <1>9, <2>3, <3>1, StateIsTable DEF ReceiveState, ReceiveStart
    <3> QED
      BY <1>0, <2>1, <2>2, <2>3, <3>2, EndsAsTail
  <2>4. CASE d # c
    BY <1>0, <1>9, <2>1, <2>2, <2>4 DEF ReceiveState, ReceiveStart
  <2> QED
    BY <2>3, <2>4
<1> QED
  BY <1>2, <1>3, <1>4, <1>5, <1>6, <1>7, <1>8, <1>9, LobbyCases

(* Every client that stays shows, once it has taken what is on its way,    *)
(* the table of the server. No assumption about ids is needed.             *)
THEOREM LatestCorrect == LobbySpec => []LatestStateOnTheWire
<1>1. LobbyInit => LatestStateOnTheWire
  BY NoSlotAssumption DEF LobbyInit, Init, LatestStateOnTheWire, Reached
<1>2. LobbyTypeOK /\ LinkInv /\ LatestStateOnTheWire /\ LobbyTypeOK' /\ LobbyNext
        => LatestStateOnTheWire'
  BY LatestStep
<1>3. LatestStateOnTheWire /\ UNCHANGED lobbyVars => LatestStateOnTheWire'
  BY DEF LatestStateOnTheWire, lobbyVars, lobbyLocal, sessionVars, enetVars
<1> QED
  BY <1>1, <1>2, <1>3, LobbyLinks, PTL DEF LobbySpec

-----------------------------------------------------------------------------
(* The news that all are ready.                                            *)

(* In the queue q of a client that shows the table t, the packet before    *)
(* that news carries a table in which all are ready.                       *)
Announced(q, t) ==
    \A k \in DOMAIN q : q[k] = Start("allReady") =>
        IF k = 1 THEN AllReady(t)
                 ELSE q[k - 1].type = "STATE" /\ AllReady(q[k - 1].players)

(* Which is what makes StartSeenAllReady inductive.                        *)
StartInv == \A c \in Clients : Announced(down[c], view[c])

(* A packet behind the others: that news has to follow its table.          *)
LEMMA AnnouncedAppend ==
  ASSUME NEW P, NEW q \in Seq(P), NEW m \in P, NEW t, Announced(q, t),
         m = Start("allReady") =>
            q # <<>> /\ q[Len(q)].type = "STATE" /\ AllReady(q[Len(q)].players)
  PROVE  Announced(Append(q, m), t)
<1> DEFINE r == Append(q, m)
<1>1. /\ Len(q) \in Nat /\ (q # <<>> => Len(q) > 0)
      /\ DOMAIN q = 1 .. Len(q) /\ DOMAIN r = 1 .. Len(q) + 1
      /\ r[Len(q) + 1] = m /\ \A k \in DOMAIN q : r[k] = q[k]
  OBVIOUS
<1> HIDE DEF r
<1>2. ASSUME NEW k \in DOMAIN r, r[k] = Start("allReady")
      PROVE  IF k = 1 THEN AllReady(t)
             ELSE r[k - 1].type = "STATE" /\ AllReady(r[k - 1].players)
  <2>1. CASE k = Len(q) + 1
    BY <1>1, <1>2, <2>1
  <2>2. CASE k # Len(q) + 1
    <3>1. k \in DOMAIN q /\ q[k] = Start("allReady") /\ (k # 1 => k - 1 \in DOMAIN q)
      BY <1>1, <1>2, <2>2
    <3> QED
      BY <1>1, <3>1 DEF Announced
  <2> QED
    BY <2>1, <2>2
<1> QED
  BY <1>2 DEF Announced, r

(* Taking the first packet: the next one follows the table it has set.     *)
LEMMA AnnouncedTail ==
  ASSUME NEW P, NEW q \in Seq(P), q # <<>>, NEW t, Announced(q, t)
  PROVE  Announced(Tail(q), IF Head(q).type = "STATE" THEN Head(q).players ELSE t)
<1> DEFINE r == Tail(q)
<1>1. /\ Len(q) \in Nat \ {0} /\ Head(q) = q[1]
      /\ DOMAIN q = 1 .. Len(q) /\ DOMAIN r = 1 .. Len(q) - 1
      /\ \A k \in DOMAIN r : r[k] = q[k + 1]
  OBVIOUS
<1> HIDE DEF r
<1>2. ASSUME NEW k \in DOMAIN r, r[k] = Start("allReady")
      PROVE  IF k = 1 THEN AllReady(IF q[1].type = "STATE" THEN q[1].players ELSE t)
             ELSE r[k - 1].type = "STATE" /\ AllReady(r[k - 1].players)
  <2>1. k + 1 \in DOMAIN q /\ q[k + 1] = Start("allReady") /\ k + 1 # 1 /\ (k + 1) - 1 = k
    BY <1>1, <1>2
  <2>2. q[k].type = "STATE" /\ AllReady(q[k].players)
    BY <2>1 DEF Announced
  <2>3. k # 1 => k - 1 \in DOMAIN r /\ r[k - 1] = q[k]
    BY <1>1
  <2> QED
    BY <2>2, <2>3
<1>3. Announced(r, IF q[1].type = "STATE" THEN q[1].players ELSE t)
  BY <1>2 DEF Announced
<1> QED
  BY <1>1, <1>3 DEF r

(* A broadcast of a table, and of that news only behind a table in which   *)
(* all are ready.                                                          *)
LEMMA AnnouncedBroadcast ==
  ASSUME down \in [Clients -> Seq(LobbyToClient)], NEW t \in Table, StartInv, view' = view,
         \/ Broadcast(<<State(t)>>)
         \/ AllReady(t) /\ Broadcast(<<State(t), Start("allReady")>>)
  PROVE  StartInv'
<1> SUFFICES ASSUME NEW c \in Clients PROVE Announced(down'[c], view[c])
  BY DEF StartInv
<1> DEFINE q == Append(down[c], State(t))
           w == Start("allReady")
<1>1. /\ down[c] \in Seq(LobbyToClient) /\ Announced(down[c], view[c])
      /\ State(t) \in LobbyToClient /\ w \in LobbyToClient /\ State(t) # w
  BY DEF StartInv, LobbyToClient, State, Start
<1>2. q \in Seq(LobbyToClient) /\ Announced(q, view[c])
  BY <1>1, AnnouncedAppend
<1>3. q # <<>> /\ q[Len(q)] = State(t)
  BY <1>1, AppendLast
<1>4. State(t).type = "STATE" /\ State(t).players = t
  BY DEF State
<1>5. AllReady(t) => Announced(Append(q, w), view[c])
  <2> HIDE DEF q, w
  <2> QED
    BY <1>1, <1>2, <1>3, <1>4, AnnouncedAppend
<1>6. down'[c] = down[c] \/ down'[c] = q \/ (AllReady(t) /\ down'[c] = Append(q, w))
  <2>1. down[c] \o <<State(t)>> = q /\ down[c] \o <<State(t), w>> = Append(q, w)
    BY <1>1, ConcatIsAppend
  <2>2. \/ down'[c] = down[c]
        \/ down'[c] = down[c] \o <<State(t)>>
        \/ AllReady(t) /\ down'[c] = down[c] \o <<State(t), w>>
    <3>1. CASE Broadcast(<<State(t)>>)
      BY <3>1 DEF Broadcast
    <3>2. CASE AllReady(t) /\ Broadcast(<<State(t), Start("allReady")>>)
      BY <3>2 DEF Broadcast
    <3> QED
      BY <3>1, <3>2
  <2> HIDE DEF q, w
  <2> QED
    BY <2>1, <2>2
<1> QED
  BY <1>1, <1>2, <1>5, <1>6

(* Every step keeps the news behind its table.                             *)
LEMMA StartStep ==
  ASSUME LobbyTypeOK, StartInv, LobbyNext, LobbyTypeOK'
  PROVE  StartInv'
<1> USE DEF lobbyLocal
<1>0. /\ players' \in Table /\ down \in [Clients -> Seq(LobbyToClient)]
      /\ view \in [Clients -> Table]
  BY DEF LobbyTypeOK
<1>1. ASSUME NEW s \in Slots,
             PlayerConnects(s) \/ PlayerLeaves(s) \/ PlayerJoins(s) \/ PlayerReady(s)
      PROVE  StartInv'
  <2>1. /\ view' = view
        /\ \/ down' = down
           \/ Broadcast(<<State(players')>>)
           \/ AllReady(players') /\ Broadcast(<<State(players'), Start("allReady")>>)
    BY <1>1 DEF PlayerConnects, PlayerLeaves, PlayerJoins, PlayerReady
  <2> QED
    BY <1>0, <2>1, AnnouncedBroadcast DEF StartInv
<1>2. CASE HostStarts
  <2>1. Start("host") \in LobbyToClient /\ Start("host") # Start("allReady")
    BY DEF LobbyToClient, Start
  <2>2. \A c \in Clients : down'[c] = down[c] \/ down'[c] = Append(down[c], Start("host"))
    BY <1>0, <1>2 DEF HostStarts, ServerBroadcast, Transmit, AppendTo
  <2>3. \A c \in Clients : Announced(Append(down[c], Start("host")), view[c])
    BY <1>0, <2>1, AnnouncedAppend DEF StartInv
  <2> QED
    BY <1>2, <2>2, <2>3 DEF HostStarts, StartInv
<1>3. ASSUME NEW c \in Clients, ReceiveState(c) \/ ReceiveStart(c) PROVE StartInv'
  <2>1. down[c] # <<>> /\ down' = [down EXCEPT ![c] = Tail(down[c])]
    BY <1>3 DEF ReceiveState, ReceiveStart, ClientReceive
  <2>2. view' = [view EXCEPT ![c] =
                   IF Head(down[c]).type = "STATE" THEN Head(down[c]).players ELSE view[c]]
    BY <1>0, <1>3 DEF ReceiveState, ReceiveStart
  <2>3. Announced(down'[c], view'[c])
    BY <1>0, <2>1, <2>2, AnnouncedTail DEF StartInv
  <2> QED
    BY <1>0, <2>1, <2>2, <2>3 DEF StartInv
<1>4. ASSUME \A c \in Clients :
                down'[c] = <<>> \/ (down'[c] = down[c] /\ view'[c] = view[c])
      PROVE  StartInv'
  BY <1>4 DEF StartInv, Announced
<1>5. CASE LobbyBackground
  BY <1>0, <1>4, <1>5 DEF LobbyBackground, Background, ServerStart, ConnectBegin,
      ConnectRefused, ConnectFails, DisconnectBegin, DisconnectEnd, Accept, ReapPending
<1>6. CASE LobbyServerClose \/ \E i \in ClientID : LobbyKick(i)
  BY <1>4, <1>6 DEF LobbyServerClose, ServerClose, LobbyKick
<1>7. ASSUME NEW c \in Clients,
             \/ Connected(c) \/ LosesServer(c) \/ ClientRestarts(c)
             \/ \E m \in LobbyToServer : Request(c, m)
      PROVE  StartInv'
  <2>1. CASE Connected(c) \/ \E m \in LobbyToServer : Request(c, m)
    BY <1>4, <2>1 DEF Connected, ConnectSucceeds, Request, ClientSend
  <2>2. CASE LosesServer(c)
    <3>1. down' = [down EXCEPT ![c] = <<>>] /\ view' = view
      BY <2>2 DEF LosesServer, ClientDisconnect
    <3> QED
      BY <1>0, <1>4, <3>1
  <2>3. CASE ClientRestarts(c)
    BY <1>0, <1>4, <2>3 DEF ClientRestarts, Crash
  <2> QED
    BY <1>7, <2>1, <2>2, <2>3
<1> QED
  BY <1>1, <1>2, <1>3, <1>5, <1>6, <1>7, LobbyCases

(* A client has seen all the players ready before its onGameStart runs for *)
(* that reason.                                                            *)
THEOREM StartCorrect == LobbySpec => []StartSeenAllReady
<1>1. LobbyInit => StartInv
  BY DEF LobbyInit, Init, StartInv, Announced
<1>2. LobbyTypeOK /\ LobbyTypeOK' /\ StartInv /\ LobbyNext => StartInv'
  BY StartStep
<1>3. StartInv /\ UNCHANGED lobbyVars => StartInv'
  BY DEF StartInv, lobbyVars, lobbyLocal, sessionVars
<1>4. LobbyTypeOK /\ StartInv => StartSeenAllReady
  <2> SUFFICES ASSUME LobbyTypeOK, StartInv, NEW c \in Clients, down[c] # <<>>,
                      Head(down[c]) = Start("allReady")
               PROVE  AllReady(view[c])
    BY DEF StartSeenAllReady
  <2>1. down[c] \in Seq(LobbyToClient)
    BY DEF LobbyTypeOK
  <2>2. 1 \in DOMAIN down[c] /\ down[c][1] = Start("allReady")
    BY <2>1
  <2> QED
    BY <2>2 DEF StartInv, Announced
<1> QED
  BY <1>1, <1>2, <1>3, <1>4, LobbyTypesCorrect, PTL DEF LobbySpec

-----------------------------------------------------------------------------
(* Requests in flight.                                                     *)

(* Which kind of request a packet is.                                      *)
LEMMA RequestKinds ==
  ASSUME NEW m \in LobbyToServer, NEW e \in Entry
  PROVE  \/ /\ m \in ReadyPackets /\ m \notin JoinPackets
            /\ Apply(e, m).ready = m["ready"] /\ Apply(e, m).name = e.name
         \/ /\ m \in JoinPackets /\ m \notin ReadyPackets
            /\ Apply(e, m).name = m["name"] /\ Apply(e, m).ready = e.ready
<1>1. CASE \E b \in BOOLEAN : m = Ready(b)
  BY <1>1 DEF Ready, ReadyPackets, JoinPackets, Apply, Entry
<1>2. CASE \E n \in Names : m = Join(n)
  BY <1>2 DEF Join, ReadyPackets, JoinPackets, Apply, Entry
<1> QED
  BY <1>1, <1>2 DEF LobbyToServer

(* One more request changes what all of them make of an entry.             *)
LEMMA BringsAppend ==
  ASSUME NEW q \in Seq(LobbyToServer), NEW m \in LobbyToServer, NEW entry,
         NEW result \in Entry, Brings(q, entry, result)
  PROVE  Brings(Append(q, m), entry, Apply(result, m))
<1>1. /\ EndsAs(q, ReadyPackets, "ready", entry.ready, result.ready)
      /\ EndsAs(q, JoinPackets, "name", entry.name, result.name)
  BY DEF Brings
<1>2. CASE m \in ReadyPackets /\ m \notin JoinPackets
  <2>1. Apply(result, m).ready = m["ready"] /\ Apply(result, m).name = result.name
    BY <1>2, RequestKinds
  <2>2. EndsAs(Append(q, m), ReadyPackets, "ready", entry.ready, m["ready"])
    BY <1>2, EndsAsAppend
  <2>3. EndsAs(Append(q, m), JoinPackets, "name", entry.name, result.name)
    BY <1>1, <1>2, EndsAsAppend
  <2> QED
    BY <2>1, <2>2, <2>3 DEF Brings
<1>3. CASE m \in JoinPackets /\ m \notin ReadyPackets
  <2>1. Apply(result, m).name = m["name"] /\ Apply(result, m).ready = result.ready
    BY <1>3, RequestKinds
  <2>2. EndsAs(Append(q, m), JoinPackets, "name", entry.name, m["name"])
    BY <1>3, EndsAsAppend
  <2>3. EndsAs(Append(q, m), ReadyPackets, "ready", entry.ready, result.ready)
    BY <1>1, <1>3, EndsAsAppend
  <2> QED
    BY <2>1, <2>2, <2>3 DEF Brings
<1> QED
  BY <1>2, <1>3, RequestKinds

(* Applying the first one leaves what the others have to bring.            *)
LEMMA BringsTail ==
  ASSUME NEW q \in Seq(LobbyToServer), q # <<>>, NEW entry \in Entry, NEW result,
         Brings(q, entry, result)
  PROVE  Brings(Tail(q), Apply(entry, Head(q)), result)
<1> DEFINE m == Head(q)
<1>0. m \in LobbyToServer
  OBVIOUS
<1>1. /\ EndsAs(Tail(q), ReadyPackets, "ready",
                IF m \in ReadyPackets THEN m["ready"] ELSE entry.ready, result.ready)
      /\ EndsAs(Tail(q), JoinPackets, "name",
                IF m \in JoinPackets THEN m["name"] ELSE entry.name, result.name)
  BY EndsAsTail DEF Brings
<1> HIDE DEF m
<1>2. CASE m \in ReadyPackets /\ m \notin JoinPackets
  <2>1. Apply(entry, m).ready = m["ready"] /\ Apply(entry, m).name = entry.name
    BY <1>0, <1>2, RequestKinds
  <2> QED
    BY <1>1, <1>2, <2>1 DEF Brings, m
<1>3. CASE m \in JoinPackets /\ m \notin ReadyPackets
  <2>1. Apply(entry, m).name = m["name"] /\ Apply(entry, m).ready = entry.ready
    BY <1>0, <1>3, RequestKinds
  <2> QED
    BY <1>1, <1>3, <2>1 DEF Brings, m
<1> QED
  BY <1>0, <1>2, <1>3, RequestKinds

(* No requests, no change.                                                 *)
LEMMA BringsNothing == ASSUME NEW e PROVE Brings(<<>>, e, e)
BY DEF Brings, EndsAs

(* The requests of one client, where the server holds its connection.      *)
Own(c) ==
    link[c] # NoSlot /\ cCall[c] # "connect" =>
        /\ pstate[link[c]] = "acknowledged" => Brings(up[link[c]], Newcomer, asked[c])
        /\ pstate[link[c]] = "connected" =>
              Brings(up[link[c]], players[data[link[c]]], asked[c])

(* RequestsAreOwn but for the entries being there, which follows from      *)
(* ConnectedArePlayers; and that nothing is in flight before the handshake *)
(* is complete: what a slot takes first is from the client it was given to.*)
OwnInv ==
    /\ \A c \in Clients : Own(c)
    /\ \A s \in Slots : pstate[s] = "pending" => up[s] = <<>>

(* A client that is not concerned by a step.                               *)
LEMMA OwnSame ==
  ASSUME NEW c \in Clients, Own(c), link'[c] = link[c], cCall'[c] = cCall[c], asked'[c] = asked[c],
         NEW s, s = link[c],
         s # NoSlot => /\ pstate'[s] = pstate[s] /\ up'[s] = up[s]
                       /\ pstate[s] = "connected" => players'[data'[s]] = players[data[s]]
  PROVE  Own(c)'
BY DEF Own

(* The player's CONNECT makes an entry that knows of no request.           *)
LEMMA OwnConnect ==
  ASSUME LobbyTypeOK, LinkInv, MatchInv, NEW s \in Slots, PlayerConnects(s),
         NEW c \in Clients, Own(c)
  PROVE  Own(c)'
<1>1. /\ pstate[s] = "acknowledged" /\ pstate' = [pstate EXCEPT ![s] = "connected"]
      /\ data' = [data EXCEPT ![s] = nextID] /\ nextID \in ClientID
      /\ players' = [players EXCEPT ![nextID] = Newcomer]
      /\ UNCHANGED <<link, up, cCall, asked>>
  BY DEF PlayerConnects, ServerConnect, clientVars, LobbyTypeOK, SessionTypeOK
<1>2. /\ pstate \in [Slots -> PeerState] /\ data \in [Slots -> ClientID]
      /\ players \in [ClientID -> Entry \cup {NoPlayer}] /\ link[c] \in Slots \cup {NoSlot}
      /\ SessionTypeOK
  BY DEF LobbyTypeOK, SessionTypeOK, Table
<1>3. CASE link[c] = s
  BY <1>1, <1>2, <1>3 DEF Own
<1>4. CASE link[c] # s
  <2>1. \A t \in Slots : pstate[t] = "connected" => data[t] # nextID
    BY <1>2, HeldIsKnown DEF Held
  <2> QED
    BY <1>1, <1>2, <1>4, <2>1, OwnSame
<1> QED
  BY <1>3, <1>4

(* A request is taken from the queue and applied to the entry of the one   *)
(* who sent it.                                                            *)
LEMMA OwnReceive ==
  ASSUME LobbyTypeOK, LinkInv, MatchInv, ConnectedArePlayers, NEW s \in Slots,
         PlayerReady(s) \/ PlayerJoins(s), NEW c \in Clients, Own(c)
  PROVE  Own(c)'
<1>1. /\ pstate[s] = "connected" /\ up[s] # <<>> /\ up' = [up EXCEPT ![s] = Tail(up[s])]
      /\ UNCHANGED <<link, pstate, data, cCall, asked>>
  BY DEF PlayerReady, PlayerJoins, ServerReceive, enetVars, clientVars
<1>2. /\ data \in [Slots -> ClientID] /\ up \in [Slots -> Seq(LobbyToServer)]
      /\ players \in [ClientID -> Entry \cup {NoPlayer}] /\ link[c] \in Slots \cup {NoSlot}
      /\ SessionTypeOK
  BY DEF LobbyTypeOK, SessionTypeOK, Table
<1>3. data[s] \in Known /\ players[data[s]] # NoPlayer /\ players[data[s]] \in Entry
  BY <1>1, <1>2, HeldIsKnown DEF Held, ConnectedArePlayers, Present
<1>4. players' = [players EXCEPT ![data[s]] = Apply(players[data[s]], Head(up[s]))]
  BY <1>3 DEF PlayerReady, PlayerJoins
<1>5. CASE link[c] = s
  <2>1. Own(c) => (cCall[c] # "connect" => Brings(up[s], players[data[s]], asked[c]))
    BY <1>1, <1>5, NoSlotAssumption DEF Own
  <2>2. up[s] \in Seq(LobbyToServer)
    BY <1>2
  <2>3. cCall[c] # "connect" =>
          Brings(Tail(up[s]), Apply(players[data[s]], Head(up[s])), asked[c])
    BY <1>1, <1>3, <2>1, <2>2, BringsTail
  <2>4. up'[s] = Tail(up[s]) /\ players'[data[s]] = Apply(players[data[s]], Head(up[s]))
    BY <1>1, <1>2, <1>4
  <2> QED
    BY <1>1, <1>5, <2>3, <2>4 DEF Own
<1>6. CASE link[c] # s
  <2>1. \A t \in Slots : t # s /\ pstate[t] = "connected" => data[t] # data[s]
    BY <1>1, <1>2, HeldIsKnown DEF Held
  <2> QED
    BY <1>1, <1>2, <1>4, <1>6, <2>1, OwnSame
<1> QED
  BY <1>5, <1>6

(* A client that ends up without a peer, or in connect(), or not concerned *)
(* by what a call on its side changes.                                     *)
LEMMA OwnIdle ==
  ASSUME NEW c \in Clients, Own(c),
         \/ link'[c] = NoSlot
         \/ cCall'[c] = "connect"
         \/ /\ UNCHANGED <<link[c], asked[c], players, data>> /\ cCall[c] # "connect"
            /\ UNCHANGED <<pstate[link[c]], up[link[c]]>>
         \/ /\ UNCHANGED <<link[c], asked[c], cCall[c], players, data>>
            /\ link[c] # NoSlot => UNCHANGED <<pstate[link[c]], up[link[c]]>>
  PROVE  Own(c)'
BY DEF Own

(* The steps without a callback.                                           *)
LEMMA OwnBackground ==
  ASSUME LobbyTypeOK, LinkInv, LobbyBackground, NEW c \in Clients, Own(c)
  PROVE  Own(c)'
<1> USE DEF lobbyLocal, serverVars, enetVars, clientVars
<1>0. /\ pstate \in [Slots -> PeerState] /\ link \in [Clients -> Slots \cup {NoSlot}]
      /\ up \in [Slots -> Seq(LobbyToServer)]
      /\ cCall \in [Clients -> {"none", "connect", "disconnect"}]
  BY DEF LobbyTypeOK, SessionTypeOK
<1>1. UNCHANGED <<players, asked>>
  BY DEF LobbyBackground
<1>2. CASE ServerStart
  BY <1>1, <1>2, OwnIdle DEF ServerStart
<1>3. ASSUME NEW d \in Clients,
             \/ ConnectBegin(d) \/ ConnectRefused(d) \/ ConnectFails(d)
             \/ DisconnectBegin(d) \/ DisconnectEnd(d)
      PROVE  Own(c)'
  <2>1. UNCHANGED <<pstate, up, data>>
    BY <1>3 DEF ConnectBegin, ConnectRefused, ConnectFails, DisconnectBegin, DisconnectEnd
  <2>2. CASE c = d
    <3>1. CASE ConnectBegin(d) \/ ConnectFails(d) \/ DisconnectEnd(d)
      BY <1>0, <2>2, <3>1, OwnIdle DEF ConnectBegin, ConnectFails, DisconnectEnd
    <3>2. CASE ConnectRefused(d) \/ DisconnectBegin(d)
      BY <1>0, <1>1, <2>1, <2>2, <3>2, OwnIdle DEF ConnectRefused, DisconnectBegin
    <3> QED
      BY <1>3, <3>1, <3>2
  <2>3. CASE c # d
    <3>1. UNCHANGED <<link[c], cCall[c]>>
      BY <1>0, <1>3, <2>3 DEF ConnectBegin, ConnectRefused, ConnectFails, DisconnectBegin, DisconnectEnd
    <3> QED
      BY <1>1, <2>1, <3>1, OwnIdle
  <2> QED
    BY <2>2, <2>3
<1>4. ASSUME NEW d \in Clients, NEW s \in Slots, Accept(d, s) PROVE Own(c)'
  <2>1. CASE c = d
    BY <1>4, <2>1, OwnIdle DEF Accept
  <2>2. CASE c # d
    <3>1. link[c] # s
      BY <1>4, NoSlotAssumption DEF Accept, LinkInv, LinksAgree
    <3> QED
      BY <1>0, <1>1, <1>4, <2>2, <3>1, OwnIdle DEF Accept
  <2> QED
    BY <2>1, <2>2
<1>5. ASSUME NEW s \in Slots, ReapPending(s) PROVE Own(c)'
  <2>1. CASE link[c] = s
    BY <1>5, <2>1, OwnIdle DEF ReapPending
  <2>2. CASE link[c] # s
    BY <1>0, <1>1, <1>5, <2>2, OwnIdle DEF ReapPending
  <2> QED
    BY <2>1, <2>2
<1> QED
  BY <1>2, <1>3, <1>4, <1>5 DEF LobbyBackground, Background

(* The player whose peer is freed loses the link; the others keep theirs,  *)
(* with an entry of another id.                                            *)
LEMMA OwnLeaves ==
  ASSUME LobbyTypeOK, LinkInv, MatchInv, NEW s \in Slots, PlayerLeaves(s),
         NEW c \in Clients, Own(c)
  PROVE  Own(c)'
<1>1. /\ Held(s) /\ pstate' = [pstate EXCEPT ![s] = "free"]
      /\ link' = [d \in Clients |-> IF link[d] = s THEN NoSlot ELSE link[d]]
      /\ up' = [up EXCEPT ![s] = <<>>]
      /\ players' = [players EXCEPT ![data[s]] = NoPlayer]
      /\ UNCHANGED <<data, cCall, asked>>
  BY DEF PlayerLeaves, ServerDisconnect, Held, clientVars
<1>2. /\ pstate \in [Slots -> PeerState] /\ data \in [Slots -> ClientID]
      /\ players \in [ClientID -> Entry \cup {NoPlayer}] /\ link[c] \in Slots \cup {NoSlot}
      /\ up \in [Slots -> Seq(LobbyToServer)] /\ SessionTypeOK
  BY DEF LobbyTypeOK, SessionTypeOK, Table
<1>3. CASE link[c] = s
  BY <1>1, <1>3, OwnIdle
<1>4. CASE link[c] # s
  <2>1. \A t \in Slots : t # s /\ pstate[t] = "connected" => data[t] # data[s]
    BY <1>1, <1>2, HeldIsKnown DEF Held
  <2> QED
    BY <1>1, <1>2, <1>4, <2>1, OwnSame
<1> QED
  BY <1>3, <1>4

(* A kick drops what the player asked for last, and the entry of a player  *)
(* who is being disconnected is nobody's concern.                          *)
LEMMA OwnKick ==
  ASSUME LobbyTypeOK, NEW i \in ClientID, LobbyKick(i), NEW c \in Clients, Own(c)
  PROVE  Own(c)'
<1>1. PICK s \in Slots :
        /\ pstate' = [pstate EXCEPT ![s] = "disconnecting"] /\ up' = [up EXCEPT ![s] = <<>>]
        /\ UNCHANGED <<data, link, cCall, asked, players>>
  BY DEF LobbyKick, Kick, Known, LobbyTypeOK, SessionTypeOK, lobbyLocal, clientVars
<1>2. /\ pstate \in [Slots -> PeerState] /\ up \in [Slots -> Seq(LobbyToServer)]
      /\ link[c] \in Slots \cup {NoSlot}
  BY DEF LobbyTypeOK, SessionTypeOK
<1>3. CASE link[c] = s
  BY <1>1, <1>2, <1>3 DEF Own
<1>4. CASE link[c] # s
  BY <1>1, <1>2, <1>4, OwnIdle
<1> QED
  BY <1>3, <1>4

(* A handshake is completed with nothing asked for yet.                    *)
LEMMA OwnConnected ==
  ASSUME LobbyTypeOK, LinkInv, OwnInv, NEW d \in Clients, Connected(d),
         NEW c \in Clients, Own(c)
  PROVE  Own(c)'
<1>1. /\ cCall[d] = "connect" /\ link[d] # NoSlot
      /\ pstate' = [pstate EXCEPT ![link[d]] = "acknowledged"]
      /\ cCall' = [cCall EXCEPT ![d] = "none"] /\ asked' = [asked EXCEPT ![d] = Newcomer]
      /\ UNCHANGED <<link, up, data, players>>
  BY DEF Connected, ConnectSucceeds
<1>2. /\ pstate \in [Slots -> PeerState] /\ asked \in [Clients -> Entry]
      /\ cCall \in [Clients -> {"none", "connect", "disconnect"}]
      /\ link \in [Clients -> Slots \cup {NoSlot}]
  BY DEF LobbyTypeOK, SessionTypeOK
<1>3. CASE c = d
  <2>1. link[d] \in Slots /\ pstate[link[d]] = "pending"
    BY <1>1, <1>2 DEF LinkInv, Waiting
  <2>2. up[link[d]] = <<>>
    BY <2>1 DEF OwnInv
  <2>3. Brings(up'[link'[c]], Newcomer, asked'[c]) /\ pstate'[link'[c]] = "acknowledged"
    BY <1>1, <1>2, <1>3, <2>1, <2>2, BringsNothing
  <2> QED
    BY <2>3 DEF Own
<1>4. CASE c # d
  <2>1. link[c] # NoSlot => link[c] # link[d]
    BY <1>4 DEF LinkInv, LinksAgree
  <2> QED
    BY <1>1, <1>2, <1>4, <2>1, OwnIdle
<1> QED
  BY <1>3, <1>4

(* A request joins those of the client who makes it.                       *)
LEMMA OwnRequest ==
  ASSUME LobbyTypeOK, LinkInv, NEW d \in Clients, NEW m \in LobbyToServer, Request(d, m),
         NEW c \in Clients, Own(c)
  PROVE  Own(c)'
<1> DEFINE open == {s \in Slots : link[d] = s /\ pstate[s] \in {"acknowledged", "connected"}}
<1>1. /\ cCall[d] = "none" /\ up' = AppendTo(up, open, m)
      /\ asked' = [asked EXCEPT ![d] = Apply(asked[d], m)]
      /\ UNCHANGED <<link, pstate, data, cCall, players>>
  BY DEF Request, ClientSend, enetVars, clientVars
<1>2. /\ up \in [Slots -> Seq(LobbyToServer)] /\ asked \in [Clients -> Entry]
      /\ link[c] \in Slots \cup {NoSlot}
  BY DEF LobbyTypeOK, SessionTypeOK
<1>3. CASE c = d
  <2> SUFFICES ASSUME link[c] # NoSlot, pstate[link[c]] \in {"acknowledged", "connected"}
               PROVE  Own(c)'
    BY <1>1 DEF Own
  <2>1. link[c] \in Slots /\ up'[link[c]] = Append(up[link[c]], m)
    BY <1>1, <1>2, <1>3 DEF AppendTo
  <2>2. up[link[c]] \in Seq(LobbyToServer) /\ asked[c] \in Entry /\ asked'[c] = Apply(asked[c], m)
    BY <1>1, <1>2, <1>3, <2>1
  <2>3. CASE pstate[link[c]] = "acknowledged"
    <3>1. Brings(up[link[c]], Newcomer, asked[c])
      BY <1>1, <1>3, <2>3 DEF Own
    <3>2. Brings(Append(up[link[c]], m), Newcomer, Apply(asked[c], m))
      BY <2>2, <3>1, BringsAppend
    <3> QED
      BY <1>1, <2>1, <2>2, <2>3, <3>2 DEF Own
  <2>4. CASE pstate[link[c]] = "connected"
    <3>1. Brings(up[link[c]], players[data[link[c]]], asked[c])
      BY <1>1, <1>3, <2>4 DEF Own
    <3>2. Brings(Append(up[link[c]], m), players[data[link[c]]], Apply(asked[c], m))
      BY <2>2, <3>1, BringsAppend
    <3> QED
      BY <1>1, <2>1, <2>2, <2>4, <3>2 DEF Own
  <2> QED
    BY <2>3, <2>4
<1>4. CASE c # d
  <2>1. link[c] # NoSlot => link[c] # link[d]
    BY <1>4 DEF LinkInv, LinksAgree
  <2>2. link[c] # NoSlot => up'[link[c]] = up[link[c]]
    BY <1>1, <1>2, <2>1 DEF AppendTo
  <2> QED
    BY <1>1, <1>2, <1>4, <2>2, OwnIdle
<1> QED
  BY <1>3, <1>4

(* A client takes a packet, loses the server or starts again.              *)
LEMMA OwnClient ==
  ASSUME LobbyTypeOK, NEW d \in Clients,
         ReceiveState(d) \/ ReceiveStart(d) \/ LosesServer(d) \/ ClientRestarts(d),
         NEW c \in Clients, Own(c)
  PROVE  Own(c)'
<1>1. UNCHANGED <<pstate, up, data, players, asked>>
  BY DEF ReceiveState, ReceiveStart, LosesServer, ClientRestarts, ClientReceive,
         ClientDisconnect, Crash, enetVars, lobbyLocal
<1>2. /\ link \in [Clients -> Slots \cup {NoSlot}]
      /\ cCall \in [Clients -> {"none", "connect", "disconnect"}]
  BY DEF LobbyTypeOK, SessionTypeOK
<1>3. CASE ReceiveState(d) \/ ReceiveStart(d)
  BY <1>1, <1>3, OwnIdle DEF ReceiveState, ReceiveStart, ClientReceive, enetVars, clientVars
<1>4. CASE c = d /\ (LosesServer(d) \/ ClientRestarts(d))
  BY <1>2, <1>4, OwnIdle DEF LosesServer, ClientRestarts, ClientDisconnect, Crash
<1>5. CASE c # d /\ (LosesServer(d) \/ ClientRestarts(d))
  BY <1>1, <1>2, <1>5, OwnIdle DEF LosesServer, ClientRestarts, ClientDisconnect, Crash
<1> QED
  BY <1>3, <1>4, <1>5

(* Nothing is in flight on a slot whose handshake is not complete.         *)
LEMMA PendingStep ==
  ASSUME LobbyTypeOK, LobbyNext, \A s \in Slots : pstate[s] = "pending" => up[s] = <<>>
  PROVE  \A s \in Slots : pstate'[s] = "pending" => up'[s] = <<>>
<1> USE DEF serverVars, enetVars, clientVars, lobbyLocal
<1>0. /\ pstate \in [Slots -> PeerState] /\ up \in [Slots -> Seq(LobbyToServer)]
      /\ peers \in [ClientID -> Slots \cup {NoSlot}]
      /\ link \in [Clients -> Slots \cup {NoSlot}]
  BY DEF LobbyTypeOK, SessionTypeOK
<1> SUFFICES ASSUME NEW t \in Slots, pstate'[t] = "pending" PROVE up'[t] = <<>>
  OBVIOUS
<1> SUFFICES \/ up'[t] = <<>>
             \/ pstate'[t] = pstate[t] /\ up'[t] = up[t]
  OBVIOUS
<1>1. CASE LobbyBackground
  BY <1>0, <1>1 DEF LobbyBackground, Background, ServerStart, ConnectBegin, ConnectRefused,
      ConnectFails, DisconnectBegin, DisconnectEnd, Accept, ReapPending
<1>2. CASE LobbyServerClose \/ HostStarts
  BY <1>0, <1>2 DEF LobbyServerClose, ServerClose, HostStarts, ServerBroadcast
<1>3. ASSUME NEW i \in ClientID, LobbyKick(i)
      PROVE  up'[t] = <<>> \/ (pstate'[t] = pstate[t] /\ up'[t] = up[t])
  BY <1>0, <1>3 DEF LobbyKick, Kick
<1>4. ASSUME NEW s \in Slots,
             PlayerConnects(s) \/ PlayerLeaves(s) \/ PlayerReady(s) \/ PlayerJoins(s)
      PROVE  up'[t] = <<>> \/ (pstate'[t] = pstate[t] /\ up'[t] = up[t])
  <2>1. CASE t = s
    <3>1. pstate'[s] # "pending"
      BY <1>0, <1>4 DEF PlayerConnects, PlayerLeaves, PlayerReady, PlayerJoins,
         ServerConnect, ServerDisconnect, ServerReceive
    <3> QED
      BY <2>1, <3>1
  <2>2. CASE t # s
    BY <1>0, <1>4, <2>2 DEF PlayerConnects, PlayerLeaves, PlayerReady, PlayerJoins,
         ServerConnect, ServerDisconnect, ServerReceive
  <2> QED
    BY <2>1, <2>2
<1>5. ASSUME NEW c \in Clients,
             \/ Connected(c) \/ ReceiveState(c) \/ ReceiveStart(c)
             \/ LosesServer(c) \/ ClientRestarts(c)
      PROVE  up'[t] = <<>> \/ (pstate'[t] = pstate[t] /\ up'[t] = up[t])
  BY <1>0, <1>5 DEF Connected, ConnectSucceeds, ReceiveState, ReceiveStart, ClientReceive,
         LosesServer, ClientDisconnect, ClientRestarts, Crash
<1>6. ASSUME NEW c \in Clients, NEW m \in LobbyToServer, Request(c, m)
      PROVE  up'[t] = <<>> \/ (pstate'[t] = pstate[t] /\ up'[t] = up[t])
  BY <1>0, <1>6 DEF Request, ClientSend, AppendTo
<1> QED
  BY <1>1, <1>2, <1>3, <1>4, <1>5, <1>6, LobbyCases

(* No step credits a request to somebody else, or loses one.               *)
LEMMA OwnStep ==
  ASSUME LobbyTypeOK, LinkInv, MatchInv, ConnectedArePlayers, OwnInv, LobbyNext
  PROVE  OwnInv'
<1>1. ASSUME NEW c \in Clients PROVE Own(c)'
  <2>0. Own(c)
    BY DEF OwnInv
  <2>1. CASE LobbyBackground
    BY <2>0, <2>1, OwnBackground
  <2>2. CASE LobbyServerClose
    BY <2>0, <2>2, OwnIdle DEF LobbyServerClose, ServerClose
  <2>3. CASE HostStarts
    BY <2>0, <2>3, OwnIdle
       DEF HostStarts, ServerBroadcast, lobbyLocal, enetVars, clientVars
  <2>4. ASSUME NEW i \in ClientID, LobbyKick(i) PROVE Own(c)'
    BY <2>0, <2>4, OwnKick
  <2>5. ASSUME NEW s \in Slots, PlayerConnects(s) PROVE Own(c)'
    BY <2>0, <2>5, OwnConnect
  <2>6. ASSUME NEW s \in Slots, PlayerLeaves(s) PROVE Own(c)'
    BY <2>0, <2>6, OwnLeaves
  <2>7. ASSUME NEW s \in Slots, PlayerReady(s) \/ PlayerJoins(s) PROVE Own(c)'
    BY <2>0, <2>7, OwnReceive
  <2>8. ASSUME NEW d \in Clients, Connected(d) PROVE Own(c)'
    BY <2>0, <2>8, OwnConnected
  <2>9. ASSUME NEW d \in Clients,
               ReceiveState(d) \/ ReceiveStart(d) \/ LosesServer(d) \/ ClientRestarts(d)
        PROVE  Own(c)'
    BY <2>0, <2>9, OwnClient
  <2>10. ASSUME NEW d \in Clients, NEW m \in LobbyToServer, Request(d, m) PROVE Own(c)'
    BY <2>0, <2>10, OwnRequest
  <2> QED
    BY <2>1, <2>2, <2>3, <2>4, <2>5, <2>6, <2>7, <2>8, <2>9, <2>10, LobbyCases
<1>2. \A s \in Slots : pstate'[s] = "pending" => up'[s] = <<>>
  BY PendingStep DEF OwnInv
<1> QED
  BY <1>1, <1>2 DEF OwnInv

(* What the server holds for a player is what that player asked for on     *)
(* this connection, up to the requests still in flight, also when the      *)
(* player's ENet peer was somebody else's before.                          *)
THEOREM RequestsCorrect == NoWrap => (LobbySpec => []RequestsAreOwn)
<1> SUFFICES ASSUME NoWrap PROVE LobbySpec => []RequestsAreOwn
  OBVIOUS
<1>1. LobbyInit => OwnInv
  BY DEF LobbyInit, Init, OwnInv, Own
<1>2. LobbyTypeOK /\ LinkInv /\ MatchInv /\ ConnectedArePlayers /\ OwnInv /\ LobbyNext => OwnInv'
  BY OwnStep
<1>3. OwnInv /\ UNCHANGED lobbyVars => OwnInv'
  BY DEF OwnInv, Own, lobbyVars, lobbyLocal, sessionVars, enetVars, clientVars
<1>4. LobbyTypeOK /\ MatchInv /\ ConnectedArePlayers /\ OwnInv => RequestsAreOwn
  <2> SUFFICES ASSUME LobbyTypeOK, MatchInv, ConnectedArePlayers, OwnInv, NEW c \in Clients,
                      link[c] # NoSlot, cCall[c] # "connect"
               PROVE  /\ pstate[link[c]] = "acknowledged" => Brings(up[link[c]], Newcomer, asked[c])
                      /\ pstate[link[c]] = "connected" =>
                            /\ data[link[c]] \in Present(players)
                            /\ Brings(up[link[c]], players[data[link[c]]], asked[c])
    BY DEF RequestsAreOwn
  <2>1. link[c] \in Slots
    BY DEF LobbyTypeOK, SessionTypeOK
  <2>2. pstate[link[c]] = "connected" => data[link[c]] \in Known
    BY <2>1, HeldIsKnown DEF Held, LobbyTypeOK
  <2> QED
    BY <2>2 DEF OwnInv, Own, ConnectedArePlayers
<1> QED
  BY <1>1, <1>2, <1>3, <1>4, LobbyMatch, ConnectedCorrect, PTL DEF LobbySpec
=============================================================================
