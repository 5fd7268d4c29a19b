-------------------------------- MODULE Lobby --------------------------------
(***************************************************************************)
(* Lobby/Lobby.h: one ServerLobby on the server of Session, one            *)
(* ClientLobby on each client.  The lobby lives in callbacks: every action *)
(* here is an action of Session joined with what its callback does, the    *)
(* whole of broadcastState() and checkAllReady() included.                 *)
(*                                                                         *)
(* A name is a model value; the order in which an unordered_map lists the  *)
(* players is left out, so a table is a function from ids to entries.      *)
(***************************************************************************)
EXTENDS Session

CONSTANTS
    Names,      \* names a player can send with join()
    DefaultName, \* the name "Player<id>" onConnect gives
    NoPlayer,   \* no entry
    HostMayStart \* the application also calls startGame() from its main loop

ASSUME LobbyAssumption ==
    /\ DefaultName \notin Names
    /\ NoPlayer \notin [ready : BOOLEAN, name : Names \cup {DefaultName}]

VARIABLES
    players,    \* ServerLobby::m_players
    view,       \* ClientLobby::m_players of each client
    asked,      \* history: what a client asked for since it connected
    closedAt    \* history: m_nextID when the server was last closed on players

lobbyLocal == <<players, view, asked, closedAt>>
lobbyVars == <<sessionVars, lobbyLocal>>

Entry == [ready : BOOLEAN, name : Names \cup {DefaultName}]
Table == [ClientID -> Entry \cup {NoPlayer}]
Newcomer == [ready |-> FALSE, name |-> DefaultName]
NoPlayers == [i \in ClientID |-> NoPlayer]

Ready(b) == [type |-> "READY", ready |-> b]
Join(n) == [type |-> "JOIN", name |-> n]
LobbyToServer == {Ready(b) : b \in BOOLEAN} \cup {Join(n) : n \in Names}

State(t) == [type |-> "STATE", players |-> t]
Start(why) == [type |-> "START", why |-> why]
LobbyToClient == {State(t) : t \in Table} \cup {Start(w) : w \in {"allReady", "host"}}

ASSUME PayloadAssumption == LobbyToServer \subseteq ToServer /\ LobbyToClient \subseteq ToClient

-----------------------------------------------------------------------------
LobbyInit ==
    /\ Init
    /\ players = NoPlayers
    /\ view = [c \in Clients |-> NoPlayers]
    /\ asked = [c \in Clients |-> Newcomer]
    /\ closedAt = 0

Present(t) == {i \in ClientID : t[i] # NoPlayer}

(* checkAllReady().                                                        *)
AllReady(t) == Present(t) # {} /\ \A i \in Present(t) : t[i].ready

Broadcast_Fault(msgs) ==  \* the packets are put into one
    /\ RoomDown
    /\ down' = AppendTo(down, Reached(pstate', link'), msgs)

(* m_server.broadcast(p, Reliable) of one packet after the other, to the   *)
(* peers that are connected once the event is handled.                     *)
Broadcast(msgs) ==
    /\ RoomDown
    /\ LET to == Reached(pstate', link')
       IN  down' = [c \in Clients |-> IF c \in to THEN down[c] \o msgs ELSE down[c]]

(* What a request does to the entry of the player who sends it.            *)
Apply(entry, m) ==
    IF m.type = "READY" THEN [entry EXCEPT !.ready = m.ready]
                        ELSE [entry EXCEPT !.name = m.name]

-----------------------------------------------------------------------------
(* ServerLobby.                                                            *)

PlayerConnects_Fault(s) ==  \* a full lobby takes nobody in
    /\ ServerConnect(s)
    /\ players' = IF Cardinality(Present(players)) >= 1 THEN players
                  ELSE [players EXCEPT ![nextID] = Newcomer]
    /\ Broadcast(<<State(players')>>)
    /\ UNCHANGED <<view, asked, closedAt>>

PlayerConnects(s) ==
    /\ ServerConnect(s)
    /\ players' = [players EXCEPT ![nextID] = Newcomer]
    /\ Broadcast(<<State(players')>>)
    /\ UNCHANGED <<view, asked, closedAt>>

PlayerLeaves_Fault(s) ==  \* no broadcastState()
    /\ ServerDisconnect(s)
    /\ players' = [players EXCEPT ![data[s]] = NoPlayer]
    /\ UNCHANGED <<down, view, asked, closedAt>>

PlayerStays_Fault(s) ==  \* m_players.erase is forgotten
    /\ ServerDisconnect(s)
    /\ players' = players
    /\ Broadcast(<<State(players')>>)
    /\ UNCHANGED <<view, asked, closedAt>>

PlayerLeaves(s) ==
    /\ ServerDisconnect(s)
    /\ players' = [players EXCEPT ![data[s]] = NoPlayer]
    /\ Broadcast(<<State(players')>>)
    /\ UNCHANGED <<view, asked, closedAt>>

PlayerReady_Fault(s) ==  \* checkAllReady() before broadcastState(), which it replaces
    /\ ServerReceive(s)
    /\ Head(up[s]).type = "READY"
    /\ players' = [players EXCEPT ![data[s]] = Apply(@, Head(up[s]))]
    /\ IF AllReady(players') THEN Broadcast(<<Start("allReady")>>)
                             ELSE Broadcast(<<State(players')>>)
    /\ UNCHANGED <<view, asked, closedAt>>

(* The application starts the game from onAllReady, or leaves it be.       *)
PlayerReady(s) ==
    /\ ServerReceive(s)
    /\ Head(up[s]).type = "READY"
    /\ IF players[data[s]] = NoPlayer
       THEN UNCHANGED <<players, down>>
       ELSE /\ players' = [players EXCEPT ![data[s]] = Apply(@, Head(up[s]))]
            /\ \/ Broadcast(<<State(players')>>)
               \/ /\ AllReady(players')
                  /\ Broadcast(<<State(players'), Start("allReady")>>)
    /\ UNCHANGED <<view, asked, closedAt>>

PlayerJoins(s) ==
    /\ ServerReceive(s)
    /\ Head(up[s]).type = "JOIN"
    /\ players' = IF players[data[s]] = NoPlayer THEN players
                  ELSE [players EXCEPT ![data[s]] = Apply(@, Head(up[s]))]
    /\ Broadcast(<<State(players')>>)
    /\ UNCHANGED <<view, asked, closedAt>>

(* startGame() from the main loop.                                         *)
HostStarts ==
    /\ HostMayStart
    /\ ServerBroadcast(Start("host"), "Reliable")
    /\ UNCHANGED lobbyLocal

LobbyKick(i) ==
    /\ Kick(i)
    /\ UNCHANGED <<down, lobbyLocal>>

(* Server::close() tells the lobby nothing.                                *)
LobbyServerClose ==
    /\ ServerClose
    /\ closedAt' = IF Present(players) = {} THEN closedAt ELSE nextID
    /\ UNCHANGED <<players, view, asked>>

-----------------------------------------------------------------------------
(* ClientLobby.                                                            *)

Connected(c) ==
    /\ ConnectSucceeds(c) /\ UNCHANGED up
    /\ asked' = [asked EXCEPT ![c] = Newcomer]
    /\ UNCHANGED <<players, view, closedAt>>

Request(c, m) ==
    /\ ClientSend(c, m, "Reliable")
    /\ asked' = [asked EXCEPT ![c] = Apply(@, m)]
    /\ UNCHANGED <<players, view, closedAt>>

ReceiveState(c) ==
    /\ ClientReceive(c) /\ UNCHANGED up
    /\ Head(down[c]).type = "STATE"
    /\ view' = [view EXCEPT ![c] = Head(down[c]).players]
    /\ UNCHANGED <<players, asked, closedAt>>

(* PKT_LOBBY_START: onGameStart runs.                                      *)
ReceiveStart(c) ==
    /\ ClientReceive(c) /\ UNCHANGED up
    /\ Head(down[c]).type = "START"
    /\ UNCHANGED lobbyLocal

(* The view is kept when the connection is lost; only a new process starts *)
(* from nothing.                                                           *)
LosesServer(c) ==
    /\ ClientDisconnect(c)
    /\ UNCHANGED lobbyLocal

ClientRestarts(c) ==
    /\ Crash(c)
    /\ view' = [view EXCEPT ![c] = NoPlayers]
    /\ UNCHANGED <<players, asked, closedAt>>

-----------------------------------------------------------------------------
LobbyBackground == Background /\ UNCHANGED lobbyLocal

LobbyNext ==
    \/ LobbyBackground
    \/ LobbyServerClose
    \/ HostStarts
    \/ \E i \in ClientID : LobbyKick(i)
    \/ \E s \in Slots :
          PlayerConnects(s) \/ PlayerLeaves(s) \/ PlayerReady(s) \/ PlayerJoins(s)
    \/ \E c \in Clients :
          \/ Connected(c) \/ ReceiveState(c) \/ ReceiveStart(c)
          \/ LosesServer(c) \/ ClientRestarts(c)
          \/ \E m \in LobbyToServer : Request(c, m)

LobbySpec == LobbyInit /\ [][LobbyNext]_lobbyVars

(* Both sides poll every frame (see Session).                              *)
LobbyCallReturns(c) ==
    \/ Connected(c)
    \/ /\ ConnectFails(c) \/ DisconnectEnd(c)
       /\ UNCHANGED lobbyLocal

LobbyFairness ==
    /\ \A s \in Slots :
          /\ WF_lobbyVars(PlayerConnects(s) \/ PlayerReady(s) \/ PlayerJoins(s))
          /\ WF_lobbyVars(Gone(s) /\ PlayerLeaves(s))
    /\ \A c \in Clients :
          /\ WF_lobbyVars(ReceiveState(c) \/ ReceiveStart(c))
          /\ WF_lobbyVars(LobbyCallReturns(c))

LobbyFairSpec == LobbySpec /\ LobbyFairness

-----------------------------------------------------------------------------
(* Properties.                                                             *)

(* Types of the lobby's own variables and of the packets in flight.        *)
LobbyTypeOK ==
    /\ SessionTypeOK
    /\ up \in [Slots -> Seq(LobbyToServer)]
    /\ down \in [Clients -> Seq(LobbyToClient)]
    /\ players \in Table
    /\ view \in [Clients -> Table]
    /\ asked \in [Clients -> Entry]
    /\ closedAt \in ClientID

StatePackets == [type : {"STATE"}, players : Table]
ReadyPackets == [type : {"READY"}, ready : BOOLEAN]
JoinPackets == [type : {"JOIN"}, name : Names]

(* A client the server can reach has the server's table, or will have it   *)
(* once it has taken what is on its way: no change of m_players is left    *)
(* without a broadcastState(), and none is broadcast before the change.    *)
LatestStateOnTheWire ==
    \A c \in Reached(pstate, link) :
        EndsAs(down[c], StatePackets, "players", view[c], players)

(* The requests in q, applied to one entry, make another one of it.        *)
Brings(q, entry, result) ==
    /\ EndsAs(q, ReadyPackets, "ready", entry.ready, result.ready)
    /\ EndsAs(q, JoinPackets, "name", entry.name, result.name)

(* What the server holds for a player is what that player asked for on     *)
(* this connection, up to the requests still in flight: nothing is lost,   *)
(* reordered, or credited to the player who had the ENet peer before.      *)
RequestsAreOwn ==
    \A c \in Clients : link[c] # NoSlot /\ cCall[c] # "connect" =>
        LET s == link[c]
        IN  /\ pstate[s] = "acknowledged" => Brings(up[s], Newcomer, asked[c])
            /\ pstate[s] = "connected" =>
                  data[s] \in Present(players) /\ Brings(up[s], players[data[s]], asked[c])

(* When the game is started because all are ready, a client has seen all   *)
(* of them ready before its onGameStart runs, whoever joined, left or took *)
(* it back meanwhile.                                                      *)
StartSeenAllReady ==
    \A c \in Clients :
        down[c] # <<>> /\ Head(down[c]) = Start("allReady") => AllReady(view[c])

(* Everybody connected is in the lobby: no event is lost to it.            *)
ConnectedArePlayers == Known \subseteq Present(players)

(* The only players in the table who are not connected are those who were  *)
(* when the server was closed: kicks, losses and reconnects in any order   *)
(* leave no other ghost.                                                   *)
GhostsPredateClose == \A i \in Present(players) \ Known : i < closedAt

(* Once nobody joins, leaves or changes anything, every client that stays  *)
(* connected ends up showing the server's table.                           *)
ViewsConverge ==
    <>[][FALSE]_players =>
        \A c \in Clients : []<>(c \in Reached(pstate, link) => view[c] = players)
=============================================================================
