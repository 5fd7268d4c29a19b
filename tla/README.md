# RNF: a verification development

RNF (Raylib Network Framework) is a header-only C++17 layer over ENet: a
`Server`, a `Client`, and services (lobby, matchmaking, chat, state
synchronisation, remote calls) that live in the callbacks of the two. This
directory holds TLA+ models of it, the TLC configurations that check them, and
TLAPS proofs. Source paths below are relative to `src/src/inc/`; `README.md:n`
means the README of the framework.

## 1. Inventory

Every process runs one thread (a process may hold a server and clients). `poll()` is called once per frame
(`Integration/RaylibBackend.h`), takes the events ENet has queued, and runs one
callback per event to its end. Concurrency is therefore between processes: what
a server and its clients have sent each other, the events that report
connections and losses, and calls of the applications between two polls.

| part | state | operations | talks to |
|---|---|---|---|
| `Core/Server.h` | `m_host`, `m_nextID`, `m_peers` (id -> ENet peer), three callback slots; an id in the user pointer of every ENet peer | `start`, `close`, `poll` (CONNECT, RECEIVE, DISCONNECT), `send`, `broadcast`, `kick` | ENet; services through callbacks |
| `Core/Client.h` | `m_host`, `m_peer`, `m_state`, three callback slots | `connect` (blocks), `disconnect` (blocks), `poll`, `send` | ENet; services through callbacks |
| `Core/Packet.h`, `Core/Serialization.h` | a byte buffer and a read cursor | `write`, `read`, `serialize`, raylib types | everything that is sent |
| `Core/Events.h`, `Types.h` | one `onConnect`, one `onDisconnect`, one `onReceive` per object | a service's constructor overwrites them | Server, Client |
| `Lobby/Lobby.h` | server: `m_players`; client: a copy | join, ready, broadcast of the table, all-ready check, start | Server and Client callbacks |
| `Lobby/Matchmaking.h` | server: `m_queue`, `m_playersPerMatch`; client: `m_inQueue` | join, leave, form a match | the same |
| `Lobby/Chat.h` | a history of 100 on both sides | send, sendAs, relay | the same |
| `Sync/VariableSync.h` | tracked values and what was sent last; handlers | track, untrack, update; receive | broadcast, onReceive |
| `Sync/TransformSync.h` | tracked transforms and what was sent last | track, untrack, update; receive | unreliable broadcast |
| `Sync/Snapshot.h` | server: `m_reader`; client: `m_onReceive` | setReader, sendTo, broadcast; receive | send, broadcast, onReceive |
| `Sync/RPC.h` | handlers by name, on both sides | on, call, callClient, callAll; receive | the same |
| `Tools/Logger.h` | the last 200 entries | log | every thread that logs |
| `Integration/RaylibBackend.h` | - | the frame loop | poll |

`main.cpp` opens a window and uses none of this; the headers under `GUI/`, and
`ENetBackend.h`, `RayGuiBackend.h`, `PacketInspector.h`, `Profiler.h`,
`Replay.h`, are empty.

**What is hard.**

- *Identity.* An id lives in three places (`m_nextID`, `m_peers`, the user
  pointer of an ENet peer) and ENet peers are reused. Kicks, losses, timeouts,
  reconnects and restarts of the server come in any order.
- *Two views of one connection.* The client may give up a handshake the server
  completes; the server may drop a client that believes it is connected.
- *Asynchronous requests.* A READY, JOIN or LEAVE may be in flight when its
  sender is kicked, matched, or replaced on the same ENet peer; a FOUND or
  STATE may be in flight when the client changes its mind.
- *Events nobody reports.* `close()` and `disconnect()` run no callback, so
  what a service keeps survives the connection it is about.
- *Delivery.* Unreliable packets vanish; reliable ones vanish with the
  connection. An answer given some frames after the call goes to an id whose
  player may be gone.
- *Nested calls.* A callback may call `connect()`, `close()`, `disconnect()`;
  the loop of `poll()` it returns to goes on with whatever `m_host` is by then.
- *Shared slots.* Two services on one client have one `onReceive` between them.

**What makes each part correct.** Server: `m_peers` and the user pointers are
inverse, ids are never shared or passed on, everybody who is gone is removed.
Client: pointers agree with the state, a dead connection is noticed, calls
return. Lobby: the table holds what each player asked for, every client shows
the latest table in the end, nobody starts a game on an older table.
Matchmaking: nobody is queued twice, queued without being there, or left
waiting for nothing. Chat: one order of messages for everybody, histories that
are its end, no text under another player's id. The syncs: whoever was told of
a value is not left with an older one. RPC: a call is run and answered
once, and the answer comes home or goes nowhere. Snapshot: a client shows
states of the game, never goes back, and is not left without the last one sent
to it. Hosts: no loop services a host that does not exist, no host is left
behind. Packets: what is read is what was
written. Logger: the last entries, exactly. The full list of hazards is in `PROJECT.json`.

## 2. Modules

    Roster <---- refines ---- Session <---- Lobby                        (MCLobby)
                               ^ ^ ^------- Matchmaking                  (MCMatchmaking)
                               | | |------- Chat                         (MCChat)
                   SessionProofs |
                       MCSession |--------- Tracking <-- VariableSync    (MCVariableSync)
                                 |                  ^--- TransformSync   (MCTransformSync)
                                 +--- Callbacks <-- RPC <------- Services (MCServices)
                                              ^---- Snapshot <---+
                      Replica <----- refines ----------+

    HostLife (MCHostLife) <---- HostLifeProofs
    Framing (MCFraming), Logger <---- BufferProofs

    SessionProofs <---- LobbyProofs, MatchmakingProofs, ChatProofs,
                        ServicesProofs, SyncProofs (both syncs)

**Session** models `Core/Server.h`, `Core/Client.h` and the part of ENet they
rely on. One server, a set `Clients` of client objects, a set `Slots` of ENet
peers of the server's host. State: `srvHost`, `nextID`, `peers` are the
server's members; `cHost`, `cPeer`, `cState` a client's; `cCall` is the
blocking call a client's thread is in; `pstate`, `data`, `link`, `up`, `down`
belong to ENet. Each event of a `poll()` loop is one action that includes the
removal of the event and the update of the members; a call of the application
(`Kick`, `ServerSend`, `ClientSend`, `ServerClose`, ...) is an action; a
blocking call is two, its begin and its end, with anything in between. ENet is
external: a handshake is `free -> pending -> acknowledged -> connected`, where
the client's CONNECT event sends the acknowledgement and the server's takes
it; reliable packets of one connection arrive in order or die with the
connection; unreliable ones may vanish on the way. One thing is assumed of the
application here: it calls `connect()` on a client that has no peer and is in no
call (`MayConnect`). The code does not ask, so `Session` says nothing of other
orders of these calls; `HostLife`, which drops the assumption, does.

An action that runs a callback leaves the queue the callback may append to
open (the header of the module lists which). `Session!Next` closes them with
`UNCHANGED`; the services conjoin the body of their callbacks, so that an event
and its callback stay one step as in the code.

**Roster** is what the server promises about its players, without peers or
packets: an identity is announced once, is present for one stretch, and never
returns. `Session` implements it with `born <- 1 .. nextID - 1` and
`live <- Known` (the keys of `m_peers`).

**Lobby** models `Lobby/Lobby.h`. `players` and `view` are the two
`m_players`. The callbacks of the constructor are `PlayerConnects`,
`PlayerLeaves`, `PlayerReady`, `PlayerJoins`, each with its
`broadcastState()`; `PlayerReady` also runs `checkAllReady()`, whose callback
starts the game or not. The payload of a STATE is the whole table, the name of
a player a model value. `HostMayStart` says whether the application also calls
`startGame()` by itself. `asked` and `closedAt` are history variables.

**Matchmaking** models `Lobby/Matchmaking.h`. `queue`, `perMatch` and
`inQueue` are the members. `ReceiveJoin` includes `tryCreateMatch()`, the
removal of the matched and the `send()` to each of them, which reaches only a
peer ENet still sends to. `SetPlayersPerMatch` changes the size under a queue
that may be long enough already. `asked`, `crossed` and `closedAt` are history
variables; `crossed` tells that a FOUND of an earlier match met a client that
had asked to wait again.

**Chat** models `Lobby/Chat.h`. `history` is the server's `m_history` with the
id of each sender, `heard` the one of each client, which the code keeps without
ids. `OnReceive` stores, trims and relays in one step; `SendAs` stores and
relays but does not trim, as in the code. A message is the name it is sent under
and its number among those of its sender, of which there are `TextLimit[name]`;
`written`, `said` and `joined` are history variables.

**Tracking** is what the two syncs share: the server's entries (`last` is
`lastValue` or `lastPos`/`lastRot`), the application's variables behind the
pointers (`value`), and what each client's application was told (`shown`).
`SendReports` is the loop of `update()`, with the entries in any order because
the code walks an `unordered_map`. **VariableSync** adds the reliable broadcast
and the handlers of each client; **TransformSync** the unreliable one, where
any packet may vanish for any client, and its single callback; each
gives `SendReports` the packets that reach a client. The history
variable `heard` holds the pairs (client, key) whose last report was handed to
that client and is of use to it; it is emptied when the client connects anew or
restarts and when the key is tracked or untracked.

**Callbacks** models the one `onReceive` slot of a server and of each client:
`Construct` overwrites it, which silences the service that had it and starts
with empty handlers, `Register` is `on()` or `onReceive()` of a service. Any
service other than the two below is "other": it holds a slot and ignores the
packets.

**RPC** models `Sync/RPC.h` with an application that uses it: a client calls,
the server's handler answers with a call of the same name at once (`Handle`) or
notes the id and answers from the main loop (`AnswerLate`), and `CallAll` goes
to everybody. Arguments are which call it is. `owed` is the application's list;
`made`, `since` (the calls made before the present connection) and `settled`
are history variables.

**Snapshot** models `Sync/Snapshot.h`. The state of the game is a number that
grows (`Advance`); `SendTo`, `BroadcastSnapshot` and `Welcome` (the callback of
a new player that sends him the state) read it when they are called. `due` is a
history variable: the snapshot a client that has the callback was last sent.

**Services** composes the two on one server: one client's slot may change
hands between them at any time, their packets share the queues.

**Replica** is what snapshots promise, without connections: every node shows a
state the game was in and moves only forward. `Snapshot` implements it with the
variables of the same names.

**HostLife** models the life of the ENet hosts of one process, through
`start`, `close`, `connect`, `disconnect`, the destructors and both `poll`s.
Sessions and packets are left out: ENet may offer any event at any time. What
is kept is which hosts exist (`alive`), where `m_host`, the peers of `m_peers`
and `m_peer` lead, and the thread's `stack` of loops and callbacks, since a
callback may call everything the main loop may except `poll()`: that the
application polls from its main loop only is assumed here. `upsets` is a history variable:
what happened of the things the code is not prepared for. `inits` counts
`enet_initialize` against `enet_deinitialize`.

**Framing** models `Core/Packet.h`, `Core/Serialization.h` and the layout of
the packets of `Sync/RPC.h`. A byte is symbolic (which value, how wide, which
of its bytes), so a value read at the wrong place or width is `Garbage`. Both
writers of strings are there: `Packet::write`, which cuts the text to the
length it writes, and the loops of the services, which do not. `fields` is what
the application wrote and nothing else. `Call` puts it with a header of its own
into the packet of a call, behind the name; its handler reads the header first
(it is aware of it) or starts with its arguments. `envelope` says which of what
`call()` put in front the reader knows of, and `Sent` is both.

**Logger** models `Tools/Logger.h`: the entries, the level, and `kept`, the
history of all that passed the level since the log was cleared. Levels are
numbers in the order of the enumeration. What is to be said of it is one
statement about one function, and it is proved for every capacity, so there is
no run.

An operator whose name ends in `_Fault` is not part of a specification: it is
the operator it precedes with a plausible mistake in it, and it is there to
show that a property would notice the mistake (see `mutants` in
`PROJECT.json`).

## 3. Runs

| run | instance | what it shows |
|---|---|---|
| Session | 2 clients, 2 peers, 3 connections, 1 packet per direction, fairness | `PeersMatchSlots`, `LinksAgree`, `IdentityStable` hold; the server implements `Roster`; `NoPhantomClient`, `NoPhantomPlayer` |
| LobbySafety | 2 clients, 2 peers, 2 connections, 2 STATEs (and a START) in flight to each client, 1 request from each | `LatestStateOnTheWire`, `StartSeenAllReady`, `ConnectedArePlayers`, `GhostsPredateClose`, `RequestsAreOwn` |
| LobbyLiveness | 1 client, 1 peer, 2 connections, 2 requests in flight, names, games started by the host, fairness | `ViewsConverge` |
| MatchSafety | 2 clients, 2 peers, 2 connections, 2 packets per direction, sizes 1, 2, 3 | `NobodyTwice`, `WaitingPredateClose`, `NobodyForgotten`, `OutMeansOut` |
| MatchLiveness | the same with 1 packet per direction and size 2, fairness | `WaitingGetMatched` |
| VariableSync | 1 client, 1 peer, 2 connections, 2 variables of 2 values, 1 update in flight, fairness | `ToldAreInStep`, `ToldConverge` |
| TransformLost | 1 client, 2 objects of 3 places, packets lost at will | *violated*: `RestIsSeen` |
| ChatRoom | 2 clients, 2 peers, 2 connections, 2 messages from one client, 1 from the other and 1 from the server, histories of 2, 2 packets per direction | `AllHearTheSame`, `NobodyHearsTwice`, `HistoryIsEnd`, `SaidAsWritten` |
| Services | 2 clients for 1 peer, 2 connections, 1 call, 2 states of the game, 1 packet per direction | `AnswersComeHome`, `CallsKept`, `SnapshotsKept`; snapshots implement `Replica` |
| HostLife | a server and 2 clients in one process, 4 hosts created, calls nested as deep as these allow | `ServicesExist`, `PointersLive`, `StateTells`, `InitialisedWhileUsed`, `NothingLeftBehind` |
| FramingRead | up to 2 values of every type in a packet or in a call, strings of up to 3 characters where a length counts to 1 | `ReadsBack` |
| CallArguments | the same with strings of up to 2 characters, all of which a length counts | *violated*: `ReadAsWritten` |

Session, LobbySafety, MatchSafety, Services and HostLife also check the type invariant of their modules.

**Bounds.** `IdLimit - 1` connections are accepted in a behaviour, `UpCap` and
`DownCap` bound the packets in flight when another one is sent (one broadcast
or update may add two), `IdSpan` is the width of a ClientID. Every run over
`Session` has at least two connections, except `TransformLost`, which needs
one: a slot is reused, an id is succeeded, and a client meets packets of the
connection before. Two clients are enough for every race here because the
server treats players pairwise (one against the one who had the slot, one
against the one who is matched with him); the syncs treat clients one by one,
so there one client is enough and two keys make the race. Restarts of the
server, kicks, crashes and reconnects are not bounded. Where two clients with
every bound at two would be too many states the question is split:
`LobbySafety` keeps the two clients, without names and without a host who
starts games, `LobbyLiveness` has both and two requests in flight, for one
client. `MatchSafety` starts with matches of two (the member's initial value)
and changes to one or three, so a queue is found too long and too short. In
`ChatRoom` histories of two messages hold an order, and are cut by the third of
four; the client with two messages may say them on one connection or on two,
and the announcement comes before, between and after. The two clients are not
alike there, so only the peers are permuted. In `Services`
the interesting other client is the one that gets the caller's peer and slot on
the server, so there is one peer, one client calls and looks, and the second
one only takes its place; one call is enough, since the answer to it can be
given before or after a reconnect, a restart, or the other client's arrival; two
states make an older and a newer snapshot. In `HostLife` the four hosts allow
the server to be started twice, or a client to be connected twice, next to
hosts of the other two, and calls nested four deep. `LenSpan`
stands for the 2^16 values of a length: with `LenSpan = 2` and strings of up to
three characters `FramingRead` has the ones whose length is cut to zero and to
less than they have; `FieldLimit = 2` is enough because a
value that takes too many or too few bytes spoils the next one. `TextLimit`,
`CallLimit`, `StateLimit`, `HostLimit` and `FieldLimit` bound what is written,
called, gone through and created.

`HostLife` is checked without TLC's deadlock check: a loop that services a null
or destroyed host is the end of the process, and no step leads on from there.
`ServicesExist` says when that can happen. `FramingRead` and `CallArguments` are
checked without it too: a reader that has thrown reads no further.

**Fairness.** `RaylibBackend::run` and the loops of the framework's README
call `poll()` in every frame, so what ENet keeps offering is taken: weak
fairness of the CONNECT and RECEIVE events of a slot, of the DISCONNECT of a
peer whose other end is gone or who was kicked, and of a client's receives.
`update()` of a sync is called in the same loop and is fair as well.
`connect()` and `disconnect()` wait with timeouts (`timeoutMs`, 3000 ms), so
they end; this too is assumed as fairness. No fairness is assumed of
applications (send, write, track, kick, close, connect, leave), of failures, or
of crashes.

**What the violated runs show.** *TransformLost*: `update()` remembers a
transform as sent when it hands an unreliable packet to ENet. If the last
packet of a movement is lost, nothing sends it again and the object never comes
to rest where it is. *CallArguments*: the caller of a function writes its
arguments, and the handler that reads the same types in the same order gets the
id and the size of a packet header in the place of the first ones (a `Vector2`
comes out as half a header), or an exception. The framework's README says that
values are read "in the same order you wrote them" (`README.md:59`) and that
calls are like those of local functions (`README.md:276`); nothing in it says
that a handler has to read a `PacketHeader` first.

**Known limits of the code, described and not run.** They follow from single
lines; the properties that are checked are worded around them.

- `Server.h:55`: `m_nextID++` wraps after 2^32 connections and never looks
  whether an id is in use. The proofs about identity assume `NoWrap`.
- `Server.h:43`: `close()` fires no `onDisconnect`, so the lobby and the queue
  keep everybody and show them after a restart. `GhostsPredateClose` and
  `WaitingPredateClose` show that this is the only way to a ghost.
- `Server.h:59`, `Client.h:75`: `poll()` does not look at `m_host` again after a
  callback. A callback that ends the object leaves the loop with a null host
  (`endedInPoll`); `connect()` from `onDisconnect` does when no host is to be
  had (`noHostInPoll`), and otherwise the loop goes on with the new one.
- `Server.h:26`, `Client.h:23`: a second `start()` or `connect()` overwrites
  `m_host` (`startedTwice`, `connectedTwice`): the old host stays, and when the
  new one cannot be created `isRunning()` is true without a host, which
  `broadcast()` does not test, or `disconnect()` services null.
- `Client.h:49`: `disconnect()` returns early when the state is Disconnected
  already, so a client that lost its server, or whose connection was refused,
  leaves its host behind when it connects again.
- `Server.h:120`, `Client.h:115`: a service that takes a callback slot silences
  the one that had it: a chat made after a lobby gets the lobby's packets, and
  drops them.
- `Server.h:105`: `broadcast()` hands `m_host` to ENet without a look at it, on
  a server that was never started, was closed, or has lost its host as above.
  The models broadcast when there is a host (`srvHost` in `ServerBroadcast`,
  `SendReports`, `SendAs` and the others).
- `RPC.h:109`: `call()` puts `args.serialize()`, header included, into the
  packet of the call. That is the run *CallArguments*; `ReadsBack` is about
  packets that are sent and handlers that read a `PacketHeader` first.
- `Matchmaking.h:95-99`: `m_inQueue` survives a lost connection, and
  `joinQueue()` sets it even when there is no connection to send the JOIN on.
  Such a client waits for ever, and `joinQueue()` does nothing until it calls
  `leaveQueue()`. `NobodyForgotten` and `WaitingGetMatched` are about clients
  that asked on the connection they have (`asked`).
- `Matchmaking.h:56`: a match is formed when a JOIN arrives and at no other
  time. If the size is lowered while enough players wait, they wait for the next
  JOIN; `WaitingGetMatched` is checked with a size that stays.
- `Matchmaking.h:66`: a queued player who was kicked is matched until ENet
  reports the disconnect, and one of the time before a restart for ever;
  `send()` drops the packet and the others are told of a match without him.
- `Matchmaking.h:86`: a FOUND that crosses LEAVE and a second JOIN makes the
  client believe it is out of the queue it is in, and `leaveQueue()` then does
  nothing. It is the one exception `OutMeansOut` makes.
- `Lobby.h:46`: when the last player who is not ready leaves, all are ready and
  nobody checks.
- `VariableSync.h:48`: a client that connects after a variable was broadcast is
  not told its value until it changes again; `ToldAreInStep` is about those who
  were told.
- `VariableSync.h:36`: an entry starts with zeros. A key that is tracked anew
  while its variable is zero is not sent, and clients keep the value they had.
- `Packet.h:40`: a length is cast to 16 bits. `write(std::string)` cuts the
  text alike, so a string of 65536 characters is read as an empty one and what
  follows is read well (`Kept` in `ReadsBack`). The services write names and
  messages themselves, the whole text behind the cut length (`Chat.h:52-57`,
  `RPC.h:105-107`, ...): there the text is read as if it were what follows, which
  `ReadsBack` leaves out (`Straight`).

## 4. Proofs

Every safety invariant and action property that a passing run checks is also a
theorem, and so is `KeepsTheLast` of the logger, which no run checks. A theorem holds for every value of the constants: any clients, slots,
payloads, keys, names, match sizes and history sizes, any width of ClientID, any
bounds, calls nested to any depth, packets of any number of values.

| module | theorem | says | under |
|---|---|---|---|
| `SessionProofs` | `TypeCorrect` | `Spec => []TypeOK` | |
| | `LinksCorrect` | `Spec => []LinksAgree` | |
| | `PeersCorrect`, `IdentityCorrect` | `Spec => []PeersMatchSlots`, `IdentityStable` | `NoWrap` |
| | `RosterCorrect` | `Spec => ImplementsRoster` | `NoWrap` |
| `LobbyProofs` | `LobbyTypesCorrect`, `ConnectedCorrect` | `LobbySpec => []LobbyTypeOK`, `[]ConnectedArePlayers` | |
| | `LatestCorrect`, `StartCorrect` | `LobbySpec => []LatestStateOnTheWire`, `[]StartSeenAllReady` | |
| | `GhostsCorrect`, `RequestsCorrect` | `LobbySpec => []GhostsPredateClose`, `[]RequestsAreOwn` | `NoWrap` |
| `MatchmakingProofs` | `MMTypesCorrect`, `NobodyTwiceCorrect` | `MMSpec => []MMTypeOK`, `[]NobodyTwice` | |
| | `WaitingCorrect`, `RememberedCorrect`, `OutCorrect` | `MMSpec => []WaitingPredateClose`, `[]NobodyForgotten`, `[]OutMeansOut` | `NoWrap` |
| `ChatProofs` | `HistoryCorrect`, `HeardCorrect`, `OnceCorrect` | `ChatSpec => []HistoryIsEnd`, `[]AllHearTheSame`, `[]NobodyHearsTwice` | |
| | `SaidCorrect` | `ChatSpec => []SaidAsWritten` | `NoWrap` |
| `SyncProofs` | `ToldCorrect` | `VarSpec => []ToldAreInStep` | |
| | `ReachedCorrect` | `TransformSpec => []ToldAreInStep` | |
| `ServicesProofs` | `ServicesTypesCorrect`, `SnapshotsCorrect` | `ServicesSpec => []ServicesTypeOK`, `[]SnapshotsKept` | |
| | `ReplicaCorrect` | `ServicesSpec => ImplementsReplica` | |
| | `AnswersCorrect`, `CallsCorrect` | `ServicesSpec => []AnswersComeHome`, `[]CallsKept` | `NoWrap` |
| `HostLifeProofs` | `HostTypesCorrect`, `HostPointersCorrect`, `HostStatesCorrect`, `HostsCorrect` | `HostSpec => []HostTypeOK`, `[]PointersLive`, `[]StateTells`, `[]ServicesExist` | |
| | `LibraryCorrect`, `NothingLeft` | `HostSpec => []InitialisedWhileUsed`, `[]NothingLeftBehind` | |
| `BufferProofs` | `LogCorrect` | `LogSpec => []KeepsTheLast` | a capacity that is not 0 |
| | `ReadBackCorrect` | `FramingSpec => []ReadsBack` | |

All of them rest on the named assumptions of the modules they are about, which
say what kind of thing a constant is. `NoWrap` says that fewer connections are
accepted than a ClientID can number. It cannot be dropped: see the first of the
known limits. That a theorem does without it means something: what a lobby, a
chat or a sync sends is seen in order even if two players share an id.

*Session.* `LinksAgree` is not inductive, nor with what `SessionProofs` says of
a client's pointers and its state (`ClientPointersAgree`, which takes the
assumption on `connect()`, and is a lemma and not a claim about the code): when
ENet attaches a client (`Accept`) one must know that a client inside `connect()` has
a peer, and when `connect()` succeeds that its slot is one that is pending.
`Waiting` says so, and `LinkInv` with it is inductive. `PeersMatchSlots` needs
that the next id is not in use: `Fresh` bounds every id in `m_peers` by
`m_nextID`, and below the bound `m_nextID++` does not wrap (`NextIDGrows`). Only
`ServerClose`, `ServerConnect` and `ServerDisconnect` change `m_peers`;
`QuietMatch` shows that every other step leaves it and the held slots alone,
which takes `Waiting` again. From the invariant, `KnownSteps` reduces every step
to one of four changes of `m_peers` and `m_nextID`; identity and refinement
follow by cases.

*From Session to the services.* The lemmas of `SessionProofs` are about a
`SessionStep`: a step of `Next` with the application's part left open (what the
callbacks queue, and every call that only sends). Each service starts with a
lemma that its steps are such steps (`LobbyIsSession`, `MMIsSession`,
`ChatIsSession`, `CommonIsSession`, `ServicesIsSession`), and so inherits `LinkInv`
and `MatchInv`. What services need of a connection is said once: how it comes
about and no other way (`HandshakeStep`, `StandsStep`, `ConnectAlone`), who is
reached after a step was reached before it (`ReachedStep`), packets on their way
are lost only with the connection (`KeptDown`, `PeerLost`), a new connection
gets an empty queue (`AcceptStep`), two clients have different peers and ids
(`Apart`), and how the players change (`KnownWith`, `KnownStays`, `KnownLed`).
`EndsAs` (in `Session`) says what a receiver ends with that takes its queue
packet by packet; `EndsAsAppend`, `EndsAsTail` and `EndsAsConcat` say what
sending and taking do to it. The theorems about the latest table, snapshot or
variable, and about what a player asked for, are all about an `EndsAs`.

*Lobby.* `PresentStep` gives every change of the table's players; with
`m_nextID` as a bound on those left behind (`GhostsInv`) the two invariants
about players follow. `LatestStep` goes through all that sends: every change of
the table puts a STATE behind whatever is in the queues, and a START changes no
table. `StartSeenAllReady` is not inductive, since a
START may have any number of packets before it; `Announced` says that the packet
right before it is a table of ready players, or the client shows one already.
`RequestsAreOwn` needs to know whose packets a slot's queue holds when a
connection comes about: none, because the queue of a pending slot is empty
(`OwnInv`).

*Sequences.* Something is removed from the middle of a queue, and packets are
lost out of a broadcast: `PickedIs` says what is left when only some places are
kept, for sequences of any length. It counts positions (`Rank`, `Nth`), and gets
the induction it needs from the least-number principle (`Least`), which the
library states without an operator as a parameter.

*Matchmaking.* `WithoutIs` says what `std::remove` leaves. For `NobodyForgotten` and `OutMeansOut`, `WaitInv` follows the
requests of a client in order. One that waits has a JOIN on its way, a place in
the queue or a FOUND coming, and behind every LEAVE on its way there is a JOIN
(`Remembered`); for one that is out it is the other way round (`LeftAlone`).
`Followed` is that order of two requests.

*Chat.* `EndInv` counts from the end (`EndOf`), so that a message appended to
both sequences and one trimmed from the front keep it; `SuffixIs` ties it to
`IsSuffix`. `HearInv` says the same of what a client has heard and has on its
way, up to the number due to it since it joined. `SaidInv` adds to
`SaidAsWritten` that what waits on one peer is in the order it was written, and
later than all that was said under the peer's id (`Stream`), that it is from the
client attached (`Author`), and that no id was used before it was given out
(`Signed`). `OnceInv` follows single messages: the next one of a sender is
nowhere yet (`NextIsNew`), one that waits on a peer waits there once and was not
said (`UpOnce`), and what a client was told is among what was said, once each
(`Told`).

*The syncs.* What the two share is proved once, of the operators of `Tracking`.
`ReportsAre` is about `update()`: there are finitely many entries, so a packet
for each of them in some order (`SetToSeqs`) is exactly one packet for each
changed key (`ListedAll`, by the library's facts about injections). `Conveys`
says what arrives of them: at most one report of a changed key, and one of each
key a client is told of. It is all a broadcast has to be for `SendFollows`,
whether everything arrives (`UpdateConveys`) or some packets are lost
(`TransformConveys`, by `PickedIs`). `FollowInv` extends the property from
clients that are reached to those whose handshake is complete: nobody is told
anything before the server takes the connection, so whoever was told is reached
until the connection ends. `VariableSync` adds that nobody is told of a variable
without a handler for it (`HandlersInv`). For transforms the theorem is the
positive side of *TransformLost*: what can go wrong is that the last packet is
lost, never that an older place comes last or that objects are mixed up.

*Services.* Replica: `OrderInv` says that the states shown and on their way to a
client rise up to the current one. Snapshots: `DueInv` says that something is
due only to a client with the callback, and nothing before the server takes the
connection. Answers: `HomeInv` follows a call from the queue of the peer to the
list of answers owed; an id below `m_nextID` never comes to mean another client.
Calls: `KeepInv` counts. The number of times a call is on its way, owed, and its
answer on the way or received adds up to one while the connection stands;
`Times` counts in a queue, `FromItsPeer` and `AllPast` say where the call may be
at all.

*HostLife.* `HostInv` is the conjunction of the types, `PointersLive`,
`StateTells` and what they need. `Apart`: no two objects lead to one host, so
the host that one destroys is behind no pointer of another. `WaitsOnTop`:
`connect()` and `disconnect()` run no callback while they wait, so nothing is
called from there and the host they wait on is not exchanged. `TopInv`: what
the wait on top relies on (a peer of the object's own host; a state that is not
Disconnected). `PollInv`: an object that is polled, at any depth, has a host
unless `endedInPoll` or `noHostInPoll` happened; this is what a callback must
preserve and why those two have names. `HostsHavePeers` says that in the
prepared-for cases a client without a peer has no host, which is why
`connect()` then forgets none. The stack is treated once and for all in
`EnterStack`, `ReturnStack` and `BecomesStack`; then there is one lemma for
each operation. `LibraryCorrect` counts hosts against initialisations with the
library's facts on cardinality.

*Logger.* `KeepsTheLast` with the types is inductive. `StoreKeeps` is its
heart: with a full log the tail and the new entry are the last `Cap` of one more
message, otherwise the log and the history are the same sequence.

*Framing.* What a reader can get is `Wire`: `Sent`, with every string as far as
its length says, and a cut string has the bytes of the whole one (`KeptIs`).
What a packet holds is a fold over it, and what is read
is a recursion over its bytes; neither is followed. `FrameInv` says instead that
there is a function `at` from these values to the places of their bytes,
with `at[1] = 0`, each place one image further than the one before, and the last
one the end of the packet (`Layout`), and that the reader stands at one of these
places with all values before it read (`Cursor`). `FrameWrite` extends the
function by a place, `FrameCall` puts two places in front and moves the others
if the handler reads the header (if not the packet is not `Straight`),
`FrameRead` goes from one to the next. The rest is about single values, wherever
their bytes are (`Holds`): a number, a string, and each of the six raylib types
is read from its own image and takes exactly its length (`FieldReads`). The
members are read in the written order, which is what `StructReads` needs of the
two orders in the code. `DeserializeIsInverse` is the header of a packet: the
size in it cuts out what was serialized.

*Model-checked only.* The liveness properties `NoPhantomClient`,
`NoPhantomPlayer`, `ViewsConverge`, `WaitingGetMatched` and `ToldConverge`:
fairness and ENABLED are out of the prover's reach. `ReachedCorrect` is the only
theorem that no run repeats on an instance of its own; `VariableSync` is the run
of the same property.

## 5. Not modelled, and the plan

Not modelled: packets that do not come from `serialize()`, and with them what
`Packet`'s constructor throws; the wire format of ENet, channels and bandwidth (one channel is
used), console output and time stamps, names as text, `maxPlayers` (nothing
enforces it), the overload that `write("literal")` takes, the numbers of
milliseconds of the timeouts, the window and the frame rate of
`RaylibBackend`, the constants of `Types.h` that no module needs. `main.cpp`
and the empty headers have no behaviour of the framework.

Several services on one server are modelled where they can be told apart by
what they do with packets (`Services`); two of them that fight for `onConnect`
or `onDisconnect` are not, since the loser simply hears nothing.

The plan is carried out: all modules (Session, Roster, Lobby, Matchmaking,
Tracking and its two syncs, Chat, Callbacks, RPC, Snapshot, Services, Replica,
HostLife, Framing, Logger), and theorems for every safety invariant and action
property of the passing runs. What would be next is a server with several
services that share `onConnect` and `onDisconnect`, and the pointers of the
syncs with the lifetime of what they point to.
