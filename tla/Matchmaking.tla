----------------------------- MODULE Matchmaking -----------------------------
(***************************************************************************)
(* Lobby/Matchmaking.h: one ServerMatchmaking on the server of Session,    *)
(* one ClientMatchmaking on each client.  The server keeps a queue of ids, *)
(* each client a flag that it waits; the two are tied by three kinds of    *)
(* packet, by disconnect events, and by nothing else.                      *)
(***************************************************************************)
EXTENDS Session, SequencesExt

CONSTANT MatchSizes     \* what the application passes to setPlayersPerMatch()

ASSUME MatchAssumption == MatchSizes \subseteq Nat

MMToServer == {"JOIN", "LEAVE"}
MMToClient == {"FOUND"}

ASSUME MMPayloadAssumption == MMToServer \subseteq ToServer /\ MMToClient \subseteq ToClient

VARIABLES
    perMatch,   \* ServerMatchmaking::m_playersPerMatch
    queue,      \* ServerMatchmaking::m_queue
    inQueue,    \* ClientMatchmaking::m_inQueue of each client
    asked,      \* history: inQueue was set by a JOIN sent on this connection
    crossed,    \* history: on this connection a FOUND met a later JOIN
    closedAt    \* history: m_nextID when the server was last closed on a queue

mmLocal == <<perMatch, queue, inQueue, asked, crossed, closedAt>>
mmVars == <<sessionVars, mmLocal>>

MMInit ==
    /\ Init
    /\ perMatch = 2
    /\ queue = <<>>
    /\ inQueue = [c \in Clients |-> FALSE]
    /\ asked = [c \in Clients |-> FALSE]
    /\ crossed = [c \in Clients |-> FALSE]
    /\ closedAt = 0

-----------------------------------------------------------------------------
(* ServerMatchmaking.                                                      *)

(* setPlayersPerMatch(): a queue that is long enough now is left as it is. *)
SetPlayersPerMatch(n) ==
    /\ perMatch' = n
    /\ UNCHANGED <<sessionVars, queue, inQueue, asked, crossed, closedAt>>

(* std::remove and erase: what is left closes up and keeps its order.      *)
Without(q, i) == Picked(q, {k \in DOMAIN q : q[k] # i})

TryCreateMatch_Fault(q) ==  \* nobody is told
    /\ queue' = IF Len(q) < perMatch THEN q ELSE SubSeq(q, perMatch + 1, Len(q))
    /\ UNCHANGED down

(* tryCreateMatch(): the longest waiting players are taken out and told,   *)
(* as far as ENet still sends to them.                                     *)
TryCreateMatch(q) ==
    IF Len(q) < perMatch
    THEN queue' = q /\ UNCHANGED down
    ELSE LET matched == ToSet(SubSeq(q, 1, perMatch))
             told == {c \in Reached(pstate, link) :
                         \E i \in matched \cap Known : link[c] = peers[i]}
         IN  /\ queue' = SubSeq(q, perMatch + 1, Len(q))
             /\ down' = AppendTo(down, told, "FOUND")

ReceiveJoin_Fault(s) ==  \* no test for an id that is queued already
    /\ ServerReceive(s)
    /\ Head(up[s]) = "JOIN"
    /\ RoomDown
    /\ TryCreateMatch(Append(queue, data[s]))
    /\ UNCHANGED <<perMatch, inQueue, asked, crossed, closedAt>>

(* joinQueue(id).                                                          *)
ReceiveJoin(s) ==
    /\ ServerReceive(s)
    /\ Head(up[s]) = "JOIN"
    /\ RoomDown
    /\ IF Contains(queue, data[s]) THEN UNCHANGED <<queue, down>>
                                   ELSE TryCreateMatch(Append(queue, data[s]))
    /\ UNCHANGED <<perMatch, inQueue, asked, crossed, closedAt>>

ReceiveLeave_Fault(s) ==  \* the ids are compared the wrong way round
    /\ ServerReceive(s)
    /\ Head(up[s]) = "LEAVE"
    /\ queue' = SelectSeq(queue, LAMBDA j : j = data[s])
    /\ UNCHANGED <<down, perMatch, inQueue, asked, crossed, closedAt>>

(* leaveQueue(id), asked for.                                              *)
ReceiveLeave(s) ==
    /\ ServerReceive(s)
    /\ Head(up[s]) = "LEAVE"
    /\ queue' = Without(queue, data[s])
    /\ UNCHANGED <<down, perMatch, inQueue, asked, crossed, closedAt>>

QueuedLeaves_Fault(s) ==  \* onDisconnect belongs to another service
    /\ ServerDisconnect(s)
    /\ UNCHANGED <<down, mmLocal>>

(* leaveQueue(id), from onDisconnect.                                      *)
QueuedLeaves(s) ==
    /\ ServerDisconnect(s)
    /\ queue' = Without(queue, data[s])
    /\ UNCHANGED <<down, perMatch, inQueue, asked, crossed, closedAt>>

(* No onConnect callback is installed.                                     *)
Arrives(s) == ServerConnect(s) /\ UNCHANGED <<down, mmLocal>>

MMKick(i) == Kick(i) /\ UNCHANGED <<down, mmLocal>>

(* Server::close() tells matchmaking nothing.                              *)
MMServerClose ==
    /\ ServerClose
    /\ closedAt' = IF queue = <<>> THEN closedAt ELSE nextID
    /\ UNCHANGED <<perMatch, queue, inQueue, asked, crossed>>

-----------------------------------------------------------------------------
(* ClientMatchmaking.                                                      *)

Connected(c) ==
    /\ ConnectSucceeds(c) /\ UNCHANGED up
    /\ asked' = [asked EXCEPT ![c] = FALSE]
    /\ crossed' = [crossed EXCEPT ![c] = FALSE]
    /\ UNCHANGED <<perMatch, queue, inQueue, closedAt>>

(* joinQueue(): the flag is set whether or not there is a peer to send to. *)
JoinQueue(c) ==
    /\ ~inQueue[c]
    /\ inQueue' = [inQueue EXCEPT ![c] = TRUE]
    /\ \/ /\ ClientSend(c, "JOIN", "Reliable")
          /\ asked' = [asked EXCEPT ![c] = TRUE]
          /\ crossed' = [crossed EXCEPT ![c] = FALSE]
       \/ cCall[c] = "none" /\ ~cPeer[c] /\ UNCHANGED <<sessionVars, asked, crossed>>
    /\ UNCHANGED <<perMatch, queue, closedAt>>

LeaveQueue_Fault(c) ==  \* the flag is left as it was
    /\ inQueue[c]
    /\ \/ ClientSend(c, "LEAVE", "Reliable")
       \/ cCall[c] = "none" /\ ~cPeer[c] /\ UNCHANGED sessionVars
    /\ UNCHANGED mmLocal

(* leaveQueue().                                                           *)
LeaveQueue(c) ==
    /\ inQueue[c]
    /\ inQueue' = [inQueue EXCEPT ![c] = FALSE]
    /\ \/ ClientSend(c, "LEAVE", "Reliable")
       \/ cCall[c] = "none" /\ ~cPeer[c] /\ UNCHANGED sessionVars
    /\ UNCHANGED <<perMatch, queue, asked, crossed, closedAt>>

(* It has asked to wait again since the match it is told of now.           *)
AskedAgain(c) == \E s \in Slots : link[c] = s /\ (Contains(up[s], "JOIN") \/ Contains(queue, data[s]))

(* PKT_MM_FOUND: onMatchFound runs.                                        *)
ReceiveFound(c) ==
    /\ ClientReceive(c) /\ UNCHANGED up
    /\ inQueue' = [inQueue EXCEPT ![c] = FALSE]
    /\ crossed' = [crossed EXCEPT ![c] = @ \/ AskedAgain(c)]
    /\ UNCHANGED <<perMatch, queue, asked, closedAt>>

LosesServer(c) == ClientDisconnect(c) /\ UNCHANGED mmLocal

ClientRestarts(c) ==
    /\ Crash(c)
    /\ inQueue' = [inQueue EXCEPT ![c] = FALSE]
    /\ asked' = [asked EXCEPT ![c] = FALSE]
    /\ crossed' = [crossed EXCEPT ![c] = FALSE]
    /\ UNCHANGED <<perMatch, queue, closedAt>>

-----------------------------------------------------------------------------
MMNext ==
    \/ Background /\ UNCHANGED mmLocal
    \/ MMServerClose
    \/ \E n \in MatchSizes : SetPlayersPerMatch(n)
    \/ \E i \in ClientID : MMKick(i)
    \/ \E s \in Slots : Arrives(s) \/ ReceiveJoin(s) \/ ReceiveLeave(s) \/ QueuedLeaves(s)
    \/ \E c \in Clients :
          \/ Connected(c) \/ JoinQueue(c) \/ LeaveQueue(c) \/ ReceiveFound(c)
          \/ LosesServer(c) \/ ClientRestarts(c)

MMSpec == MMInit /\ [][MMNext]_mmVars

(* Both sides poll every frame (see Session).                              *)
MMCallReturns(c) ==
    \/ Connected(c)
    \/ /\ ConnectFails(c) \/ DisconnectEnd(c)
       /\ UNCHANGED mmLocal

MMFairness ==
    /\ \A s \in Slots :
          /\ WF_mmVars(Arrives(s) \/ ReceiveJoin(s) \/ ReceiveLeave(s))
          /\ WF_mmVars(Gone(s) /\ QueuedLeaves(s))
    /\ \A c \in Clients :
          /\ WF_mmVars(ReceiveFound(c))
          /\ WF_mmVars(MMCallReturns(c))

MMFairSpec == MMSpec /\ MMFairness

-----------------------------------------------------------------------------
(* Properties.                                                             *)

(* Types of the queue, the flags and the packets in flight.                *)
MMTypeOK ==
    /\ SessionTypeOK
    /\ up \in [Slots -> Seq(MMToServer)]
    /\ down \in [Clients -> Seq(MMToClient)]
    /\ perMatch \in Nat
    /\ queue \in Seq(ClientID)
    /\ inQueue \in [Clients -> BOOLEAN]
    /\ asked \in [Clients -> BOOLEAN]
    /\ crossed \in [Clients -> BOOLEAN]
    /\ closedAt \in ClientID

(* Nobody waits twice, so nobody is matched with himself, however often    *)
(* JOIN arrives.                                                           *)
NobodyTwice == IsInjective(queue)

(* Whoever waits is a player of the server, except for those it was closed *)
(* on: no order of kicks, losses and reconnects queues anybody else.       *)
WaitingPredateClose == \A i \in ToSet(queue) \ Known : i < closedAt

(* A client that waits, having asked on the connection it has, does not    *)
(* wait for nothing: its request is on the way, it is in the queue, or the *)
(* news of its match is on the way.                                        *)
NobodyForgotten ==
    \A c \in Reached(pstate, link) : inQueue[c] /\ asked[c] =>
        \/ Contains(up[link[c]], "JOIN")
        \/ Contains(queue, data[link[c]])
        \/ Contains(down[c], "FOUND")

(* A client that is out (it left, or it was matched) is not in the queue   *)
(* once the server has its LEAVE, so it is not matched against its will.   *)
(* The one exception: a FOUND from before its last JOIN took it out, and   *)
(* then leaveQueue() of a client the server has queued does nothing.       *)
OutMeansOut ==
    \A c \in Reached(pstate, link) : ~inQueue[c] /\ ~crossed[c] =>
        ~Contains(queue, data[link[c]]) \/ Contains(up[link[c]], "LEAVE")

Waits(c) == c \in Reached(pstate, link) /\ inQueue[c] /\ asked[c]

(* When as many clients wait as the largest match takes, not all of them   *)
(* go on waiting.                                                          *)
WaitingGetMatched ==
    \A S \in SUBSET Clients : (\A n \in MatchSizes \cup {2} : Cardinality(S) >= n) =>
        ((\A c \in S : Waits(c)) ~> (\E c \in S : ~Waits(c)))
=============================================================================
