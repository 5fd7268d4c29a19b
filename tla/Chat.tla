--------------------------------- MODULE Chat ---------------------------------
(***************************************************************************)
(* Lobby/Chat.h: one ServerChat on the server of Session, one ClientChat   *)
(* on each client.  The server relays what it receives to everybody and    *)
(* keeps a history with the id of each sender; a client keeps what it is   *)
(* sent, without ids.  A message is the name it is sent under (the client  *)
(* itself, or Host for sendAs) and a text, the number of the message among *)
(* those of its sender.                                                    *)
(***************************************************************************)
EXTENDS Session, SequencesExt

CONSTANTS
    Host,       \* the name sendAs() is called with
    Cap,        \* messages a history is cut to, 100 in the code
    TextLimit   \* bound: how many messages each sender writes

Senders == Clients \cup {Host}

ASSUME ChatAssumption ==
    Host \notin Clients /\ Cap \in Nat \ {0} /\ TextLimit \in [Senders -> Nat]

VARIABLES
    history,    \* ServerChat::m_history
    heard,      \* ClientChat::m_history of each client
    written,    \* history: messages each sender has written
    said,       \* history: all that was broadcast, in order
    joined      \* history: Len(said) when a client was last taken in

chatLocal == <<history, heard, written, said, joined>>
chatVars == <<sessionVars, chatLocal>>

Message == UNION {[name : {n}, text : 1 .. TextLimit[n]] : n \in Senders}
ChatMessage == [id : ClientID, msg : Message]

ASSUME PayloadAssumption == Message \subseteq ToServer /\ Message \subseteq ToClient

ChatInit ==
    /\ Init
    /\ history = <<>>
    /\ heard = [c \in Clients |-> <<>>]
    /\ written = [n \in Senders |-> 0]
    /\ said = <<>>
    /\ joined = [c \in Clients |-> 0]

-----------------------------------------------------------------------------
Trim_Fault(h) == IF Len(h) > Cap THEN Front(h) ELSE h  \* the newest goes

(* if (m_history.size() > 100) erase(begin())                              *)
Trim(h) == IF Len(h) > Cap THEN Tail(h) ELSE h

NextMessage(n) == [name |-> n, text |-> written[n] + 1]

Relay_Fault(i, m) ==  \* the one who wrote it knows it already
    /\ RoomDown
    /\ down' = AppendTo(down, Reached(pstate, link) \ {m.name}, m)
    /\ said' = Append(said, [id |-> i, msg |-> m])

(* m_server.broadcast(out, Delivery::Reliable)                             *)
Relay(i, m) ==
    /\ RoomDown
    /\ down' = AppendTo(down, Reached(pstate, link), m)
    /\ said' = Append(said, [id |-> i, msg |-> m])

-----------------------------------------------------------------------------
(* ServerChat.                                                             *)

OnReceive(s) ==
    /\ ServerReceive(s)
    /\ history' = Trim(Append(history, [id |-> data[s], msg |-> Head(up[s])]))
    /\ Relay(data[s], Head(up[s]))
    /\ UNCHANGED <<heard, written, joined>>

(* sendAs(): the history is not trimmed.                                   *)
SendAs ==
    /\ srvHost
    /\ written[Host] < TextLimit[Host]
    /\ written' = [written EXCEPT ![Host] = @ + 1]
    /\ history' = Append(history, [id |-> 0, msg |-> NextMessage(Host)])
    /\ Relay(0, NextMessage(Host))
    /\ UNCHANGED <<serverVars, enetVars, up, clientVars, heard, joined>>

Arrives(s) ==
    /\ ServerConnect(s) /\ UNCHANGED down
    /\ joined' = [c \in Clients |-> IF link[c] = s THEN Len(said) ELSE joined[c]]
    /\ UNCHANGED <<history, heard, written, said>>

-----------------------------------------------------------------------------
(* ClientChat.                                                             *)

SendText_Fault(c) ==  \* what is sent is shown at once
    /\ written[c] < TextLimit[c]
    /\ ClientSend(c, NextMessage(c), "Reliable")
    /\ written' = [written EXCEPT ![c] = @ + 1]
    /\ heard' = [heard EXCEPT ![c] = Trim(Append(@, NextMessage(c)))]
    /\ UNCHANGED <<history, said, joined>>

SendText(c) ==
    /\ written[c] < TextLimit[c]
    /\ ClientSend(c, NextMessage(c), "Reliable")
    /\ written' = [written EXCEPT ![c] = @ + 1]
    /\ UNCHANGED <<history, heard, said, joined>>

Hear(c) ==
    /\ ClientReceive(c) /\ UNCHANGED up
    /\ heard' = [heard EXCEPT ![c] = Trim(Append(@, Head(down[c])))]
    /\ UNCHANGED <<history, written, said, joined>>

ClientRestarts(c) ==
    /\ Crash(c)
    /\ heard' = [heard EXCEPT ![c] = <<>>]
    /\ UNCHANGED <<history, written, said, joined>>

-----------------------------------------------------------------------------
ChatUnderneath ==
    /\ \/ Background
       \/ ServerClose
       \/ \E s \in Slots : ServerDisconnect(s) /\ UNCHANGED down
       \/ \E i \in ClientID : Kick(i) /\ UNCHANGED down
       \/ \E c \in Clients : (ConnectSucceeds(c) /\ UNCHANGED up) \/ ClientDisconnect(c)
    /\ UNCHANGED chatLocal

ChatNext ==
    \/ ChatUnderneath
    \/ SendAs
    \/ \E s \in Slots : OnReceive(s) \/ Arrives(s)
    \/ \E c \in Clients : SendText(c) \/ Hear(c) \/ ClientRestarts(c)

ChatSpec == ChatInit /\ [][ChatNext]_chatVars

-----------------------------------------------------------------------------
Recent(s, n) == IF Len(s) <= n THEN s ELSE SubSeq(s, Len(s) - n + 1, Len(s))

(* The server's history is the end of what was said, as much of it as the  *)
(* cap allows at least; only sendAs() makes it longer, by one message at a *)
(* time that no later message takes back.                                  *)
HistoryIsEnd ==
    /\ IsSuffix(history, said)
    /\ Len(history) >= Len(Recent(said, Cap))
    /\ Len(history) <= Cap + written[Host]

(* A client the server can reach has heard, or will hear, the messages     *)
(* since it was taken in, in the one order in which the server relayed them*)
(* to everybody: all that are on their way to it, and before them as many  *)
(* as a history holds.                                                     *)
AllHearTheSame ==
    \A c \in Reached(pstate, link) :
        LET since == SubSeq(said, joined[c] + 1, Len(said))
            recent == Recent(since, Cap + Len(down[c]))
        IN  IsSuffix([i \in DOMAIN recent |-> recent[i].msg], heard[c] \o down[c])

(* Nobody hears a message twice, however the peers change hands, and not   *)
(* even a client that loses its connection, keeps its history and comes    *)
(* back: what it wrote itself reaches it through the server only.          *)
NobodyHearsTwice == \A c \in Clients : IsInjective(heard[c] \o down[c])

(* What is said under one id was written by one player, in that order and  *)
(* once, even when its ENet peer served another player before.             *)
SaidAsWritten ==
    \A i, j \in DOMAIN said :
        i < j /\ said[i].id = said[j].id =>
            /\ said[i].msg.name = said[j].msg.name
            /\ said[i].msg.text < said[j].msg.text
=============================================================================
