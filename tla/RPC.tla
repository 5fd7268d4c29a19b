--------------------------------- MODULE RPC ---------------------------------
(***************************************************************************)
(* Sync/RPC.h: calls by name between a server and its clients, and the     *)
(* application that uses them: a client makes a call, the server's handler *)
(* answers it with a call of the same name, at once or from the main loop  *)
(* some frames later, and the server now and then calls everybody.         *)
(* Arguments are abstracted to which call it is.                           *)
(***************************************************************************)
EXTENDS Callbacks

CONSTANTS
    Procs,      \* the names of the procedures
    CallLimit   \* bound: calls made by each of the clients

ASSUME CallLimitAssumption == CallLimit \in [Clients -> Nat]

VARIABLES
    owed,       \* the application's list of answers still to be given
    made,       \* history: calls made by each client so far
    since,      \* history: of these, how many before its connection was made
    settled     \* history: calls whose answer was taken, or that met no handler

rpcVars == <<owed, made, since, settled>>

Call == UNION {[proc : Procs, by : {c}, n : 1 .. CallLimit[c]] : c \in Clients}
RPCToServer == Call
Answer(m) == [id |-> "RPC", args |-> {m}, proc |-> m.proc]
ToAll(p) == [id |-> "RPC", args |-> {}, proc |-> p]
RPCToClient == {Answer(m) : m \in Call} \cup {ToAll(p) : p \in Procs}

RPCInit ==
    /\ owed = {}
    /\ made = [c \in Clients |-> 0]
    /\ since = [c \in Clients |-> 0]
    /\ settled = {}

-----------------------------------------------------------------------------
(* ServerRPC.                                                              *)

CallClient_Fault(i, m) ==  \* broadcast() instead of send()
    /\ RoomDown
    /\ down' = AppendTo(down, Reached(pstate, link), Answer(m))

(* callClient(target, name, args).                                         *)
CallClient(i, m) ==
    /\ RoomDown
    /\ down' = AppendTo(down, Addressee(i), Answer(m))

(* The handler a name leads to in m_handlers: it answers, or notes the id  *)
(* for later.                                                              *)
Handle(i, m) ==
    \/ CallClient(i, m) /\ UNCHANGED owed
    \/ owed' = owed \cup {[id |-> i, call |-> m]} /\ UNCHANGED down

(* The callback in Server::onReceive.  A name without a handler, or a slot *)
(* that another service has taken: the call is dropped without a trace.    *)
OnCall(s) ==
    /\ ServerReceive(s)
    /\ LET m == Head(up[s])
       IN  IF holder[ServerEnd] = "rpc" /\ m.proc \in handlers[ServerEnd]
           THEN Handle(data[s], m) /\ UNCHANGED settled
           ELSE settled' = settled \cup {m} /\ UNCHANGED <<down, owed>>
    /\ UNCHANGED <<made, since>>

(* The main loop answers under the id it noted, whoever has left since.    *)
AnswerLate(o) ==
    /\ o \in owed
    /\ owed' = owed \ {o}
    /\ CallClient(o.id, o.call)
    /\ UNCHANGED <<serverVars, enetVars, up, clientVars, made, since, settled>>

(* callAll(name, args).                                                    *)
CallAll(p) == ServerBroadcast(ToAll(p), "Reliable") /\ UNCHANGED rpcVars

-----------------------------------------------------------------------------
(* ClientRPC.                                                              *)

CallServer_Fault(c, p) ==  \* without Delivery::Reliable
    /\ made[c] < CallLimit[c]
    /\ made' = [made EXCEPT ![c] = @ + 1]
    /\ ClientSend(c, [proc |-> p, by |-> c, n |-> made[c] + 1], "Unreliable")
    /\ UNCHANGED <<owed, since, settled>>

(* call(name, args).                                                       *)
CallServer(c, p) ==
    /\ made[c] < CallLimit[c]
    /\ made' = [made EXCEPT ![c] = @ + 1]
    /\ ClientSend(c, [proc |-> p, by |-> c, n |-> made[c] + 1], "Reliable")
    /\ UNCHANGED <<owed, since, settled>>

(* The callback in Client::onReceive, for every packet that comes while    *)
(* the slot is its own; the handler, if any, runs under id 0.              *)
OnAnswer(m) ==
    /\ settled' = IF m.id = "RPC" THEN settled \cup m.args ELSE settled
    /\ UNCHANGED <<owed, made, since>>

Connects(c) ==
    /\ since' = [since EXCEPT ![c] = made[c]]
    /\ UNCHANGED <<owed, made, settled>>

-----------------------------------------------------------------------------
(* Properties.                                                             *)

RPCTypeOK ==
    /\ owed \subseteq [id : ClientID, call : Call]
    /\ made \in [Clients -> Nat] /\ since \in [Clients -> Nat]
    /\ \A c \in Clients : made[c] <= CallLimit[c] /\ since[c] <= made[c]
    /\ settled \subseteq Call

(* An answer goes to the client that made the call, on the connection it   *)
(* made it on, however late it is given and whoever has the ENet peer, the *)
(* player's place or a restarted server by then; else it goes nowhere.     *)
AnswersComeHome ==
    \A c \in Clients : \A k \in DOMAIN down[c] : down[c][k].id = "RPC" =>
        \A m \in down[c][k].args : m.by = c /\ m.n > since[c]

Times(q, S) == Cardinality({k \in DOMAIN q : q[k] \in S})

(* The call that is the n-th of a client.                                  *)
Numbered(c, n) == {m \in Call : m.by = c /\ m.n = n}

(* A call that was made on a connection which stands is in exactly one     *)
(* place: on its way, with the application that owes the answer, answered  *)
(* and on its way back, or done with.  It is run once and answered once.   *)
CallsKept ==
    \A c \in Clients : \A s \in Slots :
        link[c] = s /\ pstate[s] \in {"acknowledged", "connected"} =>
            \A n \in since[c] + 1 .. made[c] :
                LET it == Numbered(c, n)
                IN  Times(up[s], it) + Cardinality({o \in owed : o.call \in it})
                        + Times(down[c], {Answer(m) : m \in it})
                        + (IF it \cap settled = {} THEN 0 ELSE 1) = 1
=============================================================================
