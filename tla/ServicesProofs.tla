--------------------------- MODULE ServicesProofs ---------------------------
(***************************************************************************)
(* Proofs about Services, for any set of clients, slots and procedures,    *)
(* any number of calls and states, and any services in the slots of the    *)
(* callbacks.  What depends on ids not being reused is proved under NoWrap.*)
(***************************************************************************)
EXTENDS Services, SessionProofs, FiniteSetTheorems

(* A step that both services sleep through.                                *)
Quiet == UNCHANGED <<callbackVars, rpcVars, snapshotVars>>

-----------------------------------------------------------------------------
(* A step of the services is a step of the session below them.             *)
LEMMA ServicesIsSession == [ServicesNext]_servicesVars => SessionStep
<1> USE DEF servicesVars, sessionVars, serverVars, enetVars, clientVars
<1>1. (\E e \in Ends : Constructs(e) \/ Registers(e)) \/ UNCHANGED servicesVars => SessionStep
  BY DEF Constructs, Registers, SessionStep, ButConnect
<1>2. ServerCalls => SessionStep
  BY DEF ServerCalls, SetReader, Advance, BroadcastSnapshot, SendTo, AnswerLate, CallAll,
         ServerBroadcast, ServerSend, SessionStep, ButConnect
<1>3. \A c \in Clients : ClientCalls(c) \/ ClientEvent(c) => SessionStep
  BY DEF ClientCalls, CallServer, ClientSend, ClientEvent, Takes, SessionStep, ButConnect
<1>4. \A s \in Slots : ServerEvent(s) => SessionStep
  BY DEF ServerEvent, Welcome, OnCall, SessionStep, ButConnect
<1> QED
  BY <1>1, <1>2, <1>3, <1>4 DEF ServicesNext, SessionStep, ButConnect

(* The steps of the services, each with the event or the call it is.       *)
LEMMA ServicesCases ==
  ASSUME ServicesNext
  PROVE  \/ Background /\ Quiet
         \/ \E e \in Ends : Constructs(e)
         \/ \E e \in Ends : Registers(e)
         \/ (SetReader \/ Advance) /\ UNCHANGED <<callbackVars, rpcVars>>
         \/ BroadcastSnapshot /\ UNCHANGED <<callbackVars, rpcVars>>
         \/ \E i \in ClientID : SendTo(i) /\ UNCHANGED <<callbackVars, rpcVars>>
         \/ \E o \in owed : AnswerLate(o) /\ UNCHANGED <<callbackVars, snapshotVars>>
         \/ \E p \in Procs : CallAll(p) /\ UNCHANGED <<callbackVars, snapshotVars>>
         \/ ServerClose /\ Quiet
         \/ \E i \in ClientID : Kick(i) /\ UNCHANGED down /\ Quiet
         \/ \E c \in Clients, p \in Procs :
               CallServer(c, p) /\ UNCHANGED <<callbackVars, snapshotVars>>
         \/ \E s \in Slots : Welcome(s) /\ UNCHANGED <<callbackVars, rpcVars>>
         \/ \E s \in Slots : OnCall(s) /\ UNCHANGED <<callbackVars, snapshotVars>>
         \/ \E s \in Slots : ServerDisconnect(s) /\ UNCHANGED down /\ Quiet
         \/ \E c \in Clients : Takes(c)
         \/ \E c \in Clients :
               /\ ConnectSucceeds(c) /\ UNCHANGED <<up, callbackVars>>
               /\ Connects(c) /\ NothingDue(c)
         \/ \E c \in Clients : ClientDisconnect(c) /\ Quiet
         \/ \E c \in Clients : Crash(c) /\ Forgets(c) /\ UNCHANGED rpcVars /\ Unlearns(c)
<1>1. ASSUME ServerCalls
      PROVE  \/ (SetReader \/ Advance) /\ UNCHANGED <<callbackVars, rpcVars>>
             \/ BroadcastSnapshot /\ UNCHANGED <<callbackVars, rpcVars>>
             \/ \E i \in ClientID : SendTo(i) /\ UNCHANGED <<callbackVars, rpcVars>>
             \/ \E o \in owed : AnswerLate(o) /\ UNCHANGED <<callbackVars, snapshotVars>>
             \/ \E p \in Procs : CallAll(p) /\ UNCHANGED <<callbackVars, snapshotVars>>
             \/ ServerClose /\ Quiet
             \/ \E i \in ClientID : Kick(i) /\ UNCHANGED down /\ Quiet
  BY <1>1 DEF ServerCalls, Quiet
<1>2. ASSUME NEW s \in Slots, ServerEvent(s)
      PROVE  \/ Welcome(s) /\ UNCHANGED <<callbackVars, rpcVars>>
             \/ OnCall(s) /\ UNCHANGED <<callbackVars, snapshotVars>>
             \/ ServerDisconnect(s) /\ UNCHANGED down /\ Quiet
  BY <1>2 DEF ServerEvent, Quiet
<1>3. ASSUME NEW c \in Clients, ClientCalls(c)
      PROVE  \E p \in Procs : CallServer(c, p) /\ UNCHANGED <<callbackVars, snapshotVars>>
  BY <1>3 DEF ClientCalls
<1>4. ASSUME NEW c \in Clients, ClientEvent(c)
      PROVE  \/ Takes(c)
             \/ /\ ConnectSucceeds(c) /\ UNCHANGED <<up, callbackVars>>
                /\ Connects(c) /\ NothingDue(c)
             \/ ClientDisconnect(c) /\ Quiet
             \/ Crash(c) /\ Forgets(c) /\ UNCHANGED rpcVars /\ Unlearns(c)
  BY <1>4 DEF ClientEvent, Quiet
<1> QED
  BY <1>1, <1>2, <1>3, <1>4 DEF ServicesNext, Quiet

-----------------------------------------------------------------------------
(* Type correctness.                                                       *)

(* What is in a packet of the server.                                      *)
LEMMA PacketKinds ==
  ASSUME NEW m \in ServicesToClient
  PROVE  \/ /\ m.id = "RPC" /\ m \notin SnapshotToClient
            /\ m.args \subseteq Call
         \/ /\ m.id = "SNAPSHOT" /\ m \in SnapshotToClient
            /\ m.state \in 1 .. StateLimit
<1>1. CASE m \in SnapshotToClient
  BY <1>1 DEF SnapshotToClient
<1>2. CASE \E x \in Call : m = Answer(x)
  BY <1>2 DEF Answer, SnapshotToClient
<1>3. CASE \E p \in Procs : m = ToAll(p)
  BY <1>3 DEF ToAll, SnapshotToClient
<1> QED
  BY <1>1, <1>2, <1>3 DEF ServicesToClient, RPCToClient

(* What the server sends.                                                  *)
LEMMA SentTypes ==
  /\ \A m \in Call : Answer(m) \in ServicesToClient
  /\ \A p \in Procs : ToAll(p) \in ServicesToClient
  /\ current \in 1 .. StateLimit =>
        Capture \in ServicesToClient /\ Capture \in SnapshotToClient
BY DEF ServicesToClient, RPCToClient, SnapshotToClient, Capture

(* What a client calls.                                                    *)
LEMMA CallTypes ==
  ASSUME NEW c \in Clients, NEW p \in Procs, made[c] \in Nat, made[c] < CallLimit[c]
  PROVE  /\ [proc |-> p, by |-> c, n |-> made[c] + 1] \in Call
         /\ CallLimit[c] \in Nat /\ made[c] + 1 \in 1 .. CallLimit[c]
<1>1. CallLimit[c] \in Nat /\ made[c] + 1 \in 1 .. CallLimit[c]
  BY CallLimitAssumption
<1> QED
  BY <1>1 DEF Call

(* A packet for some of the clients.                                       *)
LEMMA SentDown ==
  ASSUME NEW P, down \in [Clients -> Seq(P)], NEW S, NEW m \in P, down' = AppendTo(down, S, m)
  PROVE  /\ down' \in [Clients -> Seq(P)]
         /\ \A c \in Clients :
               down'[c] = IF c \in S THEN Append(down[c], m) ELSE down[c]
BY AppendToType DEF AppendTo

(* A reliable packet is sent to everybody it is for.                       *)
LEMMA ReliableSends ==
  ASSUME NEW S, NEW m
  PROVE  /\ Transmit(S, m, "Reliable") => down' = AppendTo(down, S, m)
         /\ ServerBroadcast(m, "Reliable") => down' = AppendTo(down, Reached(pstate, link), m)
         /\ \A i : ServerSend(i, m, "Reliable") => down' = AppendTo(down, Addressee(i), m)
<1>1. \A T : Transmit(T, m, "Reliable") => down' = AppendTo(down, T, m)
  <2> SUFFICES ASSUME NEW T, Transmit(T, m, "Reliable") PROVE down' = AppendTo(down, T, m)
    OBVIOUS
  <2>1. down' = AppendTo(down, T \ {}, m)
    BY DEF Transmit
  <2>2. T \ {} = T
    OBVIOUS
  <2> QED
    BY <2>1, <2>2
<1> QED
  BY <1>1 DEF ServerBroadcast, ServerSend, Addressee

(* The packets that arrive at the clients, whoever sends them.             *)
LEMMA DownStep ==
  ASSUME ServicesTypeOK, ServicesNext
  PROVE  \/ UNCHANGED down
         \/ /\ Background \/ (\E c \in Clients : ClientDisconnect(c) \/ Crash(c))
            /\ \A c \in Clients :
                  down'[c] = down[c] \/ (down'[c] = <<>> /\ link'[c] = NoSlot)
         \/ \E c \in Clients : Takes(c)
         \/ \E s \in Slots : OnCall(s)
         \/ \E s \in Slots : Welcome(s) /\ UNCHANGED rpcVars
         \/ \E o \in owed : AnswerLate(o)
         \/ \E p \in Procs : CallAll(p)
         \/ BroadcastSnapshot /\ UNCHANGED rpcVars
         \/ \E i \in ClientID : SendTo(i) /\ UNCHANGED rpcVars
<1> USE DEF enetVars, clientVars, serverVars, sessionVars
<1>0. down \in [Clients -> Seq(ServicesToClient)] /\ link \in [Clients -> Slots \cup {NoSlot}]
  BY DEF ServicesTypeOK, SessionTypeOK
<1>1. CASE Background
  <2>1. \A c \in Clients : down'[c] = down[c] \/ (down'[c] = <<>> /\ link'[c] = NoSlot)
    BY <1>0, <1>1 DEF Background, ServerStart, ConnectBegin, ConnectRefused, ConnectFails,
       DisconnectBegin, DisconnectEnd, Accept, ReapPending
  <2> QED
    BY <1>1, <2>1
<1>2. CASE \E c \in Clients : ClientDisconnect(c) \/ Crash(c)
  <2>1. \A c \in Clients : down'[c] = down[c] \/ (down'[c] = <<>> /\ link'[c] = NoSlot)
    BY <1>0, <1>2 DEF ClientDisconnect, Crash
  <2> QED
    BY <1>2, <2>1
<1>3. CASE \/ \E e \in Ends : Constructs(e)
           \/ \E e \in Ends : Registers(e)
           \/ SetReader \/ Advance \/ ServerClose
           \/ \E c \in Clients : ConnectSucceeds(c)
           \/ \E c \in Clients, p \in Procs : CallServer(c, p)
  BY <1>3 DEF Constructs, Registers, SetReader, Advance, ServerClose, ConnectSucceeds,
     CallServer, ClientSend
<1> QED
  BY <1>1, <1>2, <1>3, ServicesCases

(* The queues keep their types.                                            *)
LEMMA QueueTypes ==
  ASSUME ServicesTypeOK, ServicesNext
  PROVE  up' \in [Slots -> Seq(RPCToServer)] /\ down' \in [Clients -> Seq(ServicesToClient)]
<1> USE DEF enetVars, clientVars, serverVars, sessionVars
<1>0. /\ SessionTypeOK /\ up \in [Slots -> Seq(RPCToServer)]
      /\ down \in [Clients -> Seq(ServicesToClient)]
      /\ current \in 1 .. StateLimit /\ owed \subseteq [id : ClientID, call : Call]
      /\ made \in [Clients -> Nat]
  BY DEF ServicesTypeOK, RPCTypeOK, SnapshotTypeOK
<1>1. up' \in [Slots -> Seq(RPCToServer)]
  <2>1. CASE \/ \E e \in Ends : Constructs(e)
             \/ \E e \in Ends : Registers(e)
             \/ SetReader \/ Advance \/ BroadcastSnapshot
             \/ \E i \in ClientID : SendTo(i)
             \/ \E o \in owed : AnswerLate(o)
             \/ \E p \in Procs : CallAll(p)
             \/ \E c \in Clients : Takes(c)
             \/ \E c \in Clients : ConnectSucceeds(c) /\ UNCHANGED up
             \/ \E c \in Clients : ClientDisconnect(c)
             \/ \E c \in Clients : Crash(c)
    <3>1. up' = up
      BY <2>1 DEF Constructs, Registers, SetReader, Advance, BroadcastSnapshot, SendTo,
         AnswerLate, CallAll, ServerBroadcast, ServerSend, Takes, ClientDisconnect, Crash
    <3> QED
      BY <1>0, <3>1
  <2>2. CASE Background
    BY <1>0, <2>2, BackgroundQueues
  <2>3. CASE \/ ServerClose
             \/ \E s \in Slots : Welcome(s)
             \/ \E s \in Slots : OnCall(s)
             \/ \E s \in Slots : ServerDisconnect(s)
             \/ \E i \in ClientID : Kick(i)
    BY <1>0, <2>3, ServerQueues DEF Welcome, OnCall
  <2>4. ASSUME NEW c \in Clients, NEW p \in Procs, CallServer(c, p)
        PROVE  up' \in [Slots -> Seq(RPCToServer)]
    <3>1. [proc |-> p, by |-> c, n |-> made[c] + 1] \in RPCToServer
      BY <1>0, <2>4, CallTypes DEF CallServer, RPCToServer
    <3> QED
      BY <1>0, <2>4, <3>1, ClientSendType DEF CallServer
  <2> QED
    BY <2>1, <2>2, <2>3, <2>4, ServicesCases
<1>2. down' \in [Clients -> Seq(ServicesToClient)]
  <2>1. CASE Background
    BY <1>0, <2>1, BackgroundQueues
  <2>2. CASE \E c \in Clients : Takes(c) \/ ClientDisconnect(c) \/ Crash(c)
    BY <1>0, <2>2, ClientQueues DEF Takes
  <2>3. ASSUME NEW s \in Slots, OnCall(s) PROVE down' \in [Clients -> Seq(ServicesToClient)]
    <3>1. up[s] # <<>> /\ up[s] \in Seq(Call)
      BY <1>0, <2>3 DEF OnCall, ServerReceive, RPCToServer
    <3>2. Head(up[s]) \in Call
      BY <3>1
    <3>3. down' = down \/ down' = AppendTo(down, Addressee(data[s]), Answer(Head(up[s])))
      BY <2>3 DEF OnCall, Handle, CallClient
    <3> QED
      BY <1>0, <3>2, <3>3, SentDown, SentTypes
  <2>4. ASSUME NEW o \in owed, AnswerLate(o) PROVE down' \in [Clients -> Seq(ServicesToClient)]
    <3>1. o.call \in Call
      BY <1>0
    <3> QED
      BY <1>0, <2>4, <3>1, SentDown, SentTypes DEF AnswerLate, CallClient
  <2>5. CASE \/ \E s \in Slots : Welcome(s)
             \/ \E p \in Procs : CallAll(p)
             \/ BroadcastSnapshot
             \/ \E i \in ClientID : SendTo(i)
    <3>1. \E m \in ServicesToClient : \E S : down' = down \/ down' = AppendTo(down, S, m)
      BY <1>0, <2>5, SentTypes, ReliableSends DEF Welcome, CallAll, BroadcastSnapshot, SendTo
    <3> QED
      BY <1>0, <3>1, SentDown
  <2> QED
    BY <1>0, <2>1, <2>2, <2>3, <2>4, <2>5, DownStep
<1> QED
  BY <1>1, <1>2

(* The slots of the callbacks and both services keep their types.          *)
LEMMA ServiceTypes ==
  ASSUME ServicesTypeOK, ServicesNext
  PROVE  /\ holder' \in [Ends -> {"none", "rpc", "snapshot", "other"}]
         /\ handlers' \in [Ends -> SUBSET (Procs \cup {"show"})]
         /\ RPCTypeOK' /\ SnapshotTypeOK'
<1> USE DEF callbackVars, rpcVars, snapshotVars
<1>0. /\ SessionTypeOK /\ up \in [Slots -> Seq(RPCToServer)]
      /\ down \in [Clients -> Seq(ServicesToClient)]
      /\ RPCTypeOK /\ SnapshotTypeOK /\ current \in 1 .. StateLimit
      /\ holder \in [Ends -> {"none", "rpc", "snapshot", "other"}]
      /\ handlers \in [Ends -> SUBSET (Procs \cup {"show"})]
  BY DEF ServicesTypeOK, SnapshotTypeOK
<1>1. /\ holder' \in [Ends -> {"none", "rpc", "snapshot", "other"}]
      /\ handlers' \in [Ends -> SUBSET (Procs \cup {"show"})]
  <2>1. ASSUME NEW e \in Ends, Constructs(e)
        PROVE  /\ holder' \in [Ends -> {"none", "rpc", "snapshot", "other"}]
               /\ handlers' \in [Ends -> SUBSET (Procs \cup {"show"})]
    <3>1. PICK svc \in {"rpc", "snapshot", "other"} : Construct(e, svc)
      BY <2>1, ServicesPayloadAssumption DEF Constructs
    <3> QED
      BY <1>0, <3>1 DEF Construct
  <2>2. ASSUME NEW e \in Ends, Registers(e)
        PROVE  /\ holder' \in [Ends -> {"none", "rpc", "snapshot", "other"}]
               /\ handlers' \in [Ends -> SUBSET (Procs \cup {"show"})]
    <3>1. PICK h \in Procs \cup {"show"} : Register(e, h)
      BY <2>2 DEF Registers
    <3> QED
      BY <1>0, <3>1 DEF Register
  <2>3. ASSUME NEW c \in Clients, Forgets(c)
        PROVE  /\ holder' \in [Ends -> {"none", "rpc", "snapshot", "other"}]
               /\ handlers' \in [Ends -> SUBSET (Procs \cup {"show"})]
    BY <1>0, <2>3 DEF Forgets
  <2>4. UNCHANGED callbackVars \/ (\E e \in Ends : Constructs(e) \/ Registers(e))
          \/ \E c \in Clients : Forgets(c)
    BY ServicesCases DEF Quiet, Takes
  <2> QED
    BY <1>0, <2>1, <2>2, <2>3, <2>4
<1>2. RPCTypeOK'
  <2> USE DEF RPCTypeOK
  <2>1. ASSUME NEW s \in Slots, OnCall(s) PROVE RPCTypeOK'
    <3>1. up[s] # <<>> /\ up[s] \in Seq(Call) /\ data[s] \in ClientID
      BY <1>0, <2>1 DEF OnCall, ServerReceive, RPCToServer, SessionTypeOK
    <3>2. Head(up[s]) \in Call
      BY <3>1
    <3> QED
      BY <1>0, <2>1, <3>1, <3>2 DEF OnCall, Handle
  <2>2. ASSUME NEW c \in Clients, NEW p \in Procs, CallServer(c, p) PROVE RPCTypeOK'
    <3>1. made[c] \in Nat /\ made[c] < CallLimit[c] /\ made' = [made EXCEPT ![c] = made[c] + 1]
      BY <1>0, <2>2 DEF CallServer
    <3>2. made' \in [Clients -> Nat]
      BY <1>0, <3>1
    <3>3. \A d \in Clients : made'[d] <= CallLimit[d] /\ since[d] <= made'[d]
      <4> SUFFICES ASSUME NEW d \in Clients
                   PROVE  made'[d] <= CallLimit[d] /\ since[d] <= made'[d]
        OBVIOUS
      <4>1. /\ made[d] \in Nat /\ since[d] \in Nat /\ CallLimit[d] \in Nat
            /\ made[d] <= CallLimit[d] /\ since[d] <= made[d]
        BY <1>0, CallLimitAssumption
      <4> QED
        BY <1>0, <3>1, <4>1
    <3> QED
      BY <1>0, <2>2, <3>2, <3>3 DEF CallServer
  <2>3. ASSUME NEW c \in Clients, Connects(c) PROVE RPCTypeOK'
    BY <1>0, <2>3 DEF Connects
  <2>4. ASSUME NEW c \in Clients, Takes(c) PROVE RPCTypeOK'
    <3>1. down[c] # <<>> /\ down[c] \in Seq(ServicesToClient)
      BY <1>0, <2>4 DEF Takes, ClientReceive
    <3>2. Head(down[c]).id = "RPC" => Head(down[c]).args \subseteq Call
      BY <3>1, PacketKinds
    <3>3. settled' \subseteq Call /\ UNCHANGED <<owed, made, since>>
      BY <1>0, <2>4, <3>2 DEF Takes, OnAnswer
    <3> QED
      BY <1>0, <3>3
  <2>5. ASSUME NEW o \in owed, AnswerLate(o) PROVE RPCTypeOK'
    BY <1>0, <2>5 DEF AnswerLate
  <2>6. \/ UNCHANGED rpcVars
        \/ \E s \in Slots : OnCall(s)
        \/ \E c \in Clients : \/ Takes(c) \/ Connects(c)
                              \/ \E p \in Procs : CallServer(c, p)
        \/ \E o \in owed : AnswerLate(o)
    BY ServicesCases DEF Quiet, Constructs, Registers, CallAll
  <2> QED
    BY <1>0, <2>1, <2>2, <2>3, <2>4, <2>5, <2>6
<1>3. SnapshotTypeOK'
  <2> USE DEF SnapshotTypeOK
  <2>1. ASSUME NEW c \in Clients, NothingDue(c) \/ Unlearns(c) PROVE SnapshotTypeOK'
    BY <1>0, <2>1 DEF NothingDue, Unlearns
  <2>2. ASSUME NEW c \in Clients, Takes(c) PROVE SnapshotTypeOK'
    <3>1. down[c] # <<>> /\ down[c] \in Seq(ServicesToClient)
      BY <1>0, <2>2 DEF Takes, ClientReceive
    <3>2. Head(down[c]).id = "SNAPSHOT" => Head(down[c]).state \in 1 .. StateLimit
      BY <3>1, PacketKinds
    <3> QED
      BY <1>0, <2>2, <3>2 DEF Takes, OnSnapshot
  <2>3. CASE SetReader \/ Advance
    <3>1. reader' \in BOOLEAN
      BY <1>0, <2>3 DEF SetReader, Advance
    <3>2. current' \in 1 .. StateLimit
      BY <1>0, <2>3, StateAssumption DEF SetReader, Advance
    <3> QED
      BY <1>0, <2>3, <3>1, <3>2 DEF SetReader, Advance
  <2>4. ASSUME NEW S, IsDueTo(S) PROVE SnapshotTypeOK'
    BY <1>0, <2>4 DEF IsDueTo
  <2>5. \/ UNCHANGED snapshotVars \/ SetReader \/ Advance
        \/ \E S : IsDueTo(S)
        \/ \E c \in Clients : NothingDue(c) \/ Unlearns(c) \/ Takes(c)
    BY ServicesCases DEF Quiet, Constructs, Registers, BroadcastSnapshot, SendTo, Welcome
  <2> QED
    BY <1>0, <2>1, <2>2, <2>3, <2>4, <2>5
<1> QED
  BY <1>1, <1>2, <1>3

(* The initial values have their types.                                    *)
LEMMA ServicesTypeInit == ServicesInit => ServicesTypeOK
<1> SUFFICES ASSUME ServicesInit PROVE ServicesTypeOK
  OBVIOUS
<1>1. SessionTypeOK
  BY TypeInit DEF ServicesInit, TypeOK
<1>2. up \in [Slots -> Seq(RPCToServer)] /\ down \in [Clients -> Seq(ServicesToClient)]
  BY DEF ServicesInit, Init
<1>3. RPCTypeOK
  BY CallLimitAssumption DEF ServicesInit, RPCInit, RPCTypeOK
<1>4. SnapshotTypeOK
  <2>1. reader \in BOOLEAN
    BY DEF ServicesInit, SnapshotInit
  <2>2. current \in 1 .. StateLimit
    BY StateAssumption DEF ServicesInit, SnapshotInit
  <2> QED
    BY <2>1, <2>2 DEF ServicesInit, SnapshotInit, SnapshotTypeOK
<1> QED
  BY <1>1, <1>2, <1>3, <1>4 DEF ServicesInit, CallbacksInit, ServicesTypeOK

(* Every step keeps all types.                                             *)
LEMMA ServicesTypeStep == ServicesTypeOK /\ [ServicesNext]_servicesVars => ServicesTypeOK'
<1>1. ASSUME ServicesTypeOK, ServicesNext PROVE ServicesTypeOK'
  <2>1. SessionTypeOK'
    BY <1>1, ServicesIsSession, StateType DEF ServicesTypeOK
  <2> QED
    BY <1>1, <2>1, QueueTypes, ServiceTypes DEF ServicesTypeOK
<1>2. ServicesTypeOK /\ UNCHANGED servicesVars => ServicesTypeOK'
  BY DEF ServicesTypeOK, SessionTypeOK, RPCTypeOK, SnapshotTypeOK, servicesVars, sessionVars,
         serverVars, enetVars, clientVars, callbackVars, rpcVars, snapshotVars
<1> QED
  BY <1>1, <1>2

(* Whoever has the slot of a client, what the application is shown is a    *)
(* state of the game and never the bytes of another packet, and what the   *)
(* server answers is a call it was sent.                                   *)
THEOREM ServicesTypesCorrect == ServicesSpec => []ServicesTypeOK
BY ServicesTypeInit, ServicesTypeStep, PTL DEF ServicesSpec

-----------------------------------------------------------------------------
(* What the session guarantees holds under the services.                   *)

(* Nobody shares a link.                                                   *)
LEMMA ServicesLinks == ServicesSpec => [](ServicesTypeOK /\ LinkInv)
<1>1. ServicesInit => LinkInv
  BY LinkInit DEF ServicesInit
<1>2. ServicesTypeOK /\ LinkInv /\ [ServicesNext]_servicesVars => LinkInv'
  BY ServicesIsSession, LinkStep DEF ServicesTypeOK
<1> QED
  BY <1>1, <1>2, ServicesTypesCorrect, PTL DEF ServicesSpec

(* And m_peers is right, while no id is used twice.                        *)
LEMMA ServicesMatch == NoWrap => (ServicesSpec => [](ServicesTypeOK /\ LinkInv /\ MatchInv))
<1> SUFFICES ASSUME NoWrap PROVE ServicesSpec => [](ServicesTypeOK /\ LinkInv /\ MatchInv)
  OBVIOUS
<1>1. ServicesInit => MatchInv
  BY MatchInit DEF ServicesInit
<1>2. ServicesTypeOK /\ LinkInv /\ MatchInv /\ [ServicesNext]_servicesVars => MatchInv'
  BY ServicesIsSession, MatchStep DEF ServicesTypeOK
<1> QED
  BY <1>1, <1>2, ServicesLinks, PTL DEF ServicesSpec

-----------------------------------------------------------------------------
(* Snapshots implement the replica.                                        *)

(* The snapshots in the queue q of a client that shows `old' are states of *)
(* the game, none older than the one before it.                            *)
Ordered(q, old, now) ==
    \A k \in DOMAIN q : q[k].id = "SNAPSHOT" =>
        /\ q[k].state <= now
        /\ old # Unseen => old <= q[k].state
        /\ \A j \in DOMAIN q : j < k /\ q[j].id = "SNAPSHOT" => q[j].state <= q[k].state

(* What makes a client move on to later states only.                       *)
OrderInv ==
    \A c \in Clients :
        /\ seen[c] # Unseen => seen[c] <= current
        /\ Ordered(down[c], seen[c], current)

(* A packet behind the others is the latest, if it is a snapshot.          *)
LEMMA OrderedAppend ==
  ASSUME NEW q \in Seq(ServicesToClient), NEW m \in ServicesToClient, NEW old, NEW now \in Int,
         Ordered(q, old, now), old # Unseen => old <= now,
         m.id = "SNAPSHOT" => m.state = now
  PROVE  Ordered(Append(q, m), old, now)
<1> DEFINE r == Append(q, m)
<1>1. /\ Len(q) \in Nat /\ DOMAIN q = 1 .. Len(q) /\ DOMAIN r = 1 .. Len(q) + 1
      /\ r[Len(q) + 1] = m /\ \A k \in DOMAIN q : r[k] = q[k]
  OBVIOUS
<1> HIDE DEF r
<1>2. ASSUME NEW k \in DOMAIN r, r[k].id = "SNAPSHOT"
      PROVE  /\ r[k].state <= now
             /\ old # Unseen => old <= r[k].state
             /\ \A j \in DOMAIN r : j < k /\ r[j].id = "SNAPSHOT" => r[j].state <= r[k].state
  <2>1. CASE k \in DOMAIN q
    <3>1. \A j \in DOMAIN r : j < k => j \in DOMAIN q
      BY <1>1, <2>1
    <3> QED
      BY <1>1, <1>2, <2>1, <3>1 DEF Ordered
  <2>2. CASE k = Len(q) + 1
    <3>1. r[k].state = now /\ \A j \in DOMAIN r : j < k => j \in DOMAIN q
      BY <1>1, <1>2, <2>2
    <3> QED
      BY <1>1, <1>2, <3>1 DEF Ordered
  <2> QED
    BY <1>1, <2>1, <2>2
<1> QED
  BY <1>2 DEF Ordered, r

(* Taking the first packet.                                                *)
LEMMA OrderedTail ==
  ASSUME NEW P, NEW q \in Seq(P), q # <<>>, NEW old, NEW new, NEW now, Ordered(q, old, now),
         new = old \/ (Head(q).id = "SNAPSHOT" /\ new = Head(q).state)
  PROVE  /\ Ordered(Tail(q), new, now)
         /\ Head(q).id = "SNAPSHOT" =>
               Head(q).state <= now /\ (old # Unseen => old <= Head(q).state)
<1> DEFINE r == Tail(q)
<1>1. /\ Len(q) \in Nat \ {0} /\ Head(q) = q[1] /\ 1 \in DOMAIN q
      /\ DOMAIN q = 1 .. Len(q) /\ DOMAIN r = 1 .. Len(q) - 1
      /\ \A k \in DOMAIN r : r[k] = q[k + 1]
  OBVIOUS
<1> HIDE DEF r
<1>2. ASSUME NEW k \in DOMAIN r, r[k].id = "SNAPSHOT"
      PROVE  /\ r[k].state <= now
             /\ new # Unseen => new <= r[k].state
             /\ \A j \in DOMAIN r : j < k /\ r[j].id = "SNAPSHOT" => r[j].state <= r[k].state
  <2>1. k + 1 \in DOMAIN q /\ q[k + 1].id = "SNAPSHOT" /\ 1 < k + 1 /\ r[k] = q[k + 1]
    BY <1>1, <1>2
  <2>2. q[1].id = "SNAPSHOT" => q[1].state <= q[k + 1].state
    BY <1>1, <2>1 DEF Ordered
  <2>3. \A j \in DOMAIN r : j < k => j + 1 \in DOMAIN q /\ j + 1 < k + 1 /\ r[j] = q[j + 1]
    BY <1>1, <2>1
  <2> QED
    BY <1>1, <2>1, <2>2, <2>3 DEF Ordered
<1>3. Ordered(r, new, now)
  BY <1>2 DEF Ordered
<1> QED
  BY <1>1, <1>3 DEF Ordered, r

(* What is sent, as far as snapshots go: a snapshot of the current state,  *)
(* or none.                                                                *)
LEMMA SendsNow ==
  ASSUME ServicesTypeOK, ServicesNext, \A c \in Clients : ~Takes(c)
  PROVE  \A c \in Clients :
               \/ down'[c] = down[c]
               \/ down'[c] = <<>> /\ link'[c] = NoSlot
               \/ \E m \in ServicesToClient :
                     /\ down'[c] = Append(down[c], m)
                     /\ m.id = "SNAPSHOT" => m.state = current
<1>0. /\ down \in [Clients -> Seq(ServicesToClient)] /\ up \in [Slots -> Seq(RPCToServer)]
      /\ current \in 1 .. StateLimit /\ owed \subseteq [id : ClientID, call : Call]
  BY DEF ServicesTypeOK, RPCTypeOK, SnapshotTypeOK
<1> SUFFICES ASSUME NEW c \in Clients
             PROVE  \/ down'[c] = down[c]
                    \/ down'[c] = <<>> /\ link'[c] = NoSlot
                    \/ \E m \in ServicesToClient :
                          /\ down'[c] = Append(down[c], m)
                          /\ m.id = "SNAPSHOT" => m.state = current
  OBVIOUS
<1>1. /\ \A m : Answer(m).id # "SNAPSHOT"
      /\ \A p : ToAll(p).id # "SNAPSHOT"
      /\ Capture.state = current
  BY DEF Answer, ToAll, Capture
<1>2. ASSUME NEW m \in ServicesToClient, m.id = "SNAPSHOT" => m.state = current,
             NEW S, down' = AppendTo(down, S, m)
      PROVE  \/ down'[c] = down[c]
             \/ \E x \in ServicesToClient :
                   /\ down'[c] = Append(down[c], x)
                   /\ x.id = "SNAPSHOT" => x.state = current
  <2>1. down'[c] = Append(down[c], m) \/ down'[c] = down[c]
    BY <1>0, <1>2 DEF AppendTo
  <2> QED
    BY <1>2, <2>1
<1>3. CASE \E s \in Slots : OnCall(s)
  <2>1. PICK s \in Slots : OnCall(s)
    BY <1>3
  <2>2. up[s] # <<>> /\ up[s] \in Seq(Call)
    BY <1>0, <2>1 DEF OnCall, ServerReceive, RPCToServer
  <2>3. Head(up[s]) \in Call
    BY <2>2
  <2>4. down' = down \/ down' = AppendTo(down, Addressee(data[s]), Answer(Head(up[s])))
    BY <2>1 DEF OnCall, Handle, CallClient
  <2>5. Answer(Head(up[s])) \in ServicesToClient
    BY <2>3, SentTypes
  <2> QED
    BY <1>1, <1>2, <2>4, <2>5
<1>4. CASE \E o \in owed : AnswerLate(o)
  <2>1. PICK o \in owed : down' = AppendTo(down, Addressee(o.id), Answer(o.call))
    BY <1>4 DEF AnswerLate, CallClient
  <2>2. Answer(o.call) \in ServicesToClient
    BY <1>0, SentTypes
  <2> QED
    BY <1>1, <1>2, <2>1, <2>2
<1>5. CASE \E p \in Procs : CallAll(p)
  <2>1. PICK p \in Procs : down' = AppendTo(down, Reached(pstate, link), ToAll(p))
    BY <1>5, ReliableSends DEF CallAll
  <2>2. ToAll(p) \in ServicesToClient
    BY SentTypes
  <2> QED
    BY <1>1, <1>2, <2>1, <2>2
<1>6. CASE (\E s \in Slots : Welcome(s)) \/ BroadcastSnapshot \/ \E i \in ClientID : SendTo(i)
  <2>1. down' = down \/ \E S : down' = AppendTo(down, S, Capture)
    BY <1>6, ReliableSends DEF Welcome, BroadcastSnapshot, SendTo
  <2>2. Capture \in ServicesToClient
    BY <1>0, SentTypes
  <2> QED
    BY <1>1, <1>2, <2>1, <2>2
<1> QED
  BY <1>3, <1>4, <1>5, <1>6, DownStep

(* What becomes of the game and of what the clients show.                  *)
LEMMA GameStep ==
  ASSUME ServicesNext
  PROVE  \/ UNCHANGED <<current, seen>>
         \/ current' = current + 1 /\ UNCHANGED <<seen, down>>
         \/ \E c \in Clients : Takes(c)
         \/ \E c \in Clients : seen' = [seen EXCEPT ![c] = Unseen] /\ current' = current
<1> USE DEF snapshotVars
<1>1. CASE Advance
  BY <1>1 DEF Advance, sessionVars
<1>2. CASE \E c \in Clients : Unlearns(c)
  BY <1>2 DEF Unlearns
<1>3. \/ Advance
      \/ \E c \in Clients : Takes(c)
      \/ \E c \in Clients : Unlearns(c)
      \/ UNCHANGED <<current, seen>>
  BY ServicesCases DEF Quiet, Constructs, Registers, SetReader, IsDueTo, NothingDue,
     BroadcastSnapshot, SendTo, Welcome
<1> QED
  BY <1>1, <1>2, <1>3

(* A client that takes a snapshot takes one that is on its way to it, and  *)
(* one that is not older than what it shows.                               *)
LEMMA TakesLater ==
  ASSUME ServicesTypeOK, OrderInv, NEW c \in Clients, Takes(c)
  PROVE  /\ current' = current /\ \A d \in Clients \ {c} : UNCHANGED <<down[d], seen[d]>>
         /\ Ordered(down'[c], seen'[c], current)
         /\ \/ seen' = seen
            \/ \E v \in 1 .. current :
                  /\ seen' = [seen EXCEPT ![c] = v]
                  /\ seen[c] # Unseen => seen[c] <= v
<1>1. /\ down \in [Clients -> Seq(ServicesToClient)] /\ down[c] \in Seq(ServicesToClient)
      /\ seen \in [Clients -> 1 .. StateLimit \cup {Unseen}]
      /\ down[c] # <<>> /\ down' = [down EXCEPT ![c] = Tail(down[c])]
      /\ Ordered(down[c], seen[c], current) /\ current \in 1 .. StateLimit
  BY DEF ServicesTypeOK, SnapshotTypeOK, Takes, ClientReceive, OrderInv
<1> DEFINE m == Head(down[c])
<1>2. m \in ServicesToClient
  BY <1>1
<1>3. /\ current' = current
      /\ seen' = [seen EXCEPT ![c] = IF Watches(c) /\ m.id = "SNAPSHOT" THEN m.state ELSE seen[c]]
  BY DEF Takes, OnSnapshot
<1>4. seen'[c] = seen[c] \/ (m.id = "SNAPSHOT" /\ seen'[c] = m.state)
  BY <1>1, <1>3
<1>5. /\ Ordered(Tail(down[c]), seen'[c], current)
      /\ m.id = "SNAPSHOT" => m.state <= current /\ (seen[c] # Unseen => seen[c] <= m.state)
  BY <1>1, <1>4, OrderedTail
<1>6. m.id = "SNAPSHOT" => m.state \in 1 .. StateLimit
  BY <1>2, PacketKinds
<1> HIDE DEF m
<1>7. \/ seen' = seen
      \/ \E v \in 1 .. current :
            /\ seen' = [seen EXCEPT ![c] = v]
            /\ seen[c] # Unseen => seen[c] <= v
  <2>1. CASE m.id = "SNAPSHOT" /\ Watches(c)
    <3>1. m.state \in 1 .. current
      BY <1>1, <1>5, <1>6, <2>1
    <3> QED
      BY <1>3, <1>5, <2>1, <3>1
  <2>2. CASE ~(m.id = "SNAPSHOT" /\ Watches(c))
    BY <1>1, <1>3, <2>2
  <2> QED
    BY <2>1, <2>2
<1>8. down'[c] = Tail(down[c]) /\ \A d \in Clients \ {c} : UNCHANGED <<down[d], seen[d]>>
  BY <1>1, <1>3
<1> QED
  BY <1>3, <1>5, <1>7, <1>8

(* Every step keeps the snapshots in order.                                *)
LEMMA OrderStep ==
  ASSUME ServicesTypeOK, OrderInv, ServicesNext
  PROVE  OrderInv'
<1>0. /\ down \in [Clients -> Seq(ServicesToClient)] /\ current \in Int
      /\ seen \in [Clients -> 1 .. StateLimit \cup {Unseen}]
  BY DEF ServicesTypeOK, SnapshotTypeOK
<1> SUFFICES ASSUME NEW d \in Clients
             PROVE  /\ seen'[d] # Unseen => seen'[d] <= current'
                    /\ Ordered(down'[d], seen'[d], current')
  BY DEF OrderInv
<1>1. /\ seen[d] # Unseen => seen[d] <= current
      /\ Ordered(down[d], seen[d], current)
      /\ seen[d] # Unseen => seen[d] \in Int
  BY <1>0 DEF OrderInv
<1>2. CASE \E c \in Clients : Takes(c)
  <2>1. PICK c \in Clients : Takes(c)
    BY <1>2
  <2>2. CASE c = d
    BY <1>0, <1>1, <2>1, <2>2, TakesLater
  <2>3. CASE c # d
    BY <1>1, <2>1, <2>3, TakesLater
  <2> QED
    BY <2>2, <2>3
<1>3. CASE \A c \in Clients : ~Takes(c)
  <2>1. seen'[d] = seen[d] \/ seen'[d] = Unseen
    BY <1>0, <1>3, GameStep
  <2>2. CASE current' = current
    <3>1. Ordered(<<>>, seen'[d], current) /\ Ordered(down[d], seen'[d], current)
      BY <1>1, <2>1 DEF Ordered
    <3>2. seen'[d] # Unseen => seen'[d] <= current
      BY <1>1, <2>1
    <3>3. down[d] \in Seq(ServicesToClient)
      BY <1>0
    <3>4. \A m \in ServicesToClient : (m.id = "SNAPSHOT" => m.state = current) =>
            Ordered(Append(down[d], m), seen'[d], current)
      BY <1>0, <3>1, <3>2, <3>3, OrderedAppend
    <3> QED
      BY <1>3, <2>2, <3>1, <3>2, <3>4, SendsNow
  <2>3. CASE current' # current
    <3>1. current' = current + 1 /\ UNCHANGED <<seen, down>>
      BY <1>3, <2>3, GameStep
    <3>2. \A k \in DOMAIN down[d] : down[d][k].id = "SNAPSHOT" => down[d][k].state \in Int
      BY <1>0, PacketKinds
    <3>3. Ordered(down[d], seen[d], current + 1)
      BY <1>0, <1>1, <3>2 DEF Ordered
    <3> QED
      BY <1>0, <1>1, <3>1, <3>3
  <2> QED
    BY <2>2, <2>3
<1> QED
  BY <1>2, <1>3

(* Every client shows a state the game was in, and moves on to later ones  *)
(* only, until it is started anew: snapshots implement the replica.        *)
THEOREM ReplicaCorrect == ServicesSpec => ImplementsReplica
<1>1. ServicesInit => OrderInv /\ Game!Init
  BY DEF ServicesInit, Init, SnapshotInit, OrderInv, Ordered, Game!Init
<1>2. ServicesTypeOK /\ OrderInv /\ ServicesNext => OrderInv'
  BY OrderStep
<1>3. OrderInv /\ UNCHANGED servicesVars => OrderInv'
  BY DEF OrderInv, servicesVars, sessionVars, snapshotVars
<1>4. ServicesTypeOK /\ OrderInv /\ [ServicesNext]_servicesVars => [Game!Next]_<<current, seen>>
  <2> SUFFICES ASSUME ServicesTypeOK, OrderInv, ServicesNext
               PROVE  [Game!Next]_<<current, seen>>
    BY DEF servicesVars, snapshotVars
  <2>1. ASSUME NEW c \in Clients, Takes(c) PROVE [Game!Next]_<<current, seen>>
    BY <2>1, TakesLater DEF Game!Next, Game!CatchUp
  <2> QED
    BY <2>1, GameStep DEF Game!Next, Game!Advance, Game!Forget
<1> QED
  BY <1>1, <1>2, <1>3, <1>4, ServicesTypesCorrect, PTL DEF ServicesSpec, ImplementsReplica, Game!Spec

-----------------------------------------------------------------------------
(* No snapshot is lost.                                                    *)

(* What SnapshotsKept says of one client.                                  *)
Kept(c) == due[c] # Unseen => EndsAs(down[c], SnapshotToClient, "state", seen[c], due[c])

(* A snapshot is due to a client only as long as it has the callback, and  *)
(* none is due before the server takes the connection.                     *)
DueInv ==
    \A c \in Clients :
        /\ due[c] # Unseen => Watches(c)
        /\ link[c] # NoSlot /\ pstate[link[c]] = "acknowledged" => due[c] = Unseen

(* Who is told that a snapshot is due.                                     *)
LEMMA DueStep ==
  ASSUME ServicesTypeOK, ServicesNext, NEW c \in Clients
  PROVE  \/ due'[c] = Unseen
         \/ UNCHANGED <<due[c], holder[c]>> /\ handlers[c] \subseteq handlers'[c]
         \/ /\ Watches(c) /\ UNCHANGED callbackVars
            /\ due'[c] = current /\ c \in Reached(pstate', link')
<1> USE DEF callbackVars, snapshotVars
<1>0. /\ due \in [Clients -> 1 .. StateLimit \cup {Unseen}]
      /\ holder \in [Ends -> {"none", "rpc", "snapshot", "other"}]
      /\ handlers \in [Ends -> SUBSET (Procs \cup {"show"})]
      /\ c \in Ends /\ pstate \in [Slots -> PeerState] /\ SessionTypeOK
  BY DEF ServicesTypeOK, SnapshotTypeOK, Ends, SessionTypeOK
<1>1. ASSUME NEW e \in Ends, Constructs(e)
      PROVE  \/ due'[c] = Unseen
             \/ UNCHANGED <<due[c], holder[c]>> /\ handlers[c] \subseteq handlers'[c]
  <2>1. CASE e = c
    BY <1>0, <1>1, <2>1 DEF Constructs, NothingDue
  <2>2. CASE e # c
    BY <1>0, <1>1, <2>2 DEF Constructs, NothingDue, Construct
  <2> QED
    BY <2>1, <2>2
<1>2. ASSUME NEW e \in Ends, Registers(e)
      PROVE  UNCHANGED <<due[c], holder[c]>> /\ handlers[c] \subseteq handlers'[c]
  BY <1>0, <1>2 DEF Registers, Register
<1>3. ASSUME NEW S, IsDueTo(S), UNCHANGED callbackVars,
             \A d \in S \cap Clients : d \in Reached(pstate', link')
      PROVE  \/ UNCHANGED <<due[c], holder[c]>> /\ handlers[c] \subseteq handlers'[c]
             \/ /\ Watches(c) /\ UNCHANGED callbackVars
                /\ due'[c] = current /\ c \in Reached(pstate', link')
  BY <1>3 DEF IsDueTo
<1>4. CASE /\ BroadcastSnapshot \/ \E i \in ClientID : SendTo(i)
           /\ UNCHANGED <<callbackVars, rpcVars>>
  <2>1. UNCHANGED <<pstate, link>>
    BY <1>4 DEF BroadcastSnapshot, SendTo, ServerBroadcast, ServerSend, enetVars
  <2>2. CASE BroadcastSnapshot
    BY <1>3, <1>4, <2>1, <2>2 DEF BroadcastSnapshot
  <2>3. ASSUME NEW i \in ClientID, SendTo(i)
        PROVE  \/ UNCHANGED <<due[c], holder[c]>> /\ handlers[c] \subseteq handlers'[c]
               \/ /\ Watches(c) /\ UNCHANGED callbackVars
                  /\ due'[c] = current /\ c \in Reached(pstate', link')
    <3>1. Addressee(i) \subseteq Reached(pstate, link)
      BY DEF Addressee
    <3> QED
      BY <1>3, <1>4, <2>1, <2>3, <3>1 DEF SendTo
  <2> QED
    BY <1>4, <2>2, <2>3
<1>5. ASSUME NEW s \in Slots, Welcome(s), UNCHANGED callbackVars
      PROVE  \/ UNCHANGED <<due[c], holder[c]>> /\ handlers[c] \subseteq handlers'[c]
             \/ /\ Watches(c) /\ UNCHANGED callbackVars
                /\ due'[c] = current /\ c \in Reached(pstate', link')
  <2>1. pstate' = [pstate EXCEPT ![s] = "connected"] /\ link' = link
    BY <1>5 DEF Welcome, ServerConnect
  <2>2. \A d \in Attached(s) \cap Clients : d \in Reached(pstate', link')
    BY <1>0, <2>1 DEF Attached, Reached
  <2>3. UNCHANGED snapshotVars \/ IsDueTo(Attached(s))
    BY <1>5 DEF Welcome
  <2> QED
    BY <1>3, <1>5, <2>2, <2>3
<1>6. ASSUME NEW d \in Clients, NothingDue(d), UNCHANGED callbackVars
      PROVE  \/ due'[c] = Unseen
             \/ UNCHANGED <<due[c], holder[c]>> /\ handlers[c] \subseteq handlers'[c]
  BY <1>0, <1>6 DEF NothingDue
<1>7. ASSUME NEW d \in Clients, Forgets(d), Unlearns(d)
      PROVE  \/ due'[c] = Unseen
             \/ UNCHANGED <<due[c], holder[c]>> /\ handlers[c] \subseteq handlers'[c]
  BY <1>0, <1>7 DEF Forgets, Unlearns
<1>8. \/ UNCHANGED <<due, callbackVars>>
      \/ \E e \in Ends : Constructs(e) \/ Registers(e)
      \/ /\ BroadcastSnapshot \/ \E i \in ClientID : SendTo(i)
         /\ UNCHANGED <<callbackVars, rpcVars>>
      \/ \E s \in Slots : Welcome(s) /\ UNCHANGED callbackVars
      \/ \E d \in Clients : NothingDue(d) /\ UNCHANGED callbackVars
      \/ \E d \in Clients : Forgets(d) /\ Unlearns(d)
  BY ServicesCases DEF Quiet, SetReader, Advance, Takes, OnSnapshot
<1> QED
  BY <1>1, <1>2, <1>4, <1>5, <1>6, <1>7, <1>8

(* A client whose connection comes about has nothing due, and its calls    *)
(* are counted from here.                                                  *)
LEMMA ConnectServices ==
  ASSUME ServicesTypeOK, ServicesNext, NEW c \in Clients, ConnectSucceeds(c)
  PROVE  UNCHANGED <<up, callbackVars>> /\ Connects(c) /\ NothingDue(c)
<1>1. /\ ~Background /\ ~UNCHANGED clientVars
      /\ \A d \in Clients : /\ ~ClientDisconnect(d) /\ ~Crash(d)
                            /\ ConnectSucceeds(d) => d = c
  BY ConnectAlone DEF ServicesTypeOK
<1>2. \/ UNCHANGED clientVars
      \/ Background
      \/ \E d \in Clients :
            /\ ConnectSucceeds(d) /\ UNCHANGED <<up, callbackVars>>
            /\ Connects(d) /\ NothingDue(d)
      \/ \E d \in Clients : ClientDisconnect(d) \/ Crash(d)
  BY ServicesCases DEF Constructs, Registers, SetReader, Advance, BroadcastSnapshot, SendTo,
     ServerSend, ServerBroadcast, AnswerLate, CallAll, ServerClose, Kick, CallServer, ClientSend,
     Welcome, ServerConnect, OnCall, ServerReceive, ServerDisconnect, Takes, ClientReceive,
     sessionVars
<1> QED
  BY <1>1, <1>2

(* Every step keeps what is said about due snapshots.                      *)
LEMMA DueInvStep ==
  ASSUME ServicesTypeOK, LinkInv, DueInv, ServicesNext
  PROVE  DueInv'
<1> SUFFICES ASSUME NEW c \in Clients, due'[c] # Unseen
             PROVE  /\ Watches(c)'
                    /\ ~(link'[c] # NoSlot /\ pstate'[link'[c]] = "acknowledged")
  BY DEF DueInv
<1>0. /\ due \in [Clients -> 1 .. StateLimit \cup {Unseen}] /\ SessionTypeOK
      /\ due[c] # Unseen => Watches(c)
      /\ link[c] # NoSlot /\ pstate[link[c]] = "acknowledged" => due[c] = Unseen
  BY DEF ServicesTypeOK, SnapshotTypeOK, DueInv
<1>1. Watches(c)'
  BY <1>0, DueStep DEF Watches, callbackVars
<1>2. ASSUME link'[c] # NoSlot, pstate'[link'[c]] = "acknowledged" PROVE FALSE
  <2>1. CASE ConnectSucceeds(c)
    BY <1>0, <2>1, ConnectServices DEF NothingDue
  <2>2. CASE ~ConnectSucceeds(c)
    <3>1. link[c] # NoSlot /\ pstate[link[c]] = "acknowledged"
      BY <1>0, <1>2, <2>2, HandshakeStep, ServicesIsSession
    <3>2. due'[c] # due[c] /\ c \notin Reached(pstate', link')
      BY <1>0, <1>2, <3>1 DEF Reached
    <3> QED
      BY <3>2, DueStep
  <2> QED
    BY <2>1, <2>2
<1> QED
  BY <1>1, <1>2

(* What a client shows when the packets on their way have been taken is    *)
(* what it would have shown before, or the snapshot sent to it now.        *)
LEMMA KeptStep ==
  ASSUME ServicesTypeOK, LinkInv, DueInv, SnapshotsKept, ServicesNext
  PROVE  SnapshotsKept'
<1> USE DEF snapshotVars
<1> DEFINE Ends2(q, old, new) == EndsAs(q, SnapshotToClient, "state", old, new)
<1> SUFFICES ASSUME NEW c \in Reached(pstate', link'), due'[c] # Unseen
             PROVE  Ends2(down'[c], seen'[c], due'[c])
  BY DEF SnapshotsKept
<1>0. /\ due \in [Clients -> 1 .. StateLimit \cup {Unseen}]
      /\ seen \in [Clients -> 1 .. StateLimit \cup {Unseen}]
      /\ down \in [Clients -> Seq(ServicesToClient)] /\ down[c] \in Seq(ServicesToClient)
      /\ up \in [Slots -> Seq(RPCToServer)]
      /\ current \in 1 .. StateLimit /\ owed \subseteq [id : ClientID, call : Call]
      /\ SessionTypeOK /\ c \in Clients /\ link'[c] # NoSlot
      /\ due[c] # Unseen => Watches(c)
  BY NoSlotAssumption DEF ServicesTypeOK, RPCTypeOK, SnapshotTypeOK, Reached, DueInv
<1>1. due[c] # Unseen => Ends2(down[c], seen[c], due[c])
  <2>1. CASE ButConnect
    <3>1. c \in Reached(pstate, link)
      BY <1>0, <2>1, ReachedStep
    <3> QED
      BY <3>1 DEF SnapshotsKept
  <2>2. ASSUME NEW s \in Slots, ServerConnect(s)
        PROVE  due[c] # Unseen => Ends2(down[c], seen[c], due[c])
    <3>1. /\ link' = link /\ pstate[s] = "acknowledged"
          /\ pstate' = [pstate EXCEPT ![s] = "connected"]
      BY <2>2 DEF ServerConnect
    <3>2. CASE link[c] = s
      BY <1>0, <3>1, <3>2 DEF DueInv
    <3>3. CASE link[c] # s
      <4>1. c \in Reached(pstate, link)
        BY <1>0, <3>1, <3>3 DEF Reached, SessionTypeOK
      <4> QED
        BY <4>1 DEF SnapshotsKept
    <3> QED
      BY <3>2, <3>3
  <2> QED
    BY <2>1, <2>2, ServicesIsSession DEF SessionStep
<1> HIDE DEF Ends2
(* Sending a snapshot.                                                     *)
<1>2. ASSUME NEW S \in SUBSET Clients, down' = AppendTo(down, S, Capture), IsDueTo(S)
      PROVE  Ends2(down'[c], seen'[c], due'[c])
  <2>1. Capture \in ServicesToClient /\ Capture \in SnapshotToClient
    BY <1>0, SentTypes
  <2>2. down'[c] = IF c \in S THEN Append(down[c], Capture) ELSE down[c]
    BY <1>0, <1>2, <2>1, SentDown
  <2>3. seen' = seen /\ due'[c] = IF c \in S /\ Watches(c) THEN current ELSE due[c]
    BY <1>0, <1>2 DEF IsDueTo
  <2>4. CASE c \in S
    <3>1. due'[c] = current
      BY <1>0, <2>3, <2>4
    <3>2. EndsAs(Append(down[c], Capture), SnapshotToClient, "state", seen[c], Capture["state"])
      BY <1>0, <2>1, EndsAsAppend
    <3>3. Capture["state"] = current
      BY DEF Capture
    <3> QED
      BY <2>2, <2>3, <2>4, <3>1, <3>2, <3>3 DEF Ends2
  <2>5. CASE c \notin S
    BY <1>1, <2>2, <2>3, <2>5
  <2> QED
    BY <2>4, <2>5
(* Sending something else.                                                 *)
<1>3. ASSUME NEW m \in ServicesToClient, m \notin SnapshotToClient,
             NEW S, down' = AppendTo(down, S, m), UNCHANGED snapshotVars
      PROVE  Ends2(down'[c], seen'[c], due'[c])
  <2>1. down'[c] = IF c \in S THEN Append(down[c], m) ELSE down[c]
    BY <1>0, <1>3, SentDown
  <2>2. Ends2(down[c], seen[c], due[c]) => Ends2(Append(down[c], m), seen[c], due[c])
    BY <1>0, <1>3, EndsAsAppend DEF Ends2
  <2> QED
    BY <1>1, <1>3, <2>1, <2>2
(* Sending nothing.                                                        *)
<1>4. ASSUME UNCHANGED <<down[c], seen[c]>>, due'[c] = due[c] \/ due'[c] = Unseen
      PROVE  Ends2(down'[c], seen'[c], due'[c])
  BY <1>1, <1>4
<1>5. ASSUME NEW d \in Clients, Takes(d) PROVE Ends2(down'[c], seen'[c], due'[c])
  <2>1. /\ down[d] # <<>> /\ down' = [down EXCEPT ![d] = Tail(down[d])] /\ due' = due
        /\ seen' = [seen EXCEPT ![d] = IF Watches(d) /\ Head(down[d]).id = "SNAPSHOT"
                                       THEN Head(down[d]).state ELSE seen[d]]
    BY <1>5 DEF Takes, ClientReceive, OnSnapshot
  <2>2. CASE d # c
    BY <1>0, <1>4, <2>1, <2>2
  <2>3. CASE d = c
    <3>1. Head(down[c]) \in ServicesToClient /\ Watches(c)
      BY <1>0, <2>1, <2>3
    <3>2. seen'[c] = IF Head(down[c]) \in SnapshotToClient THEN Head(down[c])["state"] ELSE seen[c]
      BY <1>0, <2>1, <2>3, <3>1, PacketKinds
    <3>3. EndsAs(Tail(down[c]), SnapshotToClient, "state",
                 IF Head(down[c]) \in SnapshotToClient THEN Head(down[c])["state"] ELSE seen[c],
                 due[c])
      BY <1>0, <1>1, <2>1, <2>3, EndsAsTail DEF Ends2
    <3> QED
      BY <1>0, <2>1, <2>3, <3>2, <3>3 DEF Ends2
  <2> QED
    BY <2>2, <2>3
<1>6. ASSUME Background /\ Quiet PROVE Ends2(down'[c], seen'[c], due'[c])
  BY <1>0, <1>4, <1>6, KeptDown DEF Quiet
<1>7. ASSUME NEW e \in Ends, Constructs(e) \/ Registers(e)
      PROVE  Ends2(down'[c], seen'[c], due'[c])
  <2>1. UNCHANGED <<down, seen>>
    BY <1>7 DEF Constructs, Registers, NothingDue, sessionVars
  <2>2. due'[c] = due[c] \/ due'[c] = Unseen
    BY <1>0, <1>7 DEF Constructs, Registers, NothingDue
  <2> QED
    BY <1>4, <2>1, <2>2
<1>8. ASSUME SetReader \/ Advance PROVE Ends2(down'[c], seen'[c], due'[c])
  BY <1>4, <1>8 DEF SetReader, Advance, sessionVars
<1>9. ASSUME BroadcastSnapshot PROVE Ends2(down'[c], seen'[c], due'[c])
  <2>1. down' = AppendTo(down, Reached(pstate, link), Capture) /\ IsDueTo(Reached(pstate, link))
    BY <1>9, ReliableSends DEF BroadcastSnapshot
  <2> QED
    BY <1>2, <2>1 DEF Reached
<1>10. ASSUME NEW i \in ClientID, SendTo(i) PROVE Ends2(down'[c], seen'[c], due'[c])
  <2>1. down' = AppendTo(down, Addressee(i), Capture) /\ IsDueTo(Addressee(i))
    BY <1>10, ReliableSends DEF SendTo
  <2> QED
    BY <1>2, <2>1 DEF Addressee, Attached
<1>11. ASSUME NEW o \in owed, AnswerLate(o), UNCHANGED snapshotVars
       PROVE  Ends2(down'[c], seen'[c], due'[c])
  <2>1. o.call \in Call /\ down' = AppendTo(down, Addressee(o.id), Answer(o.call))
    BY <1>0, <1>11 DEF AnswerLate, CallClient
  <2>2. Answer(o.call) \in ServicesToClient /\ Answer(o.call).id = "RPC"
    BY <2>1, SentTypes DEF Answer
  <2> QED
    BY <1>3, <1>11, <2>1, <2>2, PacketKinds
<1>12. ASSUME NEW p \in Procs, CallAll(p), UNCHANGED snapshotVars
       PROVE  Ends2(down'[c], seen'[c], due'[c])
  <2>1. down' = AppendTo(down, Reached(pstate, link), ToAll(p))
    BY <1>12, ReliableSends DEF CallAll
  <2>2. ToAll(p) \in ServicesToClient /\ ToAll(p).id = "RPC"
    BY SentTypes DEF ToAll
  <2> QED
    BY <1>3, <1>12, <2>1, <2>2, PacketKinds
<1>13. ASSUME \/ ServerClose
              \/ \E i \in ClientID : Kick(i) /\ UNCHANGED down
              \/ \E s \in Slots : ServerDisconnect(s) /\ UNCHANGED down,
              Quiet
       PROVE  Ends2(down'[c], seen'[c], due'[c])
  BY <1>4, <1>13 DEF ServerClose, Quiet
<1>14. ASSUME NEW d \in Clients, NEW p \in Procs, CallServer(d, p), UNCHANGED snapshotVars
       PROVE  Ends2(down'[c], seen'[c], due'[c])
  BY <1>4, <1>14 DEF CallServer, ClientSend
<1>15. ASSUME NEW s \in Slots, Welcome(s) PROVE Ends2(down'[c], seen'[c], due'[c])
  BY <1>2, <1>4, <1>15 DEF Welcome, Attached
<1>16. ASSUME NEW s \in Slots, OnCall(s), UNCHANGED snapshotVars
       PROVE  Ends2(down'[c], seen'[c], due'[c])
  <2>1. up[s] # <<>> /\ up[s] \in Seq(Call)
    BY <1>0, <1>16 DEF OnCall, ServerReceive, RPCToServer
  <2>2. Head(up[s]) \in Call
    BY <2>1
  <2>3. down' = down \/ down' = AppendTo(down, Addressee(data[s]), Answer(Head(up[s])))
    BY <1>16 DEF OnCall, Handle, CallClient
  <2>4. Answer(Head(up[s])) \in ServicesToClient /\ Answer(Head(up[s])).id = "RPC"
    BY <2>2, SentTypes DEF Answer
  <2> QED
    BY <1>3, <1>4, <1>16, <2>3, <2>4, PacketKinds
<1>17. ASSUME NEW d \in Clients,
              \/ ConnectSucceeds(d) /\ NothingDue(d)
              \/ ClientDisconnect(d) /\ Quiet
              \/ Crash(d) /\ Unlearns(d)
       PROVE  Ends2(down'[c], seen'[c], due'[c])
  <2>1. down'[c] = down[c]
    BY <1>0, <1>17, KeptDown
  <2>2. (due'[c] = due[c] /\ seen'[c] = seen[c]) \/ due'[c] = Unseen
    BY <1>0, <1>17 DEF NothingDue, Unlearns, Quiet
  <2> QED
    BY <1>4, <2>1, <2>2
<1> QED
  BY <1>5, <1>6, <1>7, <1>8, <1>9, <1>10, <1>11, <1>12, <1>13, <1>14, <1>15, <1>16, <1>17,
     ServicesCases

(* No snapshot is lost between remote calls, other snapshots and the ends  *)
(* of other players' connections: a client that had the callback when one  *)
(* was sent to it, and has it and the connection since, comes to show it.  *)
THEOREM SnapshotsCorrect == ServicesSpec => []SnapshotsKept
<1>1. ServicesInit => DueInv /\ SnapshotsKept
  BY DEF ServicesInit, SnapshotInit, Init, DueInv, SnapshotsKept, Reached
<1>2. ASSUME ServicesTypeOK, LinkInv, DueInv, SnapshotsKept, [ServicesNext]_servicesVars
      PROVE  DueInv' /\ SnapshotsKept'
  <2>1. CASE ServicesNext
    BY <1>2, <2>1, DueInvStep, KeptStep
  <2>2. CASE UNCHANGED servicesVars
    BY <1>2, <2>2 DEF DueInv, Watches, SnapshotsKept, servicesVars, sessionVars, enetVars,
       callbackVars, snapshotVars
  <2> QED
    BY <1>2, <2>1, <2>2
<1> QED
  BY <1>1, <1>2, ServicesLinks, PTL DEF ServicesSpec

-----------------------------------------------------------------------------
(* Answers go to the client that called, on the connection it called on.   *)

(* The call m was made by c, after the first so many.                      *)
Mine(m, c, from) == m.by = c /\ m.n > from[c]

(* Nothing is on its way to a client before its connection comes about, or *)
(* from a peer whose handshake is not complete; the packets from a client's *)
(* peer are its own, and so is the call whose answer would reach it.       *)
QuietDown == \A c \in Clients : cCall[c] = "connect" \/ ~cPeer[c] => down[c] = <<>>

PendingEmpty == \A s \in Slots : pstate[s] = "pending" => up[s] = <<>>

UpHome ==
    \A c \in Clients : link[c] # NoSlot =>
        \A k \in DOMAIN up[link[c]] : Mine(up[link[c]][k], c, since)

OwedHome ==
    \A o \in owed :
        /\ o.id < nextID
        /\ \A c \in Clients : o.id \in Known /\ link[c] = peers[o.id] => Mine(o.call, c, since)

HomeInv == QuietDown /\ PendingEmpty /\ UpHome /\ OwedHome /\ AnswersComeHome

(* Where a call goes: into the queue of the peer of a connection that      *)
(* stands, or nowhere.                                                     *)
LEMMA CallSent ==
  ASSUME ServicesTypeOK, NEW c \in Clients, NEW p \in Procs, CallServer(c, p)
  PROVE  /\ [proc |-> p, by |-> c, n |-> made[c] + 1] \in Call
         /\ \A s \in Slots :
               up'[s] = IF Stands(c) /\ link[c] = s
                        THEN Append(up[s], [proc |-> p, by |-> c, n |-> made[c] + 1])
                        ELSE up[s]
<1>0. /\ up \in [Slots -> Seq(RPCToServer)] /\ made \in [Clients -> Nat]
  BY DEF ServicesTypeOK, RPCTypeOK
<1> DEFINE m == [proc |-> p, by |-> c, n |-> made[c] + 1]
           open == {t \in Slots : link[c] = t /\ pstate[t] \in {"acknowledged", "connected"}}
<1>1. up' = AppendTo(up, open, m)
  BY DEF CallServer, ClientSend
<1>2. m \in Call
  BY <1>0, CallTypes DEF CallServer
<1>3. \A s \in Slots : s \in open <=> Stands(c) /\ link[c] = s
  BY NoSlotAssumption DEF Stands
<1> HIDE DEF m, open
<1>4. \A s \in Slots : up'[s] = IF s \in open THEN Append(up[s], m) ELSE up[s]
  BY <1>0, <1>1 DEF AppendTo
<1> QED
  BY <1>2, <1>3, <1>4 DEF m

(* The packets that arrive at the server, whoever sends them.              *)
LEMMA UpStep ==
  ASSUME ServicesTypeOK, ServicesNext, NEW s \in Slots
  PROVE  \/ up'[s] = up[s]
         \/ up'[s] = <<>> /\ pstate'[s] \notin {"acknowledged", "connected"}
         \/ OnCall(s)
         \/ \E c \in Clients, p \in Procs :
               /\ CallServer(c, p) /\ Stands(c) /\ link[c] = s
               /\ [proc |-> p, by |-> c, n |-> made[c] + 1] \in Call
               /\ up'[s] = Append(up[s], [proc |-> p, by |-> c, n |-> made[c] + 1])
<1> USE DEF enetVars, clientVars, serverVars, sessionVars
<1>0. up \in [Slots -> Seq(RPCToServer)] /\ SessionTypeOK /\ s # NoSlot
  BY NoSlotAssumption DEF ServicesTypeOK
<1> DEFINE Emptied == up'[s] = up[s] \/ (up'[s] = <<>> /\ pstate'[s] \notin {"acknowledged", "connected"})
<1>1. CASE Background
  BY <1>0, <1>1 DEF Background, ServerStart, ConnectBegin, ConnectRefused, ConnectFails,
     DisconnectBegin, DisconnectEnd, Accept, ReapPending, SessionTypeOK
<1>2. CASE ServerClose
  BY <1>0, <1>2 DEF ServerClose
<1>3. ASSUME NEW i \in ClientID, Kick(i) PROVE Emptied
  BY <1>0, <1>3 DEF Kick, Known, SessionTypeOK
<1>4. ASSUME NEW t \in Slots, ServerDisconnect(t) PROVE Emptied
  BY <1>0, <1>4 DEF ServerDisconnect, SessionTypeOK
<1>5. ASSUME NEW t \in Slots, OnCall(t) PROVE up'[s] = up[s] \/ OnCall(s)
  BY <1>0, <1>5 DEF OnCall, ServerReceive
<1>6. ASSUME NEW c \in Clients, NEW p \in Procs, CallServer(c, p)
      PROVE  \/ up'[s] = up[s]
             \/ /\ Stands(c) /\ link[c] = s
                /\ [proc |-> p, by |-> c, n |-> made[c] + 1] \in Call
                /\ up'[s] = Append(up[s], [proc |-> p, by |-> c, n |-> made[c] + 1])
  BY <1>6, CallSent
<1>7. \/ UNCHANGED up \/ Background \/ ServerClose
      \/ \E i \in ClientID : Kick(i)
      \/ \E t \in Slots : OnCall(t) \/ ServerDisconnect(t)
      \/ \E c \in Clients, p \in Procs : CallServer(c, p)
  BY ServicesCases DEF Constructs, Registers, SetReader, Advance, BroadcastSnapshot, SendTo,
     ServerSend, ServerBroadcast, AnswerLate, CallAll, Welcome, ServerConnect, Takes,
     ClientDisconnect, Crash
<1> QED
  BY <1>1, <1>2, <1>3, <1>4, <1>5, <1>6, <1>7

(* A call at the head of a queue, and how it is handled.                   *)
LEMMA CallTaken ==
  ASSUME ServicesTypeOK, NEW s \in Slots, OnCall(s)
  PROVE  /\ Head(up[s]) \in Call /\ up[s] # <<>> /\ up[s] \in Seq(Call)
         /\ pstate[s] = "connected" /\ Held(s)
         /\ up' = [up EXCEPT ![s] = Tail(up[s])]
         /\ UNCHANGED <<serverVars, enetVars, clientVars, made, since>>
         /\ \/ /\ down' = AppendTo(down, Addressee(data[s]), Answer(Head(up[s])))
               /\ UNCHANGED <<owed, settled>>
            \/ /\ owed' = owed \cup {[id |-> data[s], call |-> Head(up[s])]}
               /\ UNCHANGED <<down, settled>>
            \/ settled' = settled \cup {Head(up[s])} /\ UNCHANGED <<down, owed>>
<1>1. up[s] # <<>> /\ up[s] \in Seq(Call)
  BY DEF OnCall, ServerReceive, RPCToServer, ServicesTypeOK
<1>2. Head(up[s]) \in Call
  BY <1>1
<1>3. /\ pstate[s] = "connected" /\ Held(s)
      /\ up' = [up EXCEPT ![s] = Tail(up[s])]
      /\ UNCHANGED <<serverVars, enetVars, clientVars, made, since>>
  BY DEF OnCall, ServerReceive, Held
<1>4. \/ /\ down' = AppendTo(down, Addressee(data[s]), Answer(Head(up[s])))
         /\ UNCHANGED <<owed, settled>>
      \/ /\ owed' = owed \cup {[id |-> data[s], call |-> Head(up[s])]}
         /\ UNCHANGED <<down, settled>>
      \/ settled' = settled \cup {Head(up[s])} /\ UNCHANGED <<down, owed>>
  BY DEF OnCall, Handle, CallClient
<1> QED
  BY <1>1, <1>2, <1>3, <1>4

(* Whom an answer under a known id reaches: a client the server holds.     *)
LEMMA AddresseeIs ==
  ASSUME SessionTypeOK, NEW i \in ClientID, NEW c \in Addressee(i)
  PROVE  c \in Clients /\ i \in Known /\ link[c] = peers[i] /\ Stands(c)
BY NoSlotAssumption DEF Addressee, Attached, Reached, Stands, Known

(* What arrives at a client, and why.                                      *)
LEMMA ArrivesStep ==
  ASSUME ServicesTypeOK, ServicesNext, NEW c \in Clients
  PROVE  \/ down'[c] = down[c]
         \/ down'[c] = <<>> /\ link'[c] = NoSlot
         \/ Takes(c)
         \/ /\ Stands(c) /\ UNCHANGED <<clientVars, since>>
            /\ \E m \in ServicesToClient :
                  /\ down'[c] = Append(down[c], m)
                  /\ \/ m.id # "RPC"
                     \/ m.args = {}
                     \/ \E o \in owed : /\ m = Answer(o.call) /\ AnswerLate(o)
                                        /\ o.id \in Known /\ link[c] = peers[o.id]
                     \/ \E s \in Slots : /\ m = Answer(Head(up[s])) /\ OnCall(s)
                                         /\ data[s] \in Known /\ link[c] = peers[data[s]]
<1>0. /\ down \in [Clients -> Seq(ServicesToClient)] /\ SessionTypeOK
      /\ current \in 1 .. StateLimit /\ owed \subseteq [id : ClientID, call : Call]
  BY DEF ServicesTypeOK, RPCTypeOK, SnapshotTypeOK
<1> DEFINE Sent(m) ==
      \/ m.id # "RPC"
      \/ m.args = {}
      \/ \E o \in owed : /\ m = Answer(o.call) /\ AnswerLate(o)
                         /\ o.id \in Known /\ link[c] = peers[o.id]
      \/ \E s \in Slots : /\ m = Answer(Head(up[s])) /\ OnCall(s)
                          /\ data[s] \in Known /\ link[c] = peers[data[s]]
    Goal == \/ down'[c] = down[c]
            \/ /\ Stands(c) /\ UNCHANGED <<clientVars, since>>
               /\ \E m \in ServicesToClient : down'[c] = Append(down[c], m) /\ Sent(m)
<1>1. ASSUME NEW s \in Slots, OnCall(s) PROVE Goal
  <2>1. /\ Head(up[s]) \in Call /\ UNCHANGED <<clientVars, since>> /\ data[s] \in ClientID
        /\ \/ down' = down
           \/ down' = AppendTo(down, Addressee(data[s]), Answer(Head(up[s])))
    BY <1>0, <1>1, CallTaken DEF SessionTypeOK
  <2>2. Answer(Head(up[s])) \in ServicesToClient
    BY <2>1, SentTypes
  <2>3. \/ down'[c] = down[c]
        \/ c \in Addressee(data[s]) /\ down'[c] = Append(down[c], Answer(Head(up[s])))
    BY <1>0, <2>1 DEF AppendTo
  <2>4. c \in Addressee(data[s]) =>
          Stands(c) /\ data[s] \in Known /\ link[c] = peers[data[s]]
    BY <1>0, <2>1, AddresseeIs
  <2> QED
    BY <1>1, <2>1, <2>2, <2>3, <2>4
<1>2. ASSUME NEW o \in owed, AnswerLate(o) PROVE Goal
  <2>1. /\ o.call \in Call /\ o.id \in ClientID /\ UNCHANGED <<clientVars, since>>
        /\ down' = AppendTo(down, Addressee(o.id), Answer(o.call))
    BY <1>0, <1>2 DEF AnswerLate, CallClient
  <2>2. Answer(o.call) \in ServicesToClient
    BY <2>1, SentTypes
  <2>3. \/ down'[c] = down[c]
        \/ c \in Addressee(o.id) /\ down'[c] = Append(down[c], Answer(o.call))
    BY <1>0, <2>1 DEF AppendTo
  <2>4. c \in Addressee(o.id) => Stands(c) /\ o.id \in Known /\ link[c] = peers[o.id]
    BY <1>0, <2>1, AddresseeIs
  <2> QED
    BY <1>2, <2>1, <2>2, <2>3, <2>4
<1>3. ASSUME NEW S, NEW m \in ServicesToClient, down' = AppendTo(down, S, m),
             m.id # "RPC" \/ m.args = {}, c \in S => Stands(c), UNCHANGED <<clientVars, since>>
      PROVE  Goal
  <2>1. down'[c] = IF c \in S THEN Append(down[c], m) ELSE down[c]
    BY <1>0, <1>3, SentDown
  <2>2. Sent(m)
    BY <1>3
  <2> QED
    BY <1>3, <2>1, <2>2
<1>4. /\ \A p \in Procs : ToAll(p) \in ServicesToClient /\ ToAll(p).args = {}
      /\ Capture \in ServicesToClient /\ Capture.id # "RPC"
  BY <1>0, SentTypes DEF ToAll, Capture
<1>5. c \in Reached(pstate, link) => Stands(c)
  BY NoSlotAssumption DEF Reached, Stands
<1>6. ASSUME NEW p \in Procs, CallAll(p) PROVE Goal
  <2>1. /\ down' = AppendTo(down, Reached(pstate, link), ToAll(p))
        /\ UNCHANGED <<clientVars, since>>
    BY <1>6, ReliableSends DEF CallAll, ServerBroadcast, rpcVars
  <2> QED
    BY <1>3, <1>4, <1>5, <2>1
<1>7. ASSUME BroadcastSnapshot, UNCHANGED rpcVars PROVE Goal
  <2>1. /\ down' = AppendTo(down, Reached(pstate, link), Capture)
        /\ UNCHANGED <<clientVars, since>>
    BY <1>7, ReliableSends DEF BroadcastSnapshot, ServerBroadcast, rpcVars
  <2> QED
    BY <1>3, <1>4, <1>5, <2>1
<1>8. ASSUME NEW i \in ClientID, SendTo(i), UNCHANGED rpcVars PROVE Goal
  <2>1. down' = AppendTo(down, Addressee(i), Capture) /\ UNCHANGED <<clientVars, since>>
    BY <1>8, ReliableSends DEF SendTo, ServerSend, rpcVars
  <2> QED
    BY <1>0, <1>3, <1>4, <2>1, AddresseeIs
<1>9. ASSUME NEW s \in Slots, Welcome(s), UNCHANGED rpcVars PROVE Goal
  <2>1. /\ UNCHANGED <<clientVars, since>> /\ pstate[s] = "acknowledged"
        /\ down' = down \/ down' = AppendTo(down, Attached(s), Capture)
    BY <1>9 DEF Welcome, ServerConnect, rpcVars
  <2>2. c \in Attached(s) => Stands(c)
    BY <2>1, NoSlotAssumption DEF Attached, Stands
  <2> QED
    BY <1>3, <1>4, <2>1, <2>2
<1>10. ASSUME NEW d \in Clients, Takes(d) PROVE down'[c] = down[c] \/ Takes(c)
  BY <1>0, <1>10 DEF Takes, ClientReceive
<1> HIDE DEF Goal
<1>11. \/ down'[c] = down[c] \/ (down'[c] = <<>> /\ link'[c] = NoSlot) \/ Takes(c) \/ Goal
       \/ \E s \in Slots : OnCall(s) \/ (Welcome(s) /\ UNCHANGED rpcVars)
       \/ \E o \in owed : AnswerLate(o)
       \/ \E p \in Procs : CallAll(p)
       \/ BroadcastSnapshot /\ UNCHANGED rpcVars
       \/ \E i \in ClientID : SendTo(i) /\ UNCHANGED rpcVars
  BY <1>10, DownStep
<1> QED
  BY <1>1, <1>2, <1>6, <1>7, <1>8, <1>9, <1>11 DEF Goal

(* Only a connection that comes about changes what its client's calls are  *)
(* counted from.                                                           *)
LEMMA SinceStep ==
  ASSUME ServicesTypeOK, ServicesNext, NEW c \in Clients, ~ConnectSucceeds(c)
  PROVE  since'[c] = since[c]
<1>1. \/ UNCHANGED since
      \/ \E d \in Clients : ConnectSucceeds(d) /\ Connects(d)
  BY ServicesCases DEF Quiet, Constructs, Registers, CallAll, AnswerLate, CallServer, OnCall,
     Takes, OnAnswer, rpcVars
<1>2. since \in [Clients -> Nat]
  BY DEF ServicesTypeOK, RPCTypeOK
<1> QED
  BY <1>1, <1>2 DEF Connects

(* What is in a queue when one was put behind the others, or taken.        *)
LEMMA QueueElements ==
  ASSUME NEW P, NEW q \in Seq(P), NEW m \in P
  PROVE  /\ \A k \in DOMAIN Append(q, m) :
               Append(q, m)[k] = m \/ \E j \in DOMAIN q : Append(q, m)[k] = q[j]
         /\ q # <<>> =>
               /\ 1 \in DOMAIN q /\ Head(q) = q[1]
               /\ \A k \in DOMAIN Tail(q) : \E j \in DOMAIN q : Tail(q)[k] = q[j]
<1>1. \A k \in DOMAIN Append(q, m) :
        Append(q, m)[k] = m \/ (k \in DOMAIN q /\ Append(q, m)[k] = q[k])
  OBVIOUS
<1>2. q # <<>> => /\ 1 \in DOMAIN q /\ Head(q) = q[1]
                  /\ \A k \in DOMAIN Tail(q) : k + 1 \in DOMAIN q /\ Tail(q)[k] = q[k + 1]
  OBVIOUS
<1> QED
  BY <1>1, <1>2

(* A packet on its way to the server was there before, or is a call made   *)
(* now on the connection.                                                  *)
LEMMA UpElements ==
  ASSUME ServicesTypeOK, ServicesNext, NEW s \in Slots, NEW k \in DOMAIN up'[s]
  PROVE  \/ \E j \in DOMAIN up[s] : up'[s][k] = up[s][j]
         \/ \E c \in Clients, p \in Procs :
               /\ CallServer(c, p) /\ Stands(c) /\ link[c] = s
               /\ up'[s][k] = [proc |-> p, by |-> c, n |-> made[c] + 1]
<1>0. up \in [Slots -> Seq(RPCToServer)] /\ up[s] \in Seq(Call)
  BY DEF ServicesTypeOK, RPCToServer
<1>1. CASE up'[s] = up[s] \/ up'[s] = <<>>
  BY <1>0, <1>1
<1>2. CASE OnCall(s)
  <2>1. up[s] # <<>> /\ up'[s] = Tail(up[s]) /\ Head(up[s]) \in Call
    BY <1>0, <1>2, CallTaken
  <2> QED
    BY <1>0, <2>1, QueueElements
<1>3. ASSUME NEW c \in Clients, NEW p \in Procs, CallServer(c, p), Stands(c), link[c] = s,
             [proc |-> p, by |-> c, n |-> made[c] + 1] \in Call,
             up'[s] = Append(up[s], [proc |-> p, by |-> c, n |-> made[c] + 1])
      PROVE  \/ \E j \in DOMAIN up[s] : up'[s][k] = up[s][j]
             \/ up'[s][k] = [proc |-> p, by |-> c, n |-> made[c] + 1]
  BY <1>0, <1>3, QueueElements
<1> QED
  BY <1>1, <1>2, <1>3, UpStep

(* An answer on its way to a client was there before, or is given now.     *)
LEMMA DownElements ==
  ASSUME ServicesTypeOK, ServicesNext, NEW c \in Clients,
         NEW k \in DOMAIN down'[c], down'[c][k].id = "RPC", NEW m \in down'[c][k].args
  PROVE  \/ \E j \in DOMAIN down[c] : down[c][j].id = "RPC" /\ m \in down[c][j].args
         \/ \E o \in owed : /\ m = o.call /\ AnswerLate(o)
                            /\ o.id \in Known /\ link[c] = peers[o.id]
         \/ \E s \in Slots : /\ m = Head(up[s]) /\ OnCall(s)
                             /\ data[s] \in Known /\ link[c] = peers[data[s]]
<1>0. down \in [Clients -> Seq(ServicesToClient)] /\ down[c] \in Seq(ServicesToClient)
  BY DEF ServicesTypeOK
<1>1. CASE down'[c] = down[c] \/ down'[c] = <<>>
  BY <1>0, <1>1
<1>2. CASE Takes(c)
  <2>1. down[c] # <<>> /\ down'[c] = Tail(down[c])
    BY <1>0, <1>2 DEF Takes, ClientReceive
  <2>2. Head(down[c]) \in ServicesToClient
    BY <1>0, <2>1
  <2> QED
    BY <1>0, <2>1, <2>2, QueueElements
<1>3. ASSUME NEW x \in ServicesToClient, down'[c] = Append(down[c], x),
             \/ x.id # "RPC"
             \/ x.args = {}
             \/ \E o \in owed : /\ x = Answer(o.call) /\ AnswerLate(o)
                                /\ o.id \in Known /\ link[c] = peers[o.id]
             \/ \E s \in Slots : /\ x = Answer(Head(up[s])) /\ OnCall(s)
                                 /\ data[s] \in Known /\ link[c] = peers[data[s]]
      PROVE  \/ \E j \in DOMAIN down[c] : down[c][j].id = "RPC" /\ m \in down[c][j].args
             \/ \E o \in owed : /\ m = o.call /\ AnswerLate(o)
                                /\ o.id \in Known /\ link[c] = peers[o.id]
             \/ \E s \in Slots : /\ m = Head(up[s]) /\ OnCall(s)
                                 /\ data[s] \in Known /\ link[c] = peers[data[s]]
  <2>1. down'[c][k] = x \/ \E j \in DOMAIN down[c] : down'[c][k] = down[c][j]
    BY <1>0, <1>3, QueueElements
  <2>2. \A y : Answer(y).args = {y}
    BY DEF Answer
  <2> QED
    BY <1>3, <2>1, <2>2
<1> QED
  BY <1>1, <1>2, <1>3, ArrivesStep

(* What the application owes it owed before, or was just called for.       *)
LEMMA OwedElements ==
  ASSUME ServicesTypeOK, ServicesNext, NEW o \in owed'
  PROVE  \/ o \in owed
         \/ \E s \in Slots : OnCall(s) /\ o = [id |-> data[s], call |-> Head(up[s])]
<1>1. ASSUME NEW s \in Slots, OnCall(s)
      PROVE  o \in owed \/ o = [id |-> data[s], call |-> Head(up[s])]
  BY <1>1, CallTaken
<1>2. owed' \subseteq owed \/ \E s \in Slots : OnCall(s)
  BY ServicesCases DEF Quiet, Constructs, Registers, CallAll, AnswerLate, CallServer,
     Takes, OnAnswer, Connects, rpcVars
<1> QED
  BY <1>1, <1>2

(* Nothing is sent to a client before its connection comes about.          *)
LEMMA QuietDownStep ==
  ASSUME ServicesTypeOK, LinkInv, QuietDown, ServicesNext
  PROVE  QuietDown'
<1> SUFFICES ASSUME NEW c \in Clients, cCall'[c] = "connect" \/ ~cPeer'[c]
             PROVE  down'[c] = <<>>
  BY DEF QuietDown
<1>0. /\ down \in [Clients -> Seq(ServicesToClient)] /\ SessionTypeOK
  BY DEF ServicesTypeOK
<1>1. cCall[c] = "connect" \/ ~cPeer[c] \/ down'[c] = <<>>
  BY <1>0, PeerLost, ServicesIsSession
<1>2. ASSUME cCall[c] = "connect" \/ ~cPeer[c] PROVE down'[c] = <<>>
  <2>1. down[c] = <<>> /\ ~Stands(c)
    BY <1>2 DEF QuietDown, Stands, LinkInv, Waiting, ClientPointersAgree
  <2>2. ~Takes(c)
    BY <2>1 DEF Takes, ClientReceive
  <2> QED
    BY <2>1, <2>2, ArrivesStep
<1> QED
  BY <1>1, <1>2

(* Nothing comes from a peer whose handshake is not complete.              *)
LEMMA PendingEmptyStep ==
  ASSUME ServicesTypeOK, LinkInv, PendingEmpty, ServicesNext
  PROVE  PendingEmpty'
<1> SUFFICES ASSUME NEW s \in Slots, pstate'[s] = "pending" PROVE up'[s] = <<>>
  BY DEF PendingEmpty
<1>0. up \in [Slots -> Seq(RPCToServer)] /\ SessionTypeOK
  BY DEF ServicesTypeOK
<1>1. pstate[s] = "pending" \/ up'[s] = <<>>
  BY <1>0, AcceptStep, ServicesIsSession
<1>2. ASSUME pstate[s] = "pending" PROVE up'[s] = <<>>
  <2>1. up[s] = <<>>
    BY <1>2 DEF PendingEmpty
  <2>2. ~OnCall(s)
    BY <2>1 DEF OnCall, ServerReceive
  <2> QED
    BY <1>2, <2>1, <2>2, UpStep DEF Stands
<1> QED
  BY <1>1, <1>2

(* The packets from a client's peer stay its own.                          *)
LEMMA UpHomeStep ==
  ASSUME ServicesTypeOK, LinkInv, PendingEmpty, UpHome, ServicesNext
  PROVE  UpHome'
<1> SUFFICES ASSUME NEW c \in Clients, link'[c] # NoSlot,
                    NEW k \in DOMAIN up'[link'[c]]
             PROVE  Mine(up'[link'[c]][k], c, since')
  BY DEF UpHome
<1>0. /\ up \in [Slots -> Seq(RPCToServer)] /\ up' \in [Slots -> Seq(RPCToServer)]
      /\ SessionTypeOK /\ SessionTypeOK' /\ RPCTypeOK
  BY ServicesTypeStep DEF ServicesTypeOK
<1>1. PendingEmpty'
  BY PendingEmptyStep
<1>2. link'[c] \in Slots
  BY <1>0 DEF SessionTypeOK
<1>3. CASE link'[c] # link[c]
  <2>1. pstate'[link'[c]] = "pending"
    BY <1>0, <1>3, AcceptStep, ServicesIsSession
  <2>2. up'[link'[c]] = <<>>
    BY <1>1, <1>2, <2>1 DEF PendingEmpty
  <2> QED
    BY <2>2
<1>4. CASE link'[c] = link[c]
  <2> DEFINE s == link[c]
  <2>0. s \in Slots /\ s # NoSlot /\ k \in DOMAIN up'[s]
    BY <1>2, <1>4, NoSlotAssumption
  <2>1. \A j \in DOMAIN up[s] : Mine(up[s][j], c, since)
    BY <2>0 DEF UpHome
  <2>2. CASE ConnectSucceeds(c)
    <3>1. pstate[s] = "pending" /\ up' = up
      BY <1>4, <2>2, ConnectServices DEF LinkInv, Waiting, ConnectSucceeds
    <3>2. up'[s] = <<>>
      BY <2>0, <3>1 DEF PendingEmpty
    <3> QED
      BY <2>0, <3>2
  <2>3. CASE ~ConnectSucceeds(c)
    <3>1. since'[c] = since[c] /\ \A m : Mine(m, c, since) => Mine(m, c, since')
      BY <2>3, SinceStep DEF Mine
    <3>2. CASE \E j \in DOMAIN up[s] : up'[s][k] = up[s][j]
      BY <1>4, <2>1, <3>1, <3>2
    <3>3. ASSUME NEW d \in Clients, NEW p \in Procs, link[d] = s,
                 up'[s][k] = [proc |-> p, by |-> d, n |-> made[d] + 1]
          PROVE  Mine(up'[s][k], c, since)
      <4>1. d = c
        BY <2>0, <3>3 DEF LinkInv, LinksAgree
      <4>2. made[c] \in Nat /\ since[c] \in Nat /\ since[c] <= made[c]
        BY <1>0 DEF RPCTypeOK
      <4> QED
        BY <3>3, <4>1, <4>2 DEF Mine
    <3> QED
      BY <1>4, <2>0, <3>1, <3>2, <3>3, UpElements
  <2> QED
    BY <2>2, <2>3
<1> QED
  BY <1>3, <1>4

(* What the application owes goes on to be owed to the client that called. *)
LEMMA OwedHomeStep ==
  ASSUME NoWrap, ServicesTypeOK, LinkInv, MatchInv, UpHome, OwedHome, ServicesNext
  PROVE  OwedHome'
<1>0. /\ up \in [Slots -> Seq(RPCToServer)] /\ SessionTypeOK /\ SessionTypeOK' /\ SessionStep
      /\ owed \subseteq [id : ClientID, call : Call]
  BY ServicesTypeStep, ServicesIsSession DEF ServicesTypeOK, RPCTypeOK
<1>1. ASSUME NEW o \in owed' PROVE /\ o.id < nextID'
                                   /\ \A c \in Clients : o.id \in Known' /\ link'[c] = peers'[o.id]
                                                           => Mine(o.call, c, since')
  <2>1. CASE o \in owed
    <3>1. o.id < nextID /\ o.id \in ClientID /\ nextID' \in {nextID, nextID + 1}
      BY <1>0, <2>1, KnownSteps DEF OwedHome
    <3>2. o.id \in Int /\ nextID \in Int
      BY <1>0, <3>1, SpanAssumption DEF ClientID, SessionTypeOK
    <3>3. ASSUME NEW c \in Clients, o.id \in Known', link'[c] = peers'[o.id]
          PROVE  Mine(o.call, c, since')
      <4>1. o.id \in Known /\ link[c] = peers[o.id] /\ Held(link[c])
        BY <1>0, <3>1, <3>2, <3>3, KnownLed
      <4>2. Mine(o.call, c, since)
        BY <2>1, <4>1 DEF OwedHome
      <4>3. ~ConnectSucceeds(c)
        BY <4>1 DEF ConnectSucceeds, LinkInv, Waiting, Held
      <4> QED
        BY <4>2, <4>3, SinceStep DEF Mine
    <3> QED
      BY <3>1, <3>2, <3>3
  <2>2. CASE o \notin owed
    <3>1. PICK s \in Slots : OnCall(s) /\ o = [id |-> data[s], call |-> Head(up[s])]
      BY <1>1, <2>2, OwedElements
    <3>2. /\ Held(s) /\ up[s] \in Seq(Call) /\ up[s] # <<>> /\ Head(up[s]) \in Call
          /\ UNCHANGED <<peers, nextID, link, since>>
      BY <3>1, CallTaken DEF serverVars, enetVars
    <3>3. data[s] < nextID /\ peers[data[s]] = s
      BY <1>0, <3>2, HeldIsKnown
    <3>4. 1 \in DOMAIN up[s] /\ Head(up[s]) = up[s][1]
      BY <3>2, QueueElements
    <3>5. ASSUME NEW c \in Clients, link[c] = s PROVE Mine(Head(up[s]), c, since)
      BY <3>4, <3>5, NoSlotAssumption DEF UpHome
    <3>6. \A c \in Clients, m \in Call : Mine(m, c, since') <=> Mine(m, c, since)
      BY <3>2 DEF Mine
    <3> QED
      BY <3>1, <3>2, <3>3, <3>5, <3>6
  <2> QED
    BY <2>1, <2>2
<1> QED
  BY <1>1 DEF OwedHome

(* What arrives at a client is an answer to a call of its own.             *)
LEMMA ComeHomeStep ==
  ASSUME NoWrap, ServicesTypeOK, LinkInv, MatchInv, HomeInv, ServicesNext
  PROVE  AnswersComeHome'
<1> SUFFICES ASSUME NEW c \in Clients, NEW k \in DOMAIN down'[c], down'[c][k].id = "RPC",
                    NEW m \in down'[c][k].args
             PROVE  Mine(m, c, since')
  BY DEF AnswersComeHome, Mine
<1>0. /\ down \in [Clients -> Seq(ServicesToClient)] /\ down[c] \in Seq(ServicesToClient)
      /\ SessionTypeOK /\ up \in [Slots -> Seq(RPCToServer)]
  BY DEF ServicesTypeOK
<1>1. CASE ConnectSucceeds(c)
  <2>1. down'[c] = down[c] /\ down[c] = <<>>
    BY <1>1 DEF ConnectSucceeds, HomeInv, QuietDown
  <2> QED
    BY <2>1
<1>2. CASE ~ConnectSucceeds(c)
  <2>1. since'[c] = since[c] /\ \A x : Mine(x, c, since) => Mine(x, c, since')
    BY <1>2, SinceStep DEF Mine
  <2>2. \A j \in DOMAIN down[c] : down[c][j].id = "RPC" => \A x \in down[c][j].args : Mine(x, c, since)
    BY DEF HomeInv, AnswersComeHome, Mine
  <2>3. ASSUME NEW o \in owed, o.id \in Known, link[c] = peers[o.id]
        PROVE  Mine(o.call, c, since)
    BY <2>3 DEF HomeInv, OwedHome
  <2>4. ASSUME NEW s \in Slots, OnCall(s), data[s] \in Known, link[c] = peers[data[s]]
        PROVE  Mine(Head(up[s]), c, since)
    <3>1. Head(up[s]) \in Call /\ up[s] \in Seq(Call) /\ up[s] # <<>> /\ Held(s)
      BY <2>4, CallTaken
    <3>2. link[c] = s /\ s # NoSlot
      BY <1>0, <2>4, <3>1, HeldIsKnown, NoSlotAssumption
    <3>3. 1 \in DOMAIN up[s] /\ Head(up[s]) = up[s][1]
      BY <3>1, QueueElements
    <3> QED
      BY <3>1, <3>2, <3>3 DEF HomeInv, UpHome
  <2> QED
    BY <2>1, <2>2, <2>3, <2>4, DownElements
<1> QED
  BY <1>1, <1>2

(* The inductive invariant, while no id is used twice.                     *)
LEMMA HomeHolds == NoWrap => (ServicesSpec => []HomeInv)
<1> SUFFICES ASSUME NoWrap PROVE ServicesSpec => []HomeInv
  OBVIOUS
<1>1. ServicesInit => HomeInv
  BY DEF ServicesInit, Init, RPCInit, HomeInv, QuietDown, PendingEmpty, UpHome, OwedHome,
     AnswersComeHome
<1>2. ASSUME ServicesTypeOK, LinkInv, MatchInv, HomeInv, [ServicesNext]_servicesVars
      PROVE  HomeInv'
  <2>1. CASE ServicesNext
    BY <1>2, <2>1, QuietDownStep, PendingEmptyStep, UpHomeStep, OwedHomeStep, ComeHomeStep
       DEF HomeInv
  <2>2. CASE UNCHANGED servicesVars
    BY <1>2, <2>2 DEF HomeInv, QuietDown, PendingEmpty, UpHome, OwedHome, AnswersComeHome, Mine,
       Known, servicesVars, sessionVars, serverVars, enetVars, clientVars, rpcVars
  <2> QED
    BY <1>2, <2>1, <2>2
<1>3. ServicesTypeOK /\ LinkInv /\ MatchInv /\ HomeInv /\ [ServicesNext]_servicesVars => HomeInv'
  BY <1>2
<1> QED
  BY <1>1, <1>3, ServicesMatch, PTL DEF ServicesSpec

(* An answer goes to the client that made the call, on the connection it   *)
(* made it on, however late it is given and whoever has the ENet peer, the *)
(* player's place or a restarted server by then; else it goes nowhere.     *)
THEOREM AnswersCorrect == NoWrap => (ServicesSpec => []AnswersComeHome)
<1>1. HomeInv => AnswersComeHome
  BY DEF HomeInv
<1> QED
  BY <1>1, HomeHolds, PTL

-----------------------------------------------------------------------------
(* Every call is in one place.                                             *)

(* Counting the packets of S in a queue.                                   *)
LEMMA TimesType ==
  ASSUME NEW P, NEW q \in Seq(P), NEW S
  PROVE  /\ IsFiniteSet({k \in DOMAIN q : q[k] \in S}) /\ Times(q, S) \in Nat
         /\ Times(q, S) = 0 <=> \A k \in DOMAIN q : q[k] \notin S
<1> DEFINE at == {k \in DOMAIN q : q[k] \in S}
<1>1. DOMAIN q = 1 .. Len(q) /\ Len(q) \in Int
  OBVIOUS
<1>2. IsFiniteSet(DOMAIN q)
  BY <1>1, FS_Interval
<1>3. IsFiniteSet(at)
  BY <1>2, FS_Subset
<1>4. Cardinality(at) \in Nat /\ (Cardinality(at) = 0 <=> at = {})
  BY <1>3, FS_CardinalityType, FS_EmptySet
<1> QED
  BY <1>3, <1>4 DEF Times

(* One more.                                                               *)
LEMMA TimesAppend ==
  ASSUME NEW P, NEW q \in Seq(P), NEW m \in P, NEW S
  PROVE  Times(Append(q, m), S) = Times(q, S) + (IF m \in S THEN 1 ELSE 0)
<1> DEFINE r == Append(q, m)
           at == {k \in DOMAIN q : q[k] \in S}
           then == {k \in DOMAIN r : r[k] \in S}
<1>1. /\ DOMAIN q = 1 .. Len(q) /\ Len(q) \in Nat /\ DOMAIN r = 1 .. Len(q) + 1
      /\ r[Len(q) + 1] = m /\ \A k \in DOMAIN q : r[k] = q[k]
  OBVIOUS
<1>2. IsFiniteSet(at) /\ Times(q, S) = Cardinality(at) /\ Times(q, S) \in Nat
  BY TimesType DEF Times
<1>3. Times(r, S) = Cardinality(then)
  BY DEF Times
<1> HIDE DEF r
<1>4. then = IF m \in S THEN at \cup {Len(q) + 1} ELSE at
  BY <1>1
<1>5. Len(q) + 1 \notin at
  BY <1>1
<1> HIDE DEF at, then
<1>6. Cardinality(at \cup {Len(q) + 1}) = Cardinality(at) + 1
  BY <1>2, <1>5, FS_AddElement
<1> QED
  BY <1>2, <1>3, <1>4, <1>6 DEF r

(* One less.                                                               *)
LEMMA TimesTail ==
  ASSUME NEW P, NEW q \in Seq(P), q # <<>>, NEW S
  PROVE  Times(q, S) = Times(Tail(q), S) + (IF Head(q) \in S THEN 1 ELSE 0)
<1> DEFINE r == Tail(q)
           at == {k \in DOMAIN q : q[k] \in S}
           then == {k \in DOMAIN r : r[k] \in S}
           f == [k \in then |-> k + 1]
<1>1. /\ DOMAIN q = 1 .. Len(q) /\ Len(q) \in Nat \ {0} /\ Head(q) = q[1]
      /\ DOMAIN r = 1 .. Len(q) - 1 /\ \A k \in DOMAIN r : r[k] = q[k + 1]
      /\ r \in Seq(P)
  OBVIOUS
<1>2. /\ IsFiniteSet(at) /\ Times(q, S) = Cardinality(at) /\ Times(q, S) \in Nat
      /\ IsFiniteSet(then) /\ Times(r, S) = Cardinality(then) /\ Times(r, S) \in Nat
  BY <1>1, TimesType DEF Times
<1> HIDE DEF r
<1>3. /\ \A k \in then : k \in Int /\ k + 1 \in at \ {1}
      /\ \A j \in at \ {1} : j - 1 \in then /\ j = (j - 1) + 1
  BY <1>1
<1>4. f \in [then -> at \ {1}] /\ \A k \in then : f[k] = k + 1
  BY <1>3
<1> HIDE DEF at, then, f
<1>5. f \in Injection(then, at \ {1})
  BY <1>3, <1>4 DEF Injection, IsInjective
<1>6. f \in Surjection(then, at \ {1})
  BY <1>3, <1>4 DEF Surjection
<1>7. ExistsBijection(then, at \ {1})
  BY <1>5, <1>6 DEF ExistsBijection, Bijection
<1>8. Cardinality(at \ {1}) = Cardinality(then)
  BY <1>2, <1>7, FS_Bijection
<1>9. Cardinality(at \ {1}) = IF 1 \in at THEN Cardinality(at) - 1 ELSE Cardinality(at)
  BY <1>2, FS_RemoveElement
<1>10. 1 \in at <=> Head(q) \in S
  BY <1>1 DEF at
<1> QED
  BY <1>2, <1>8, <1>9, <1>10 DEF r

(* Nothing but calls that were made is on its way, owed or done with.      *)
Past(m, now) == m.n <= now[m.by]

AllPast ==
    /\ \A s \in Slots : \A k \in DOMAIN up[s] : Past(up[s][k], made)
    /\ \A o \in owed : Past(o.call, made)
    /\ \A c \in Clients : \A k \in DOMAIN down[c] :
          down[c][k].id = "RPC" => \A m \in down[c][k].args : Past(m, made)
    /\ \A m \in settled : Past(m, made)

(* A call of a connection that stands comes from that client's peer, and   *)
(* its answer is owed under the id of that peer.                           *)
FromItsPeer ==
    \A c \in Clients : Stands(c) =>
        /\ \A s \in Slots : \A k \in DOMAIN up[s] : Mine(up[s][k], c, since) => link[c] = s
        /\ \A o \in owed : Mine(o.call, c, since) => o.id \in Known /\ peers[o.id] = link[c]

KeepInv == IsFiniteSet(owed) /\ AllPast /\ FromItsPeer /\ CallsKept

(* What becomes of the calls of a client.                                  *)
LEMMA MadeStep ==
  ASSUME ServicesTypeOK, ServicesNext
  PROVE  /\ \A c \in Clients : made'[c] = made[c] \/ (\E p \in Procs : CallServer(c, p))
         /\ \A c \in Clients, p \in Procs : CallServer(c, p) =>
               /\ made' = [made EXCEPT ![c] = made[c] + 1]
               /\ UNCHANGED <<owed, since, settled, down>>
         /\ \A m \in Call : Past(m, made) => Past(m, made')
<1>0. made \in [Clients -> Nat]
  BY DEF ServicesTypeOK, RPCTypeOK
<1>1. \A c \in Clients, p \in Procs : CallServer(c, p) =>
        /\ made' = [made EXCEPT ![c] = made[c] + 1]
        /\ UNCHANGED <<owed, since, settled, down>>
  BY DEF CallServer, ClientSend
<1>2. made' = made \/ \E c \in Clients, p \in Procs : CallServer(c, p)
  BY ServicesCases DEF Quiet, Constructs, Registers, CallAll, AnswerLate, OnCall,
     Takes, OnAnswer, Connects, rpcVars
<1>3. \A c \in Clients : made'[c] = made[c] \/ (\E p \in Procs : CallServer(c, p))
  BY <1>0, <1>1, <1>2
<1>4. \A c \in Clients : made[c] \in Int /\ made'[c] \in {made[c], made[c] + 1}
  BY <1>0, <1>1, <1>2
<1>5. ASSUME NEW m \in Call, Past(m, made) PROVE Past(m, made')
  <2>1. m.by \in Clients /\ m.n \in Int
    BY DEF Call
  <2> QED
    BY <1>4, <1>5, <2>1 DEF Past
<1> QED
  BY <1>1, <1>3, <1>5

(* A call is done with when its answer is taken, or when it meets nobody.  *)
LEMMA SettledElements ==
  ASSUME ServicesTypeOK, ServicesNext, NEW m \in settled'
  PROVE  \/ m \in settled
         \/ \E s \in Slots : OnCall(s) /\ m = Head(up[s])
         \/ \E c \in Clients : /\ Takes(c) /\ down[c] # <<>>
                               /\ Head(down[c]).id = "RPC" /\ m \in Head(down[c]).args
<1>1. ASSUME NEW s \in Slots, OnCall(s) PROVE m \in settled \/ m = Head(up[s])
  BY <1>1, CallTaken
<1>2. ASSUME NEW c \in Clients, Takes(c)
      PROVE  \/ m \in settled
             \/ down[c] # <<>> /\ Head(down[c]).id = "RPC" /\ m \in Head(down[c]).args
  BY <1>2 DEF Takes, ClientReceive, OnAnswer
<1>3. \/ settled' = settled
      \/ \E s \in Slots : OnCall(s)
      \/ \E c \in Clients : Takes(c)
  BY ServicesCases DEF Quiet, Constructs, Registers, CallAll, AnswerLate, CallServer,
     Connects, rpcVars
<1> QED
  BY <1>1, <1>2, <1>3

(* The first packet of a queue is one of them.                             *)
LEMMA HeadIn ==
  ASSUME NEW P, NEW q \in Seq(P), q # <<>>
  PROVE  1 \in DOMAIN q /\ Head(q) = q[1] /\ Head(q) \in P
OBVIOUS

(* Nothing comes from the future.                                          *)
LEMMA AllPastStep ==
  ASSUME ServicesTypeOK, AllPast, ServicesNext
  PROVE  AllPast'
<1>0. /\ up \in [Slots -> Seq(RPCToServer)] /\ down \in [Clients -> Seq(ServicesToClient)]
      /\ made \in [Clients -> Nat] /\ settled \subseteq Call
      /\ owed \subseteq [id : ClientID, call : Call]
  BY DEF ServicesTypeOK, RPCTypeOK
<1>1. ASSUME NEW s \in Slots, NEW k \in DOMAIN up[s] PROVE up[s][k] \in Call
  BY <1>0 DEF RPCToServer
<1>2. ASSUME NEW c \in Clients, NEW k \in DOMAIN down[c], down[c][k].id = "RPC"
      PROVE  down[c][k].args \subseteq Call
  <2>1. down[c][k] \in ServicesToClient
    BY <1>0
  <2> QED
    BY <1>2, <2>1, PacketKinds
<1>3. ASSUME NEW s \in Slots, OnCall(s) PROVE Past(Head(up[s]), made')
  <2>1. up[s] \in Seq(Call) /\ up[s] # <<>>
    BY <1>3, CallTaken
  <2>2. 1 \in DOMAIN up[s] /\ Head(up[s]) = up[s][1] /\ Head(up[s]) \in Call
    BY <2>1, HeadIn
  <2> QED
    BY <2>2, MadeStep DEF AllPast
<1>4. ASSUME NEW o \in owed PROVE Past(o.call, made')
  BY <1>0, MadeStep DEF AllPast
<1>5. ASSUME NEW c \in Clients, NEW k \in DOMAIN down[c], down[c][k].id = "RPC",
             NEW m \in down[c][k].args
      PROVE  Past(m, made')
  BY <1>2, <1>5, MadeStep DEF AllPast
<1>6. ASSUME NEW s \in Slots, NEW k \in DOMAIN up'[s] PROVE Past(up'[s][k], made')
  <2>1. CASE \E j \in DOMAIN up[s] : up'[s][k] = up[s][j]
    BY <1>1, <2>1, MadeStep DEF AllPast
  <2>2. ASSUME NEW c \in Clients, NEW p \in Procs, CallServer(c, p),
               up'[s][k] = [proc |-> p, by |-> c, n |-> made[c] + 1]
        PROVE  Past(up'[s][k], made')
    BY <1>0, <2>2, MadeStep DEF Past
  <2> QED
    BY <2>1, <2>2, UpElements
<1>7. ASSUME NEW o \in owed' PROVE Past(o.call, made')
  BY <1>3, <1>4, OwedElements
<1>8. ASSUME NEW c \in Clients, NEW k \in DOMAIN down'[c], down'[c][k].id = "RPC",
             NEW m \in down'[c][k].args
      PROVE  Past(m, made')
  BY <1>3, <1>4, <1>5, <1>8, DownElements
<1>9. ASSUME NEW m \in settled' PROVE Past(m, made')
  <2>1. CASE m \in settled
    BY <1>0, <2>1, MadeStep DEF AllPast
  <2>2. ASSUME NEW c \in Clients, down[c] # <<>>, Head(down[c]).id = "RPC",
               m \in Head(down[c]).args
        PROVE  Past(m, made')
    <3>1. 1 \in DOMAIN down[c] /\ Head(down[c]) = down[c][1]
      BY <1>0, <2>2, HeadIn
    <3> QED
      BY <1>5, <2>2, <3>1
  <2> QED
    BY <1>3, <2>1, <2>2, SettledElements
<1> QED
  BY <1>6, <1>7, <1>8, <1>9 DEF AllPast

(* Calls and answers stay with the peer of the client that called.         *)
LEMMA FromItsPeerStep ==
  ASSUME NoWrap, ServicesTypeOK, LinkInv, MatchInv, AllPast, FromItsPeer, ServicesNext
  PROVE  FromItsPeer'
<1>0. /\ up \in [Slots -> Seq(RPCToServer)] /\ SessionTypeOK /\ SessionStep
      /\ made \in [Clients -> Nat] /\ since \in [Clients -> Nat]
      /\ owed \subseteq [id : ClientID, call : Call]
  BY ServicesIsSession DEF ServicesTypeOK, RPCTypeOK
<1>1. AllPast'
  BY AllPastStep
<1> SUFFICES ASSUME NEW c \in Clients, Stands(c)'
             PROVE  /\ \A s \in Slots : \A k \in DOMAIN up'[s] :
                          Mine(up'[s][k], c, since') => link'[c] = s
                    /\ \A o \in owed' :
                          Mine(o.call, c, since') => o.id \in Known' /\ peers'[o.id] = link'[c]
  BY DEF FromItsPeer
<1>2. CASE ConnectSucceeds(c)
  <2>1. since' = [since EXCEPT ![c] = made[c]] /\ made' = made
    BY <1>2, ConnectServices DEF Connects
  <2>2. \A m : Mine(m, c, since') => ~(m.n <= made[c]) \/ m.n \notin Int
    BY <1>0, <2>1 DEF Mine
  <2>3. \A m \in Call : Past(m, made') => ~Mine(m, c, since')
    <3> SUFFICES ASSUME NEW m \in Call, Past(m, made'), Mine(m, c, since') PROVE FALSE
      OBVIOUS
    <3>1. m.n \in Int /\ m.by = c
      BY DEF Call, Mine
    <3> QED
      BY <2>1, <2>2, <3>1 DEF Past
  <2>4. /\ up' \in [Slots -> Seq(RPCToServer)] /\ owed' \subseteq [id : ClientID, call : Call]
    BY ServicesTypeStep DEF ServicesTypeOK, RPCTypeOK
  <2>5. \A s \in Slots : \A k \in DOMAIN up'[s] : up'[s][k] \in Call
    BY <2>4 DEF RPCToServer
  <2> QED
    BY <1>1, <2>3, <2>4, <2>5 DEF AllPast
<1>3. CASE ~ConnectSucceeds(c)
  <2>1. Stands(c) /\ link'[c] = link[c] /\ since'[c] = since[c]
    BY <1>0, <1>3, StandsStep, SinceStep
  <2>2. \A m : Mine(m, c, since') <=> Mine(m, c, since)
    BY <2>1 DEF Mine
  <2>3. ASSUME NEW s \in Slots, NEW k \in DOMAIN up'[s], Mine(up'[s][k], c, since)
        PROVE  link[c] = s
    <3>1. CASE \E j \in DOMAIN up[s] : up'[s][k] = up[s][j]
      BY <2>1, <2>3, <3>1 DEF FromItsPeer
    <3>2. ASSUME NEW d \in Clients, NEW p \in Procs, link[d] = s,
                 up'[s][k] = [proc |-> p, by |-> d, n |-> made[d] + 1]
          PROVE  link[c] = s
      BY <2>3, <3>2 DEF Mine
    <3> QED
      BY <3>1, <3>2, UpElements
  <2>4. ASSUME NEW o \in owed', Mine(o.call, c, since)
        PROVE  o.id \in Known' /\ peers'[o.id] = link[c]
    <3>1. o.id \in Known /\ peers[o.id] = link[c]
      <4>1. CASE o \in owed
        BY <2>1, <2>4, <4>1 DEF FromItsPeer
      <4>2. ASSUME NEW s \in Slots, OnCall(s), o = [id |-> data[s], call |-> Head(up[s])]
            PROVE  o.id \in Known /\ peers[o.id] = link[c]
        <5>1. up[s] \in Seq(Call) /\ up[s] # <<>> /\ Held(s)
          BY <4>2, CallTaken
        <5>2. 1 \in DOMAIN up[s] /\ Head(up[s]) = up[s][1]
          BY <5>1, HeadIn
        <5>3. link[c] = s
          BY <2>1, <2>4, <4>2, <5>2 DEF FromItsPeer
        <5>4. data[s] \in Known /\ peers[data[s]] = s
          BY <1>0, <5>1, HeldIsKnown
        <5> QED
          BY <4>2, <5>3, <5>4
      <4> QED
        BY <4>1, <4>2, OwedElements
    <3> QED
      BY <1>0, <2>1, <3>1, KnownStays DEF Stands
  <2> QED
    BY <2>1, <2>2, <2>3, <2>4
<1> QED
  BY <1>2, <1>3

(* The answers to some of the calls.                                       *)
Back(it) == {Answer(m) : m \in it}

(* Which packets these are.                                                *)
LEMMA BackIs ==
  /\ \A it, m : Answer(m) \in Back(it) <=> m \in it
  /\ \A it, x : x \in Back(it) => x.id = "RPC" /\ \E m \in it : x.args = {m}
<1>1. \A m : Answer(m).args = {m} /\ Answer(m).id = "RPC"
  BY DEF Answer
<1> QED
  BY <1>1 DEF Back

(* The n-th call of c is in one place of four, if the peer of c is s.      *)
InOnePlace(c, s, n) ==
    Times(up[s], Numbered(c, n)) + Cardinality({o \in owed : o.call \in Numbered(c, n)})
        + Times(down[c], Back(Numbered(c, n)))
        + (IF Numbered(c, n) \cap settled = {} THEN 0 ELSE 1) = 1

(* A call that is made is in one place.                                    *)
LEMMA PlaceCalled ==
  ASSUME ServicesTypeOK, AllPast, IsFiniteSet(owed), NEW c \in Clients, NEW s \in Slots,
         Stands(c), link[c] = s, NEW p \in Procs, CallServer(c, p),
         NEW n \in 1 .. made[c] + 1, n <= made[c] => InOnePlace(c, s, n)
  PROVE  InOnePlace(c, s, n)'
<1> DEFINE it == Numbered(c, n)
           m == [proc |-> p, by |-> c, n |-> made[c] + 1]
<1>0. /\ up[s] \in Seq(Call) /\ down[c] \in Seq(ServicesToClient) 
      /\ made[c] \in Nat /\ owed \subseteq [id : ClientID, call : Call]
  BY DEF ServicesTypeOK, RPCTypeOK, RPCToServer
<1>1. m \in Call /\ up'[s] = Append(up[s], m) /\ UNCHANGED <<owed, settled, down>>
  BY <1>0, CallSent, MadeStep DEF CallServer, ClientSend
<1>2. Times(up'[s], it) = Times(up[s], it) + (IF m \in it THEN 1 ELSE 0)
  BY <1>0, <1>1, TimesAppend
<1>3. m \in it <=> n = made[c] + 1
  BY <1>1 DEF Numbered
<1>4. CASE n <= made[c]
  <2>1. m \notin it
    BY <1>0, <1>3, <1>4
  <2>2. Times(up[s], it) \in Nat
    BY <1>0, TimesType
  <2>3. Times(up'[s], it) = Times(up[s], it)
    BY <1>2, <2>1, <2>2
  <2> QED
    BY <1>1, <1>4, <2>3 DEF InOnePlace
<1>5. CASE n = made[c] + 1
  <2>1. \A x \in it : ~Past(x, made)
    BY <1>0, <1>5 DEF Past, Numbered
  <2>2. Times(up[s], it) = 0
    BY <1>0, <2>1, TimesType DEF AllPast
  <2>3. {o \in owed : o.call \in it} = {}
    BY <2>1 DEF AllPast
  <2>4. \A k \in DOMAIN down[c] : down[c][k] \notin Back(it)
    BY <2>1, BackIs DEF AllPast
  <2>5. Times(down[c], Back(it)) = 0
    BY <1>0, <2>4, TimesType
  <2>6. it \cap settled = {}
    BY <2>1 DEF AllPast
  <2>7. Cardinality({o \in owed : o.call \in it}) = 0
    BY <2>3, FS_EmptySet
  <2>8. Times(up'[s], it) = 1
    BY <1>2, <1>3, <1>5, <2>2
  <2> QED
    BY <1>1, <2>5, <2>6, <2>7, <2>8 DEF InOnePlace
<1> QED
  BY <1>0, <1>4, <1>5

(* The four counts are numbers.                                            *)
LEMMA CountTypes ==
  ASSUME ServicesTypeOK, IsFiniteSet(owed), NEW c \in Clients, NEW s \in Slots, NEW n
  PROVE  /\ Times(up[s], Numbered(c, n)) \in Nat
         /\ Times(down[c], Back(Numbered(c, n))) \in Nat
         /\ IsFiniteSet({o \in owed : o.call \in Numbered(c, n)})
         /\ Cardinality({o \in owed : o.call \in Numbered(c, n)}) \in Nat
<1>1. up[s] \in Seq(RPCToServer) /\ down[c] \in Seq(ServicesToClient)
  BY DEF ServicesTypeOK
<1>2. IsFiniteSet({o \in owed : o.call \in Numbered(c, n)})
  BY FS_Subset
<1> QED
  BY <1>1, <1>2, TimesType, FS_CardinalityType

(* A player the server can reach is the one whom an answer under the id of *)
(* the peer reaches.                                                       *)
LEMMA ReachesPeer ==
  ASSUME SessionTypeOK, MatchInv, NEW c \in Clients, NEW s \in Slots, Stands(c), link[c] = s,
         NEW i \in Known, peers[i] = s
  PROVE  c \in Addressee(i)
<1>1. Held(s) /\ pstate[s] = "connected"
  BY DEF Stands, Held, MatchInv, PeersMatchSlots
<1> QED
  BY <1>1 DEF Addressee, Attached, Reached

(* A call that is handled moves to the next place, and no other does.      *)
LEMMA PlaceHandled ==
  ASSUME ServicesTypeOK, MatchInv, FromItsPeer, IsFiniteSet(owed),
         NEW c \in Clients, NEW s \in Slots, Stands(c), link[c] = s,
         NEW n \in Int, n > since[c], InOnePlace(c, s, n), NEW t \in Slots, OnCall(t)
  PROVE  InOnePlace(c, s, n)'
<1> DEFINE it == Numbered(c, n)
           h == Head(up[t])
           owing == {o \in owed : o.call \in it}
           x == [id |-> data[t], call |-> h]
<1>0. /\ up \in [Slots -> Seq(RPCToServer)] /\ up[s] \in Seq(Call) /\ SessionTypeOK
      /\ down \in [Clients -> Seq(ServicesToClient)] /\ down[c] \in Seq(ServicesToClient)
  BY DEF ServicesTypeOK, RPCToServer
<1>1. /\ h \in Call /\ up[t] # <<>> /\ up[t] \in Seq(Call) /\ Held(t)
      /\ up' = [up EXCEPT ![t] = Tail(up[t])]
      /\ \/ /\ down' = AppendTo(down, Addressee(data[t]), Answer(h))
            /\ UNCHANGED <<owed, settled>>
         \/ owed' = owed \cup {x} /\ UNCHANGED <<down, settled>>
         \/ settled' = settled \cup {h} /\ UNCHANGED <<down, owed>>
  BY CallTaken
<1>2. /\ Times(up[s], it) \in Nat /\ Times(down[c], Back(it)) \in Nat
      /\ IsFiniteSet(owing) /\ Cardinality(owing) \in Nat
      /\ Times(up[s], it) + Cardinality(owing) + Times(down[c], Back(it))
           + (IF it \cap settled = {} THEN 0 ELSE 1) = 1
  BY CountTypes DEF InOnePlace
<1>3. Answer(h) \in ServicesToClient
  BY <1>1, SentTypes
<1>4. ASSUME h \notin it PROVE InOnePlace(c, s, n)'
  <2>1. Times(up'[s], it) = Times(up[s], it)
    <3>1. CASE t = s
      <4>1. Times(up[s], it) = Times(Tail(up[s]), it) + 0 /\ up'[s] = Tail(up[s])
        BY <1>0, <1>1, <1>4, <3>1, TimesTail
      <4>2. Tail(up[s]) \in Seq(Call)
        BY <1>1, <3>1
      <4>3. Times(Tail(up[s]), it) \in Nat
        BY <4>2, TimesType
      <4> QED
        BY <4>1, <4>3
    <3>2. CASE t # s
      BY <1>0, <1>1, <3>2
    <3> QED
      BY <3>1, <3>2
  <2>2. {o \in owed' : o.call \in it} = owing
    BY <1>1, <1>4
  <2>3. Times(down'[c], Back(it)) = Times(down[c], Back(it))
    <3>1. Answer(h) \notin Back(it)
      BY <1>4, BackIs
    <3>2. Times(Append(down[c], Answer(h)), Back(it)) = Times(down[c], Back(it)) + 0
      BY <1>0, <1>3, <3>1, TimesAppend
    <3>3. down'[c] = down[c] \/ down'[c] = Append(down[c], Answer(h))
      BY <1>0, <1>1 DEF AppendTo
    <3>4. CASE down'[c] = Append(down[c], Answer(h))
      BY <1>2, <3>2, <3>4
    <3> QED
      BY <3>3, <3>4
  <2>4. it \cap settled' = it \cap settled
    BY <1>1, <1>4
  <2> QED
    BY <1>2, <2>1, <2>2, <2>3, <2>4 DEF InOnePlace
<1>5. ASSUME h \in it PROVE InOnePlace(c, s, n)'
  <2>1. t = s
    <3>1. Mine(h, c, since)
      BY <1>5 DEF Mine, Numbered
    <3>2. 1 \in DOMAIN up[t] /\ h = up[t][1]
      BY <1>1, HeadIn
    <3> QED
      BY <3>1, <3>2 DEF FromItsPeer
  <2>2. Times(up[s], it) = Times(up'[s], it) + 1
    BY <1>0, <1>1, <1>5, <2>1, TimesTail
  <2>3. Times(up'[s], it) \in Nat
    <3>1. up'[s] \in Seq(Call)
      BY <1>0, <1>1, <2>1
    <3> QED
      BY <3>1, TimesType
  <2>4. /\ Times(up'[s], it) = 0 /\ Cardinality(owing) = 0 /\ Times(down[c], Back(it)) = 0
        /\ it \cap settled = {}
    BY <1>2, <2>2, <2>3
  <2>5. ASSUME down' = AppendTo(down, Addressee(data[t]), Answer(h)), UNCHANGED <<owed, settled>>
        PROVE  InOnePlace(c, s, n)'
    <3>1. data[s] \in Known /\ peers[data[s]] = s
      BY <1>0, <1>1, <2>1, HeldIsKnown
    <3>2. down'[c] = Append(down[c], Answer(h))
      BY <1>0, <2>1, <2>5, <3>1, ReachesPeer DEF AppendTo
    <3>3. Times(down'[c], Back(it)) = Times(down[c], Back(it)) + 1
      BY <1>0, <1>3, <1>5, <3>2, TimesAppend, BackIs
    <3> QED
      BY <2>4, <2>5, <3>3 DEF InOnePlace
  <2>6. ASSUME owed' = owed \cup {x}, UNCHANGED <<down, settled>> PROVE InOnePlace(c, s, n)'
    <3>1. owing = {}
      BY <1>2, <2>4, FS_EmptySet
    <3>2. {o \in owed' : o.call \in it} = {x}
      BY <1>5, <2>6, <3>1
    <3>3. Cardinality({o \in owed' : o.call \in it}) = 1
      BY <3>2, FS_Singleton
    <3>4. Times(down'[c], Back(it)) = 0 /\ it \cap settled' = {}
      BY <2>4, <2>6
    <3> QED
      BY <2>4, <3>3, <3>4 DEF InOnePlace
  <2>7. ASSUME settled' = settled \cup {h}, UNCHANGED <<down, owed>> PROVE InOnePlace(c, s, n)'
    BY <1>5, <2>4, <2>7 DEF InOnePlace
  <2> QED
    BY <1>1, <2>5, <2>6, <2>7
<1> QED
  BY <1>4, <1>5

(* An answer that was owed is on its way, if it is owed to that call.      *)
LEMMA PlaceAnswered ==
  ASSUME ServicesTypeOK, MatchInv, FromItsPeer, IsFiniteSet(owed),
         NEW c \in Clients, NEW s \in Slots, Stands(c), link[c] = s,
         NEW n \in Int, n > since[c], InOnePlace(c, s, n), NEW o \in owed, AnswerLate(o)
  PROVE  InOnePlace(c, s, n)'
<1> DEFINE it == Numbered(c, n)
           owing == {z \in owed : z.call \in it}
<1>0. /\ owed \subseteq [id : ClientID, call : Call] /\ SessionTypeOK
      /\ down \in [Clients -> Seq(ServicesToClient)] /\ down[c] \in Seq(ServicesToClient)
  BY DEF ServicesTypeOK, RPCTypeOK
<1>1. /\ owed' = owed \ {o} /\ UNCHANGED <<up, settled>>
      /\ down' = AppendTo(down, Addressee(o.id), Answer(o.call))
  BY DEF AnswerLate, CallClient
<1>2. /\ Times(up[s], it) \in Nat /\ Times(down[c], Back(it)) \in Nat
      /\ IsFiniteSet(owing) /\ Cardinality(owing) \in Nat
      /\ Times(up[s], it) + Cardinality(owing) + Times(down[c], Back(it))
           + (IF it \cap settled = {} THEN 0 ELSE 1) = 1
  BY CountTypes DEF InOnePlace
<1>3. Answer(o.call) \in ServicesToClient
  BY <1>0, SentTypes
<1>4. ASSUME o.call \notin it PROVE InOnePlace(c, s, n)'
  <2>1. {z \in owed' : z.call \in it} = owing
    BY <1>1, <1>4
  <2>2. Answer(o.call) \notin Back(it)
    BY <1>4, BackIs
  <2>3. Times(Append(down[c], Answer(o.call)), Back(it)) = Times(down[c], Back(it)) + 0
    BY <1>0, <1>3, <2>2, TimesAppend
  <2>4. down'[c] = down[c] \/ down'[c] = Append(down[c], Answer(o.call))
    BY <1>0, <1>1 DEF AppendTo
  <2>5. Times(down'[c], Back(it)) = Times(down[c], Back(it))
    <3>1. CASE down'[c] = Append(down[c], Answer(o.call))
      BY <1>2, <2>3, <3>1
    <3> QED
      BY <2>4, <3>1
  <2> QED
    BY <1>1, <1>2, <2>1, <2>5 DEF InOnePlace
<1>5. ASSUME o.call \in it PROVE InOnePlace(c, s, n)'
  <2>1. Mine(o.call, c, since)
    BY <1>5 DEF Mine, Numbered
  <2>2. o.id \in Known /\ peers[o.id] = s
    BY <2>1 DEF FromItsPeer
  <2>3. down'[c] = Append(down[c], Answer(o.call))
    BY <1>0, <1>1, <2>2, ReachesPeer DEF AppendTo
  <2>4. Times(down'[c], Back(it)) = Times(down[c], Back(it)) + 1
    BY <1>0, <1>3, <1>5, <2>3, TimesAppend, BackIs
  <2>5. {z \in owed' : z.call \in it} = owing \ {o} /\ o \in owing
    BY <1>1, <1>5
  <2>6. Cardinality({z \in owed' : z.call \in it}) = Cardinality(owing) - 1
    BY <1>2, <2>5, FS_RemoveElement
  <2> QED
    BY <1>1, <1>2, <2>4, <2>6 DEF InOnePlace
<1> QED
  BY <1>4, <1>5

(* An answer that is taken is done with, and no other call is.             *)
LEMMA PlaceTaken ==
  ASSUME ServicesTypeOK, AnswersComeHome, IsFiniteSet(owed),
         NEW c \in Clients, NEW s \in Slots,
         NEW n \in Int, InOnePlace(c, s, n), NEW d \in Clients, Takes(d)
  PROVE  InOnePlace(c, s, n)'
<1> DEFINE it == Numbered(c, n)
           h == Head(down[d])
<1>0. /\ down \in [Clients -> Seq(ServicesToClient)] /\ down[d] \in Seq(ServicesToClient)
      /\ down[c] \in Seq(ServicesToClient)
  BY DEF ServicesTypeOK
<1>1. /\ down[d] # <<>> /\ down' = [down EXCEPT ![d] = Tail(down[d])]
      /\ settled' = IF h.id = "RPC" THEN settled \cup h.args ELSE settled
      /\ UNCHANGED <<up, owed>>
  BY DEF Takes, ClientReceive, OnAnswer
<1>2. /\ Times(up[s], it) \in Nat /\ Times(down[c], Back(it)) \in Nat
      /\ Cardinality({o \in owed : o.call \in it}) \in Nat
      /\ Times(up[s], it) + Cardinality({o \in owed : o.call \in it}) + Times(down[c], Back(it))
           + (IF it \cap settled = {} THEN 0 ELSE 1) = 1
  BY CountTypes DEF InOnePlace
<1>3. 1 \in DOMAIN down[d] /\ h = down[d][1] /\ h \in ServicesToClient
  BY <1>0, <1>1, HeadIn
<1>4. ASSUME d # c PROVE InOnePlace(c, s, n)'
  <2>1. h.id = "RPC" => \A m \in h.args : m.by = d
    BY <1>3 DEF AnswersComeHome
  <2>2. it \cap settled' = it \cap settled
    BY <1>1, <1>4, <2>1 DEF Numbered
  <2>3. down'[c] = down[c]
    BY <1>0, <1>1, <1>4
  <2> QED
    BY <1>1, <1>2, <2>2, <2>3 DEF InOnePlace
<1>5. ASSUME d = c PROVE InOnePlace(c, s, n)'
  <2>1. down'[c] = Tail(down[c])
    BY <1>0, <1>1, <1>5
  <2>2. /\ Times(down[c], Back(it)) = Times(Tail(down[c]), Back(it))
                                      + (IF h \in Back(it) THEN 1 ELSE 0)
        /\ Times(Tail(down[c]), Back(it)) \in Nat
    <3>1. Tail(down[c]) \in Seq(ServicesToClient)
      BY <1>0, <1>1, <1>5
    <3> QED
      BY <1>0, <1>1, <1>5, <3>1, TimesTail, TimesType
  <2>3. CASE h \in Back(it)
    <3>1. h.id = "RPC" /\ \E m \in it : h.args = {m}
      BY <2>3, BackIs
    <3>2. it \cap settled' # {}
      BY <1>1, <3>1
    <3> QED
      BY <1>1, <1>2, <2>1, <2>2, <2>3, <3>2 DEF InOnePlace
  <2>4. CASE h \notin Back(it)
    <3>1. h.id = "RPC" => it \cap h.args = {}
      <4>1. h \in RPCToClient \/ h \in SnapshotToClient
        BY <1>3 DEF ServicesToClient
      <4>2. ASSUME NEW m \in Call, h = Answer(m) PROVE it \cap h.args = {}
        <5>1. m \notin it /\ h.args = {m}
          BY <2>4, <4>2, BackIs DEF Answer
        <5> QED
          BY <5>1
      <4>3. ASSUME NEW p \in Procs, h = ToAll(p) PROVE it \cap h.args = {}
        <5>1. h.args = {}
          BY <4>3 DEF ToAll
        <5> QED
          BY <5>1
      <4>4. h \in SnapshotToClient => h.id # "RPC"
        BY DEF SnapshotToClient
      <4> QED
        BY <4>1, <4>2, <4>3, <4>4 DEF RPCToClient
    <3>2. it \cap settled' = it \cap settled
      BY <1>1, <3>1
    <3> QED
      BY <1>1, <1>2, <2>1, <2>2, <2>4, <3>2 DEF InOnePlace
  <2> QED
    BY <2>3, <2>4
<1> QED
  BY <1>4, <1>5

(* Everything else leaves the calls of a connection that stands alone.     *)
LEMMA PlaceKept ==
  ASSUME ServicesTypeOK, LinkInv, ServicesNext, IsFiniteSet(owed),
         NEW c \in Clients, NEW s \in Slots, Stands(c)', link[c] = s, link'[c] = s,
         NEW n \in Int, InOnePlace(c, s, n),
         \A t \in Slots : ~OnCall(t), \A o \in owed : ~AnswerLate(o),
         \A d \in Clients : ~Takes(d), \A p \in Procs : ~CallServer(c, p)
  PROVE  InOnePlace(c, s, n)'
<1> DEFINE it == Numbered(c, n)
<1>0. down[c] \in Seq(ServicesToClient)
  BY DEF ServicesTypeOK
<1>1. UNCHANGED <<owed, settled>>
  BY ServicesCases DEF Quiet, Constructs, Registers, CallAll, CallServer, Connects, rpcVars
<1>2. up'[s] = up[s]
  <2>1. \A d \in Clients : link[d] = s => d = c
    BY NoSlotAssumption DEF LinkInv, LinksAgree
  <2> QED
    BY <2>1, UpStep DEF Stands
<1>3. Times(down'[c], Back(it)) = Times(down[c], Back(it))
  <2>1. ASSUME NEW x \in ServicesToClient, x.id # "RPC" \/ x.args = {},
               down'[c] = Append(down[c], x)
        PROVE  Times(down'[c], Back(it)) = Times(down[c], Back(it))
    <3>1. x \notin Back(it)
      BY <2>1, BackIs
    <3>2. Times(Append(down[c], x), Back(it)) = Times(down[c], Back(it)) + 0
      BY <1>0, <3>1, TimesAppend
    <3>3. Times(down[c], Back(it)) \in Nat
      BY <1>0, TimesType
    <3> QED
      BY <2>1, <3>2, <3>3
  <2>2. link'[c] # NoSlot
    BY NoSlotAssumption
  <2> QED
    BY <2>1, <2>2, ArrivesStep
<1> QED
  BY <1>1, <1>2, <1>3 DEF InOnePlace

(* So every call of a connection that stands stays in one place.           *)
LEMMA KeepStep ==
  ASSUME NoWrap, ServicesTypeOK, LinkInv, MatchInv, HomeInv, KeepInv, ServicesNext
  PROVE  KeepInv'
<1>1. IsFiniteSet(owed')
  <2>1. \/ owed' = owed
        \/ \E o \in owed : owed' = owed \ {o}
        \/ \E s \in Slots : OnCall(s)
    BY ServicesCases DEF Quiet, Constructs, Registers, CallAll, AnswerLate, CallServer,
       Takes, OnAnswer, Connects, rpcVars
  <2>2. \A s \in Slots : OnCall(s) => owed' = owed \/ \E x : owed' = owed \cup {x}
    BY CallTaken
  <2> QED
    BY <2>1, <2>2, FS_AddElement, FS_RemoveElement DEF KeepInv
<1>2. AllPast' /\ FromItsPeer'
  BY AllPastStep, FromItsPeerStep DEF KeepInv
<1>3. CallsKept'
  <2> SUFFICES ASSUME NEW c \in Clients, NEW s \in Slots, link'[c] = s, Stands(c)',
                      NEW n \in since'[c] + 1 .. made'[c]
               PROVE  InOnePlace(c, s, n)'
    BY NoSlotAssumption DEF CallsKept, InOnePlace, Back, Stands
  <2>0. /\ made \in [Clients -> Nat] /\ since \in [Clients -> Nat]
        /\ AllPast /\ FromItsPeer /\ IsFiniteSet(owed) /\ AnswersComeHome /\ SessionTypeOK
    BY DEF ServicesTypeOK, RPCTypeOK, KeepInv, HomeInv
  <2>1. ~ConnectSucceeds(c)
    <3>1. ConnectSucceeds(c) => since' = [since EXCEPT ![c] = made[c]] /\ made' = made
      BY ConnectServices DEF Connects
    <3>2. ~(since'[c] = made'[c] /\ made'[c] \in Int)
      OBVIOUS
    <3> QED
      BY <2>0, <3>1, <3>2
  <2>2. Stands(c) /\ link[c] = s /\ since'[c] = since[c]
    BY <2>0, <2>1, StandsStep, SinceStep, ServicesIsSession
  <2>3. n \in Int /\ n > since[c]
    BY <2>0, <2>2
  <2>4. ASSUME n <= made[c] PROVE InOnePlace(c, s, n)
    <3>1. n \in since[c] + 1 .. made[c]
      BY <2>0, <2>3, <2>4
    <3>2. link[c] = s /\ pstate[s] \in {"acknowledged", "connected"}
      BY <2>2 DEF Stands
    <3>3. Back(Numbered(c, n)) = {Answer(m) : m \in Numbered(c, n)}
      BY DEF Back
    <3> QED
      BY <3>1, <3>2, <3>3 DEF KeepInv, CallsKept, InOnePlace
  <2>5. ASSUME NEW p \in Procs, CallServer(c, p) PROVE InOnePlace(c, s, n)'
    <3>1. made'[c] = made[c] + 1
      BY <2>0, <2>5, MadeStep
    <3>2. n \in 1 .. made[c] + 1
      BY <2>0, <2>3, <3>1
    <3> QED
      BY <2>0, <2>2, <2>4, <2>5, <3>2, PlaceCalled
  <2>6. ASSUME \A p \in Procs : ~CallServer(c, p) PROVE InOnePlace(c, s, n)'
    <3>1. InOnePlace(c, s, n)
      <4>1. made'[c] = made[c]
        BY <2>6, MadeStep
      <4> QED
        BY <2>0, <2>4, <4>1
    <3>2. ASSUME NEW t \in Slots, OnCall(t) PROVE InOnePlace(c, s, n)'
      BY <2>0, <2>2, <2>3, <3>1, <3>2, PlaceHandled
    <3>3. ASSUME NEW o \in owed, AnswerLate(o) PROVE InOnePlace(c, s, n)'
      BY <2>0, <2>2, <2>3, <3>1, <3>3, PlaceAnswered
    <3>4. ASSUME NEW d \in Clients, Takes(d) PROVE InOnePlace(c, s, n)'
      BY <2>0, <2>3, <3>1, <3>4, PlaceTaken
    <3> QED
      BY <2>0, <2>2, <2>3, <2>6, <3>1, <3>2, <3>3, <3>4, PlaceKept
  <2> QED
    BY <2>5, <2>6
<1> QED
  BY <1>1, <1>2, <1>3 DEF KeepInv

(* A call made on a connection that stands is in exactly one place, until  *)
(* it is done with: it is neither lost nor run or answered twice, whatever *)
(* happens to other players, as long as ids are not used up.               *)
THEOREM CallsCorrect == NoWrap => (ServicesSpec => []CallsKept)
<1> SUFFICES ASSUME NoWrap PROVE ServicesSpec => []CallsKept
  OBVIOUS
<1>1. ServicesInit => KeepInv
  <2> SUFFICES ASSUME ServicesInit PROVE KeepInv
    OBVIOUS
  <2>1. IsFiniteSet(owed)
    BY FS_EmptySet DEF ServicesInit, RPCInit
  <2> QED
    BY <2>1, NoSlotAssumption
       DEF ServicesInit, Init, RPCInit, KeepInv, AllPast, FromItsPeer, Stands, CallsKept
<1>2. ASSUME ServicesTypeOK, LinkInv, MatchInv, HomeInv, KeepInv, [ServicesNext]_servicesVars
      PROVE  KeepInv'
  <2>1. CASE ServicesNext
    BY <1>2, <2>1, KeepStep
  <2>2. CASE UNCHANGED servicesVars
    BY <1>2, <2>2 DEF KeepInv, AllPast, FromItsPeer, Stands, Known, CallsKept, Times, servicesVars,
       sessionVars, serverVars, enetVars, rpcVars
  <2> QED
    BY <1>2, <2>1, <2>2
<1>3. ServicesTypeOK /\ LinkInv /\ MatchInv /\ HomeInv /\ KeepInv /\ [ServicesNext]_servicesVars
        => KeepInv'
  BY <1>2
<1>4. KeepInv => CallsKept
  BY DEF KeepInv
<1> QED
  BY <1>1, <1>3, <1>4, HomeHolds, ServicesMatch, PTL DEF ServicesSpec
=============================================================================
