------------------------------- MODULE Services -------------------------------
(***************************************************************************)
(* Remote calls (Sync/RPC.h) and snapshots (Sync/Snapshot.h) on one server *)
(* and its clients: the two share the connections, the queues of packets   *)
(* and, on each client, the one onReceive slot.                            *)
(***************************************************************************)
EXTENDS RPC, Snapshot

ServicesToClient == RPCToClient \cup SnapshotToClient

ASSUME ServicesPayloadAssumption ==
    /\ RPCToServer \subseteq ToServer /\ ServicesToClient \subseteq ToClient
    /\ \A e \in Ends : Offers[e] \subseteq {"rpc", "snapshot", "other"}

servicesVars == <<sessionVars, callbackVars, rpcVars, snapshotVars>>

ServicesInit == Init /\ CallbacksInit /\ RPCInit /\ SnapshotInit

-----------------------------------------------------------------------------
(* The applications.                                                       *)

Constructs(e) ==
    /\ \E svc \in Offers[e] : Construct(e, svc)
    /\ IF e \in Clients THEN NothingDue(e) ELSE UNCHANGED snapshotVars
    /\ UNCHANGED <<sessionVars, rpcVars>>

Registers(e) ==
    /\ \/ holder[e] = "rpc" /\ \E p \in Procs : Register(e, p)
       \/ holder[e] = "snapshot" /\ Register(e, "show")
    /\ UNCHANGED <<sessionVars, rpcVars, snapshotVars>>

ServerCalls ==
    \/ /\ SetReader \/ Advance \/ BroadcastSnapshot \/ \E i \in ClientID : SendTo(i)
       /\ UNCHANGED <<callbackVars, rpcVars>>
    \/ /\ (\E o \in owed : AnswerLate(o)) \/ (\E p \in Procs : CallAll(p))
       /\ UNCHANGED <<callbackVars, snapshotVars>>
    \/ /\ ServerClose \/ \E i \in ClientID : Kick(i) /\ UNCHANGED down
       /\ UNCHANGED <<callbackVars, rpcVars, snapshotVars>>

ClientCalls(c) ==
    /\ \E p \in Procs : CallServer(c, p)
    /\ UNCHANGED <<callbackVars, snapshotVars>>

-----------------------------------------------------------------------------
(* The events of both polls.                                               *)

ServerEvent(s) ==
    /\ \/ Welcome(s) /\ UNCHANGED rpcVars
       \/ OnCall(s) /\ UNCHANGED snapshotVars
       \/ ServerDisconnect(s) /\ UNCHANGED <<down, rpcVars, snapshotVars>>
    /\ UNCHANGED callbackVars

(* One packet, for the service that has the slot or for nobody.            *)
Takes(c) ==
    /\ ClientReceive(c) /\ UNCHANGED up
    /\ OnAnswer(Head(down[c]))
    /\ OnSnapshot(c, Head(down[c]))
    /\ UNCHANGED callbackVars

ClientEvent(c) ==
    \/ Takes(c)
    \/ ConnectSucceeds(c) /\ UNCHANGED <<up, callbackVars>> /\ Connects(c) /\ NothingDue(c)
    \/ ClientDisconnect(c) /\ UNCHANGED <<callbackVars, rpcVars, snapshotVars>>
    \/ Crash(c) /\ Forgets(c) /\ UNCHANGED rpcVars /\ Unlearns(c)

ServicesNext ==
    \/ Background /\ UNCHANGED <<callbackVars, rpcVars, snapshotVars>>
    \/ \E e \in Ends : Constructs(e) \/ Registers(e)
    \/ ServerCalls
    \/ \E s \in Slots : ServerEvent(s)
    \/ \E c \in Clients : ClientCalls(c) \/ ClientEvent(c)

ServicesSpec == ServicesInit /\ [][ServicesNext]_servicesVars

-----------------------------------------------------------------------------
(* Types of the slots, of both services and of the packets they share.     *)
ServicesTypeOK ==
    /\ SessionTypeOK
    /\ up \in [Slots -> Seq(RPCToServer)]
    /\ down \in [Clients -> Seq(ServicesToClient)]
    /\ holder \in [Ends -> {"none", "rpc", "snapshot", "other"}]
    /\ handlers \in [Ends -> SUBSET (Procs \cup {"show"})]
    /\ RPCTypeOK
    /\ SnapshotTypeOK
=============================================================================
