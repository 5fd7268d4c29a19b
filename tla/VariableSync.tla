---------------------------- MODULE VariableSync ----------------------------
(***************************************************************************)
(* Sync/VariableSync.h: the reliable broadcast of tracked variables, and   *)
(* clients that register a handler for each variable they want.  A report  *)
(* without a handler is dropped.                                           *)
(***************************************************************************)
EXTENDS Tracking

VARIABLE handlers   \* ClientVariableSync::m_handlers, the keys of each client

varSyncVars == <<sessionVars, trackVars, handlers>>

VarInit ==
    /\ TrackInit
    /\ handlers = [c \in Clients |-> {}]

Update_Fault ==  \* one variable per frame is sent, all are taken for sent
    /\ \E r \in Reports :
          SendReports([c \in Reachable |-> <<Head(r)>>], [c \in Reachable |-> Changed \cap handlers[c]])
    /\ UNCHANGED handlers

(* Whoever is reached gets all packets, in order.                          *)
Update ==
    /\ \E r \in Reports :
          SendReports([c \in Reachable |-> r], [c \in Reachable |-> Changed \cap handlers[c]])
    /\ UNCHANGED handlers

OnUpdate(c, k) ==
    /\ k \notin handlers[c]
    /\ handlers' = [handlers EXCEPT ![c] = @ \cup {k}]
    /\ UNCHANGED <<sessionVars, trackVars>>

Receive_Fault(c) ==  \* a variable is reported to the application once
    /\ ClientReceive(c) /\ UNCHANGED up
    /\ LET m == Head(down[c])
       IN  shown' = IF m.key \in handlers[c] /\ shown[c][m.key] = Nothing
                    THEN [shown EXCEPT ![c][m.key] = m.value] ELSE shown
    /\ UNCHANGED <<value, last, heard, handlers>>

Receive(c) ==
    /\ ClientReceive(c) /\ UNCHANGED up
    /\ LET m == Head(down[c])
       IN  shown' = IF m.key \in handlers[c]
                    THEN [shown EXCEPT ![c][m.key] = m.value] ELSE shown
    /\ UNCHANGED <<value, last, heard, handlers>>

ClientRestarts(c) ==
    /\ Crash(c)
    /\ Restarted(c)
    /\ handlers' = [handlers EXCEPT ![c] = {}]

VarNext ==
    \/ Underneath /\ UNCHANGED handlers
    \/ Update
    \/ \E k \in Keys :
          /\ Track(k) \/ Untrack(k) \/ \E x \in Values : Write(k, x)
          /\ UNCHANGED handlers
    \/ \E c \in Clients :
          \/ Connected(c) /\ UNCHANGED handlers
          \/ Receive(c)
          \/ ClientRestarts(c)
          \/ \E k \in Keys : OnUpdate(c, k)

VarSpec == VarInit /\ [][VarNext]_varSyncVars

(* Both loops run every frame (see Session); update() is one of their calls.*)
VarFairSpec ==
    /\ VarSpec
    /\ WF_varSyncVars(Update)
    /\ \A c \in Clients :
          /\ WF_varSyncVars(Receive(c))
          /\ WF_varSyncVars(CallReturned(c) /\ UNCHANGED handlers)
=============================================================================
