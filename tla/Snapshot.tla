------------------------------- MODULE Snapshot -------------------------------
(***************************************************************************)
(* Sync/Snapshot.h: the state of the game, read through a function of the  *)
(* application when a snapshot is sent, copied byte by byte into a         *)
(* reliable packet behind its size, and handed to the application of a     *)
(* client that has the callback for it.  The state of the game is the      *)
(* number of changes made to it.                                           *)
(***************************************************************************)
EXTENDS Callbacks

CONSTANTS
    StateLimit,     \* bound: states the game goes through
    Unseen,         \* what a client shows before the first snapshot
    Garbage         \* what the bytes of something else amount to

ASSUME StateAssumption ==
    /\ StateLimit \in Nat \ {0}
    /\ Unseen \notin Int /\ Garbage \notin Int /\ Garbage # Unseen

VARIABLES
    reader,     \* ServerSnapshot::m_reader is set
    current,    \* the state m_reader would return now
    seen,       \* what the application of each client was last given
    due         \* history: the last snapshot sent to a client on this
                \* connection while it had the callback for it, if any

snapshotVars == <<reader, current, seen, due>>

SnapshotInit ==
    /\ reader = FALSE
    /\ current = 1
    /\ seen = [c \in Clients |-> Unseen]
    /\ due = [c \in Clients |-> Unseen]

SnapshotToClient == [id : {"SNAPSHOT"}, state : 1 .. StateLimit]

-----------------------------------------------------------------------------
(* ServerSnapshot.                                                         *)

SetReader ==
    /\ ~reader
    /\ reader' = TRUE
    /\ UNCHANGED <<sessionVars, current, seen, due>>

(* The game goes on.                                                       *)
Advance ==
    /\ current < StateLimit
    /\ current' = current + 1
    /\ UNCHANGED <<sessionVars, reader, seen, due>>

Capture == [id |-> "SNAPSHOT", state |-> current]

Watches(c) == holder[c] = "snapshot" /\ "show" \in handlers[c]

IsDueTo(S) ==
    /\ due' = [c \in Clients |-> IF c \in S /\ Watches(c) THEN current ELSE due[c]]
    /\ UNCHANGED <<reader, current, seen>>

(* sendTo(id): nothing without a reader.                                   *)
SendTo(i) ==
    /\ reader
    /\ ServerSend(i, Capture, "Reliable")
    /\ IsDueTo(Addressee(i))

BroadcastSnapshot_Fault ==  \* without Delivery::Reliable
    /\ reader
    /\ ServerBroadcast(Capture, "Unreliable")
    /\ IsDueTo(Reached(pstate, link))

(* broadcast(): nothing without a reader.                                  *)
BroadcastSnapshot ==
    /\ reader
    /\ ServerBroadcast(Capture, "Reliable")
    /\ IsDueTo(Reached(pstate, link))

(* onConnect of the application: a player who comes may be sent the state  *)
(* of the game at once.                                                    *)
Welcome(s) ==
    /\ ServerConnect(s)
    /\ \/ UNCHANGED <<down, snapshotVars>>
       \/ /\ reader /\ RoomDown
          /\ down' = AppendTo(down, Attached(s), Capture)
          /\ IsDueTo(Attached(s))

-----------------------------------------------------------------------------
(* ClientSnapshot.                                                         *)

OnSnapshot_Fault(c, m) ==  \* no test of the packet's id and size
    /\ seen' = [seen EXCEPT ![c] = IF "show" \notin handlers[c] THEN @
                                   ELSE IF m.id = "SNAPSHOT" /\ holder[c] = "snapshot"
                                   THEN m.state ELSE Garbage]
    /\ UNCHANGED <<reader, current, due>>

(* The callback in Client::onReceive: other packets, and snapshots of a    *)
(* type of another size (the holder is then "other"), are dropped.         *)
OnSnapshot(c, m) ==
    /\ seen' = [seen EXCEPT ![c] = IF Watches(c) /\ m.id = "SNAPSHOT" THEN m.state ELSE @]
    /\ UNCHANGED <<reader, current, due>>

NothingDue(c) ==
    /\ due' = [due EXCEPT ![c] = Unseen]
    /\ UNCHANGED <<reader, current, seen>>

Unlearns(c) ==
    /\ seen' = [seen EXCEPT ![c] = Unseen]
    /\ due' = [due EXCEPT ![c] = Unseen]
    /\ UNCHANGED <<reader, current>>

-----------------------------------------------------------------------------
(* Properties.                                                             *)

SnapshotTypeOK ==
    /\ reader \in BOOLEAN
    /\ current \in 1 .. StateLimit
    /\ seen \in [Clients -> 1 .. StateLimit \cup {Unseen}]
    /\ due \in [Clients -> 1 .. StateLimit \cup {Unseen}]

(* A client that had the callback when a snapshot was sent to it, and has  *)
(* both the callback and the connection since, shows that snapshot or is   *)
(* about to: none is lost between remote calls, other snapshots and the    *)
(* ends of other players' connections.                                     *)
SnapshotsKept ==
    \A c \in Reached(pstate, link) :
        due[c] # Unseen => EndsAs(down[c], SnapshotToClient, "state", seen[c], due[c])

(* Snapshots implement the abstract replica.                               *)
Game == INSTANCE Replica WITH Node <- Clients

ImplementsReplica == Game!Spec
=============================================================================
