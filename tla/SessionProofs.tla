--------------------------- MODULE SessionProofs ---------------------------
(***************************************************************************)
(* Proofs about Session, for any set of clients and slots, any payloads    *)
(* and any width of ClientID.  What depends on ids not being reused is     *)
(* proved under NoWrap: fewer connections are accepted than a ClientID can *)
(* number.                                                                 *)
(***************************************************************************)
EXTENDS Session, FiniteSetTheorems, WellFoundedInduction, TLAPS

NoWrap == 0 < IdLimit /\ IdLimit < IdSpan

(* connect() waits only with a peer, and while it waits the handshake is   *)
(* not complete: without the first fact Accept could attach a client that  *)
(* has no peer, without the second one ConnectSucceeds could touch the     *)
(* slot of an established connection.                                      *)
Waiting ==
    \A c \in Clients : cCall[c] = "connect" =>
        /\ cPeer[c]
        /\ link[c] # NoSlot => pstate[link[c]] = "pending"

(* As long as no client is connected that has a peer (MayConnect), one that*)
(* has a peer has a host, isConnected() implies a peer, and only a client  *)
(* with a peer is attached to the server.                                  *)
ClientPointersAgree ==
    \A c \in Clients :
        /\ cPeer[c] => cHost[c]
        /\ cState[c] # "Disconnected" => cPeer[c]
        /\ link[c] # NoSlot => cPeer[c]

LinkInv == LinksAgree /\ ClientPointersAgree /\ Waiting

(* Every id in m_peers was taken from m_nextID before, so the next one is  *)
(* not in use.                                                             *)
Fresh == 0 < nextID /\ \A i \in ClientID : peers[i] # NoSlot => i < nextID

MatchInv == PeersMatchSlots /\ Fresh

(* A step of the session, whatever the applications, and the callbacks of  *)
(* the event, put into the queues: this is what the modules of the services *)
(* share with Next.  A call that only sends leaves the rest as it is.      *)
ButConnect ==
    \/ Background
    \/ ServerClose
    \/ \E s \in Slots : ServerReceive(s) \/ ServerDisconnect(s)
    \/ \E i \in ClientID : Kick(i)
    \/ \E c \in Clients :
          ConnectSucceeds(c) \/ ClientReceive(c) \/ ClientDisconnect(c) \/ Crash(c)
    \/ UNCHANGED <<serverVars, enetVars, clientVars>>

SessionStep == ButConnect \/ \E s \in Slots : ServerConnect(s)

-----------------------------------------------------------------------------
(* Next is such a step.                                                    *)
LEMMA NextIsStep == [Next]_sessionVars => SessionStep
BY DEF Next, ServerStep, ClientStep, SessionStep, ButConnect, sessionVars,
       ServerBroadcast, ServerSend, ClientSend

-----------------------------------------------------------------------------
(* Some of the places of a sequence.                                       *)

(* Of some natural numbers one is the least.                               *)
LEMMA Least ==
  ASSUME NEW T, T \subseteq Nat, T # {}
  PROVE  \E m \in T : \A k \in T : m <= k
<1> DEFINE R == OpToRel(<, Nat)
<1>1. IsWellFoundedOn(R, Nat)
  BY NatLessThanWellFounded
<1>2. \A x, y \in Nat : y < x => <<y, x>> \in R
  BY Zenon DEF OpToRel
<1> HIDE DEF R
<1>3. PICK m \in T : \A y \in T : ~ (<<y, m>> \in R)
  BY <1>1, WFMin
<1>4. \A y \in T : ~ (y < m)
  BY <1>2, <1>3, Zenon
<1>5. \A y \in T : y \in Nat /\ m \in Nat
  OBVIOUS
<1>6. \A y \in T : m <= y
  BY <1>4, <1>5
<1> QED
  BY <1>6

(* The place of a position among some of them.                             *)
Rank(K, k) == Cardinality({j \in K : j <= k})

(* Counted from below, some positions have a first, a second, ... one.     *)
LEMMA Nth ==
  ASSUME NEW len \in Nat, NEW K, K \subseteq 1 .. len, NEW n \in 1 .. Cardinality(K)
  PROVE  \E k \in K : Rank(K, k) = n
<1> DEFINE upto(m) == {j \in K : j <= m}
           T == {m \in Nat : Cardinality(upto(m)) >= n}
<1>1. IsFiniteSet(K) /\ Cardinality(K) \in Nat /\ n \in Nat \ {0}
  <2>1. IsFiniteSet(1 .. len)
    BY FS_Interval
  <2>2. IsFiniteSet(K) /\ Cardinality(K) \in Nat
    BY <2>1, FS_Subset, FS_CardinalityType
  <2> QED
    BY <2>2
<1>2. \A m : IsFiniteSet(upto(m)) /\ Cardinality(upto(m)) \in Nat
  <2>1. \A m : upto(m) \subseteq K
    OBVIOUS
  <2> HIDE DEF upto
  <2>2. \A m : IsFiniteSet(upto(m))
    BY <1>1, <2>1, FS_Subset
  <2> QED
    BY <2>2, FS_CardinalityType
<1>3. upto(len) = K /\ upto(0) = {} /\ Cardinality(upto(0)) = 0
  <2>1. \A j \in K : j <= len /\ ~(j <= 0)
    OBVIOUS
  <2>2. upto(len) = K /\ upto(0) = {}
    BY <2>1
  <2> QED
    BY <2>2, FS_EmptySet
<1> HIDE DEF upto
<1>4. len \in T /\ 0 \notin T /\ T \subseteq Nat
  BY <1>1, <1>3
<1>5. \A m \in Nat : m \in T <=> Cardinality(upto(m)) >= n
  OBVIOUS
<1> HIDE DEF T
<1>6. PICK k \in T : \A m \in T : k <= m
  BY <1>4, Least
<1>7. k \in Nat /\ k # 0 /\ k - 1 \in Nat /\ ~(k <= k - 1)
  BY <1>4, <1>6
<1>8. k - 1 \notin T
  BY <1>6, <1>7
<1>9. Cardinality(upto(k)) >= n /\ ~(Cardinality(upto(k - 1)) >= n)
  BY <1>5, <1>6, <1>7, <1>8
<1>10. k \in K
  <2> SUFFICES ASSUME k \notin K PROVE FALSE
    OBVIOUS
  <2>1. \A j \in K : j <= k <=> j <= k - 1
    BY <1>7
  <2>2. upto(k) = upto(k - 1)
    BY <2>1 DEF upto
  <2> QED
    BY <1>9, <2>2
<1>11. Cardinality(upto(k)) = Cardinality(upto(k - 1)) + 1
  <2>1. \A j \in K : j <= k <=> j <= k - 1 \/ j = k
    BY <1>7
  <2>2. upto(k) = upto(k - 1) \cup {k} /\ k \notin upto(k - 1)
    BY <1>7, <1>10, <2>1 DEF upto
  <2>3. IsFiniteSet(upto(k - 1))
    BY <1>2
  <2> QED
    BY <2>2, <2>3, FS_AddElement
<1>12. Cardinality(upto(k)) = n
  <2>1. Cardinality(upto(k)) \in Nat /\ Cardinality(upto(k - 1)) \in Nat
    BY <1>2
  <2> QED
    BY <1>1, <1>9, <1>11, <2>1
<1> QED
  BY <1>10, <1>12 DEF upto, Rank

(* The places that are kept, and nothing else, are found again.            *)
LEMMA PickedIs ==
  ASSUME NEW P, NEW q \in Seq(P), NEW kept, kept \subseteq DOMAIN q
  PROVE  /\ Picked(q, kept) \in Seq(P)
         /\ \A n \in DOMAIN Picked(q, kept) : \E k \in kept : Picked(q, kept)[n] = q[k]
         /\ \A k \in kept : \E n \in DOMAIN Picked(q, kept) : Picked(q, kept)[n] = q[k]
         /\ (\A j, k \in kept : q[j] = q[k] => j = k)
            => \A m, n \in DOMAIN Picked(q, kept) : Picked(q, kept)[m] = Picked(q, kept)[n] => m = n
<1> DEFINE size == Cardinality(kept)
           rank(k) == Cardinality({j \in kept : j <= k})
           at(n) == CHOOSE k \in kept : rank(k) = n
           r == [n \in 1 .. size |-> q[at(n)]]
<1>1. Picked(q, kept) = r
  BY DEF Picked
<1>2. kept \subseteq 1 .. Len(q) /\ IsFiniteSet(kept) /\ size \in Nat
  <2>1. kept \subseteq 1 .. Len(q) /\ IsFiniteSet(1 .. Len(q))
    BY FS_Interval
  <2>2. IsFiniteSet(kept)
    BY <2>1, FS_Subset
  <2> QED
    BY <2>1, <2>2, FS_CardinalityType
<1>3. \A k \in kept : k \in DOMAIN q
  OBVIOUS
<1>4. \A n \in 1 .. size : at(n) \in kept /\ rank(at(n)) = n
  <2> SUFFICES ASSUME NEW n \in 1 .. size PROVE at(n) \in kept /\ rank(at(n)) = n
    OBVIOUS
  <2>1. Len(q) \in Nat /\ kept \subseteq 1 .. Len(q) /\ n \in 1 .. Cardinality(kept)
    BY <1>2
  <2>2. \E k \in kept : Rank(kept, k) = n
    BY <2>1, Nth
  <2>3. \E k \in kept : rank(k) = n
    BY <2>2 DEF Rank
  <2> HIDE DEF rank
  <2> QED
    BY <2>3
<1>5. \A k \in kept : rank(k) \in 1 .. size
  <2> SUFFICES ASSUME NEW k \in kept PROVE rank(k) \in 1 .. size
    OBVIOUS
  <2> DEFINE S == {j \in kept : j <= k}
  <2>1. S \subseteq kept /\ k \in S
    BY <1>2
  <2> HIDE DEF S
  <2>2. IsFiniteSet(S) /\ Cardinality(S) <= size /\ Cardinality(S) \in Nat
    BY <1>2, <2>1, FS_Subset, FS_CardinalityType
  <2>3. Cardinality(S) # 0
    BY <2>1, <2>2, FS_EmptySet
  <2>4. Cardinality(S) \in 1 .. size
    BY <1>2, <2>2, <2>3
  <2> QED
    BY <2>4 DEF S
<1>6. \A j, k \in kept : rank(j) = rank(k) => j = k
  <2> SUFFICES ASSUME NEW j \in kept, NEW k \in kept, j < k PROVE rank(j) # rank(k)
    <3>1. \A j, k \in kept : j < k \/ k < j \/ j = k
      BY <1>2
    <3> HIDE DEF rank
    <3> QED
      BY <3>1
  <2> DEFINE S == {x \in kept : x <= j}
             T == {x \in kept : x <= k}
  <2>0. /\ j \in Int /\ k \in Int /\ ~(k <= j)
        /\ \A x \in kept : x <= j => x <= k
    BY <1>2
  <2>1. S \subseteq T /\ S # T /\ T \subseteq kept
    <3>1. k \in T /\ k \notin S
      BY <2>0
    <3> QED
      BY <2>0, <3>1
  <2> HIDE DEF S, T
  <2>2. IsFiniteSet(T)
    BY <1>2, <2>1, FS_Subset
  <2>3. Cardinality(S) # Cardinality(T)
    BY <2>1, <2>2, FS_Subset
  <2> QED
    BY <2>3 DEF S, T
<1>7. \A k \in kept : at(rank(k)) = k
  <2> HIDE DEF rank, at
  <2> QED
    BY <1>4, <1>5, <1>6
<1> HIDE DEF at, rank, size
<1>8. r \in Seq(P) /\ DOMAIN r = 1 .. size /\ \A n \in 1 .. size : r[n] = q[at(n)]
  <2>1. \A n \in 1 .. size : q[at(n)] \in P
    BY <1>3, <1>4
  <2> QED
    BY <1>2, <2>1
<1> HIDE DEF r
<1>9. ASSUME NEW n \in 1 .. size PROVE \E k \in kept : r[n] = q[k]
  BY <1>4, <1>8
<1>10. ASSUME NEW k \in kept PROVE \E n \in 1 .. size : r[n] = q[k]
  BY <1>5, <1>7, <1>8
<1>11. ASSUME \A j, k \in kept : q[j] = q[k] => j = k,
              NEW m \in 1 .. size, NEW n \in 1 .. size, r[m] = r[n]
       PROVE  m = n
  <2>1. q[at(m)] = q[at(n)]
    BY <1>8, <1>11
  <2>2. at(m) = at(n)
    BY <1>4, <1>11, <2>1
  <2> QED
    BY <1>4, <2>2
<1> QED
  BY <1>1, <1>8, <1>9, <1>10, <1>11

-----------------------------------------------------------------------------
(* Type correctness.                                                       *)

(* The initial values have their types.                                    *)
LEMMA TypeInit == Init => TypeOK
<1> SUFFICES ASSUME Init PROVE TypeOK
  OBVIOUS
<1>1. 0 \in ClientID /\ 1 % IdSpan \in ClientID
  BY SpanAssumption DEF ClientID
<1>2. SessionTypeOK
  BY <1>1 DEF Init, SessionTypeOK, PeerState, ConnectionState
<1>3. up \in [Slots -> Seq(ToServer)] /\ down \in [Clients -> Seq(ToClient)]
  BY DEF Init
<1> QED
  BY <1>2, <1>3 DEF TypeOK

(* The state of both classes and of ENet's peers, whatever is sent.        *)
LEMMA StateType == SessionTypeOK /\ SessionStep => SessionTypeOK'
<1> SUFFICES ASSUME SessionTypeOK, SessionStep PROVE SessionTypeOK'
  OBVIOUS
<1> USE DEF SessionTypeOK, PeerState, ConnectionState, enetVars, serverVars, clientVars
<1>1. CASE Background
  <2>1. CASE ServerStart
    BY <2>1 DEF ServerStart
  <2>2. ASSUME NEW c \in Clients, ConnectBegin(c) PROVE SessionTypeOK'
    BY <2>2 DEF ConnectBegin
  <2>3. ASSUME NEW c \in Clients, ConnectRefused(c) PROVE SessionTypeOK'
    <3>1. PICK h \in BOOLEAN : cHost' = [cHost EXCEPT ![c] = h]
      BY <2>3 DEF ConnectRefused, MayConnect
    <3> QED
      BY <2>3, <3>1 DEF ConnectRefused
  <2>4. ASSUME NEW c \in Clients, ConnectFails(c) PROVE SessionTypeOK'
    BY <2>4 DEF ConnectFails
  <2>5. ASSUME NEW c \in Clients, DisconnectBegin(c) PROVE SessionTypeOK'
    BY <2>5 DEF DisconnectBegin
  <2>6. ASSUME NEW c \in Clients, DisconnectEnd(c) PROVE SessionTypeOK'
    BY <2>6 DEF DisconnectEnd
  <2>7. ASSUME NEW c \in Clients, NEW s \in Slots, Accept(c, s) PROVE SessionTypeOK'
    BY <2>7 DEF Accept
  <2>8. ASSUME NEW s \in Slots, ReapPending(s) PROVE SessionTypeOK'
    BY <2>8 DEF ReapPending
  <2> QED
    BY <1>1, <2>1, <2>2, <2>3, <2>4, <2>5, <2>6, <2>7, <2>8 DEF Background
<1>2. CASE ServerClose
  <2>1. 0 \in ClientID
    BY SpanAssumption DEF ClientID
  <2> QED
    BY <1>2, <2>1 DEF ServerClose
<1>3. ASSUME NEW s \in Slots, ServerConnect(s) PROVE SessionTypeOK'
  <2>1. (nextID + 1) % IdSpan \in ClientID
    BY SpanAssumption DEF ClientID
  <2> QED
    BY <1>3, <2>1 DEF ServerConnect
<1>4. ASSUME NEW s \in Slots, ServerReceive(s) PROVE SessionTypeOK'
  BY <1>4 DEF ServerReceive
<1>5. ASSUME NEW s \in Slots, ServerDisconnect(s) PROVE SessionTypeOK'
  BY <1>5 DEF ServerDisconnect
<1>6. ASSUME NEW i \in ClientID, Kick(i) PROVE SessionTypeOK'
  BY <1>6 DEF Kick, Known
<1>7. ASSUME NEW c \in Clients, ConnectSucceeds(c) PROVE SessionTypeOK'
  BY <1>7 DEF ConnectSucceeds
<1>8. ASSUME NEW c \in Clients, ClientReceive(c) PROVE SessionTypeOK'
  BY <1>8 DEF ClientReceive
<1>9. ASSUME NEW c \in Clients, ClientDisconnect(c) PROVE SessionTypeOK'
  BY <1>9 DEF ClientDisconnect
<1>10. ASSUME NEW c \in Clients, Crash(c) PROVE SessionTypeOK'
  BY <1>10 DEF Crash
<1>11. CASE UNCHANGED <<serverVars, enetVars, clientVars>>
  BY <1>11
<1> QED
  BY <1>1, <1>2, <1>3, <1>4, <1>5, <1>6, <1>7, <1>8, <1>9, <1>10, <1>11 DEF SessionStep, ButConnect

(* A packet appended to some of the queues leaves queues of packets.       *)
LEMMA AppendToType ==
  ASSUME NEW D, NEW P, NEW q \in [D -> Seq(P)], NEW S, NEW m \in P
  PROVE  AppendTo(q, S, m) \in [D -> Seq(P)]
BY DEF AppendTo

(* Packets put behind the others, one by one.                              *)
LEMMA ConcatIsAppend ==
  ASSUME NEW P, NEW q \in Seq(P), NEW m \in P, NEW n \in P
  PROVE  q \o <<m>> = Append(q, m) /\ q \o <<m, n>> = Append(Append(q, m), n)
OBVIOUS

(* The last packet of a queue is the one that was put there.               *)
LEMMA AppendLast ==
  ASSUME NEW P, NEW q \in Seq(P), NEW m \in P
  PROVE  Append(q, m) # <<>> /\ Append(q, m)[Len(Append(q, m))] = m
OBVIOUS

(* A packet put behind the others decides, if it is one of those that      *)
(* matter.                                                                 *)
LEMMA EndsAsAppend ==
  ASSUME NEW P, NEW q \in Seq(P), NEW m \in P, NEW S, NEW f, NEW old, NEW new
  PROVE  /\ m \in S => EndsAs(Append(q, m), S, f, old, m[f])
         /\ m \notin S /\ EndsAs(q, S, f, old, new) => EndsAs(Append(q, m), S, f, old, new)
<1> DEFINE r == Append(q, m)
<1>1. /\ Len(q) \in Nat
      /\ DOMAIN q = 1 .. Len(q) /\ DOMAIN r = 1 .. Len(q) + 1
      /\ r[Len(q) + 1] = m /\ \A k \in DOMAIN q : r[k] = q[k]
  OBVIOUS
<1>2. ASSUME m \in S PROVE EndsAs(r, S, f, old, m[f])
  BY <1>1, <1>2 DEF EndsAs
<1>3. ASSUME m \notin S, EndsAs(q, S, f, old, new) PROVE EndsAs(r, S, f, old, new)
  <2>1. \A k \in DOMAIN r : r[k] \in S => k \in DOMAIN q /\ r[k] = q[k]
    BY <1>1, <1>3
  <2> HIDE DEF r
  <2> QED
    BY <1>1, <1>3, <2>1 DEF EndsAs
<1> QED
  BY <1>2, <1>3

(* Taking the first packet and doing what it says leaves the end the same. *)
LEMMA EndsAsTail ==
  ASSUME NEW P, NEW q \in Seq(P), q # <<>>, NEW S, NEW f, NEW old, NEW new,
         EndsAs(q, S, f, old, new)
  PROVE  EndsAs(Tail(q), S, f, IF Head(q) \in S THEN Head(q)[f] ELSE old, new)
<1> DEFINE r == Tail(q)
<1>1. /\ Len(q) \in Nat \ {0} /\ Head(q) = q[1]
      /\ DOMAIN q = 1 .. Len(q) /\ DOMAIN r = 1 .. Len(q) - 1
      /\ \A k \in DOMAIN r : r[k] = q[k + 1]
  OBVIOUS
<1> HIDE DEF r
<1>2. ASSUME NEW k \in DOMAIN q, q[k] \in S, q[k][f] = new,
             \A j \in DOMAIN q : j > k => q[j] \notin S
      PROVE  EndsAs(r, S, f, IF q[1] \in S THEN q[1][f] ELSE old, new)
  <2>1. CASE k = 1
    BY <1>1, <1>2, <2>1 DEF EndsAs
  <2>2. CASE k > 1
    <3>1. k - 1 \in DOMAIN r /\ r[k - 1] = q[k]
      BY <1>1, <2>2
    <3>2. \A j \in DOMAIN r : j > k - 1 => r[j] \notin S
      BY <1>1, <1>2
    <3> QED
      BY <1>2, <3>1, <3>2 DEF EndsAs
  <2> QED
    BY <1>1, <2>1, <2>2
<1>3. ASSUME \A k \in DOMAIN q : q[k] \notin S, old = new
      PROVE  EndsAs(r, S, f, IF q[1] \in S THEN q[1][f] ELSE old, new)
  BY <1>1, <1>3 DEF EndsAs
<1> QED
  BY <1>1, <1>2, <1>3 DEF EndsAs, r

(* A queue emptied, and one without its head.                              *)
LEMMA DropType ==
  ASSUME NEW D, NEW P, NEW q \in [D -> Seq(P)], NEW d \in D
  PROVE  /\ [q EXCEPT ![d] = <<>>] \in [D -> Seq(P)]
         /\ q[d] # <<>> => [q EXCEPT ![d] = Tail(q[d])] \in [D -> Seq(P)]
<1>1. <<>> \in Seq(P) /\ q[d] \in Seq(P)
  OBVIOUS
<1>2. q[d] # <<>> => Tail(q[d]) \in Seq(P)
  BY <1>1
<1> QED
  BY <1>1, <1>2

(* So does what send() and broadcast() leave in flight.                    *)
LEMMA TransmitType ==
  ASSUME NEW P, down \in [Clients -> Seq(P)], NEW S, NEW m \in P, NEW d, Transmit(S, m, d)
  PROVE  down' \in [Clients -> Seq(P)]
<1>1. PICK lost \in SUBSET S : down' = AppendTo(down, S \ lost, m)
  BY DEF Transmit
<1> QED
  BY <1>1, AppendToType

(* And a client's send().                                                  *)
LEMMA ClientSendType ==
  ASSUME NEW P, up \in [Slots -> Seq(P)], NEW c, NEW m \in P, NEW d, ClientSend(c, m, d)
  PROVE  up' \in [Slots -> Seq(P)]
<1> DEFINE open == {s \in Slots : link[c] = s /\ pstate[s] \in {"acknowledged", "connected"}}
<1>1. up' = AppendTo(up, open, m) \/ up' = up
  BY DEF ClientSend
<1>2. AppendTo(up, open, m) \in [Slots -> Seq(P)]
  BY AppendToType
<1> QED
  BY <1>1, <1>2

(* The steps without callbacks only empty queues.                          *)
LEMMA BackgroundQueues ==
  ASSUME NEW P, NEW Q, up \in [Slots -> Seq(P)], down \in [Clients -> Seq(Q)], Background
  PROVE  up' \in [Slots -> Seq(P)] /\ down' \in [Clients -> Seq(Q)]
<1> USE DEF serverVars, enetVars, clientVars
<1>1. CASE ServerStart
  BY <1>1 DEF ServerStart
<1>2. ASSUME NEW c \in Clients, ConnectBegin(c) \/ ConnectRefused(c) \/ DisconnectBegin(c)
      PROVE  up' = up /\ down' = down
  BY <1>2 DEF ConnectBegin, ConnectRefused, DisconnectBegin
<1>3. ASSUME NEW c \in Clients, ConnectFails(c) \/ DisconnectEnd(c)
      PROVE  up' = up /\ down' \in [Clients -> Seq(Q)]
  <2>1. up' = up /\ down' = [down EXCEPT ![c] = <<>>]
    BY <1>3 DEF ConnectFails, DisconnectEnd
  <2> QED
    BY <2>1, DropType
<1>4. ASSUME NEW s \in Slots, ReapPending(s) \/ \E c \in Clients : Accept(c, s)
      PROVE  up' \in [Slots -> Seq(P)] /\ down' = down
  <2>1. down' = down /\ up' = [up EXCEPT ![s] = <<>>]
    BY <1>4 DEF ReapPending, Accept
  <2> QED
    BY <2>1, DropType
<1> QED
  BY <1>1, <1>2, <1>3, <1>4 DEF Background

(* The server's events and calls take packets from what clients sent.      *)
LEMMA ServerQueues ==
  ASSUME SessionTypeOK, NEW P, up \in [Slots -> Seq(P)],
         \/ ServerClose
         \/ \E s \in Slots : ServerConnect(s) \/ ServerReceive(s) \/ ServerDisconnect(s)
         \/ \E i \in ClientID : Kick(i)
  PROVE  up' \in [Slots -> Seq(P)]
<1> USE DEF serverVars, enetVars, clientVars
<1>1. CASE ServerClose
  <2>1. up' = [s \in Slots |-> <<>>] /\ <<>> \in Seq(P)
    BY <1>1 DEF ServerClose
  <2> QED
    BY <2>1
<1>2. ASSUME NEW s \in Slots, ServerConnect(s) \/ ServerReceive(s) \/ ServerDisconnect(s)
      PROVE  up' \in [Slots -> Seq(P)]
  <2>1. CASE ServerConnect(s)
    BY <2>1 DEF ServerConnect
  <2>2. CASE ServerReceive(s)
    <3>1. up[s] # <<>> /\ up' = [up EXCEPT ![s] = Tail(up[s])]
      BY <2>2 DEF ServerReceive
    <3> QED
      BY <3>1, DropType
  <2>3. CASE ServerDisconnect(s)
    <3>1. up' = [up EXCEPT ![s] = <<>>]
      BY <2>3 DEF ServerDisconnect
    <3> QED
      BY <3>1, DropType
  <2> QED
    BY <1>2, <2>1, <2>2, <2>3
<1>3. ASSUME NEW i \in ClientID, peers[i] \in Slots, Kick(i) PROVE up' \in [Slots -> Seq(P)]
  BY <1>3, DropType DEF Kick
<1> QED
  BY <1>1, <1>2, <1>3 DEF Kick, Known, SessionTypeOK

(* And the client's from what the server sent.                             *)
LEMMA ClientQueues ==
  ASSUME NEW Q, down \in [Clients -> Seq(Q)], NEW c \in Clients,
         ConnectSucceeds(c) \/ ClientReceive(c) \/ ClientDisconnect(c) \/ Crash(c)
  PROVE  down' \in [Clients -> Seq(Q)]
<1> USE DEF serverVars, enetVars, clientVars
<1>1. CASE ConnectSucceeds(c)
  BY <1>1 DEF ConnectSucceeds
<1>2. CASE ClientReceive(c)
  <2>1. down[c] # <<>> /\ down' = [down EXCEPT ![c] = Tail(down[c])]
    BY <1>2 DEF ClientReceive
  <2> QED
    BY <2>1, DropType
<1>3. CASE ClientDisconnect(c) \/ Crash(c)
  <2>1. down' = [down EXCEPT ![c] = <<>>]
    BY <1>3 DEF ClientDisconnect, Crash
  <2> QED
    BY <2>1, DropType
<1> QED
  BY <1>1, <1>2, <1>3

(* Every variable of the session keeps its type: in particular an id taken *)
(* from m_nextID, wrapped or not, is a ClientID, and queues carry packets. *)
THEOREM TypeCorrect == Spec => []TypeOK
<1>1. TypeOK /\ [Next]_sessionVars => TypeOK'
  <2> SUFFICES ASSUME TypeOK, [Next]_sessionVars PROVE TypeOK'
    OBVIOUS
  <2> USE DEF serverVars, enetVars, clientVars
  <2> DEFINE Queues == up \in [Slots -> Seq(ToServer)] /\ down \in [Clients -> Seq(ToClient)]
  <2>1. SessionTypeOK'
    BY NextIsStep, StateType DEF TypeOK
  <2>2. Queues /\ SessionTypeOK
    BY DEF TypeOK
  <2>3. ASSUME Background PROVE Queues'
    <3>1. up' \in [Slots -> Seq(ToServer)] /\ down' \in [Clients -> Seq(ToClient)]
      BY <2>2, <2>3, BackgroundQueues
    <3> QED
      BY <3>1
  <2>4. ASSUME ServerStep PROVE Queues'
    <3>1. ASSUME NEW m \in ToClient, NEW d,
                 ServerBroadcast(m, d) \/ \E i \in ClientID : ServerSend(i, m, d)
          PROVE  Queues'
      <4>1. up' = up /\ \E S : Transmit(S, m, d)
        BY <3>1 DEF ServerBroadcast, ServerSend
      <4>2. down' \in [Clients -> Seq(ToClient)]
        BY <2>2, <4>1, TransmitType
      <4> QED
        BY <2>2, <4>1, <4>2
    <3>2. ASSUME \/ ServerClose
                 \/ \E s \in Slots : ServerConnect(s) \/ ServerReceive(s) \/ ServerDisconnect(s)
                 \/ \E i \in ClientID : Kick(i),
                 UNCHANGED down
          PROVE  Queues'
      <4>1. up' \in [Slots -> Seq(ToServer)]
        BY <2>2, <3>2, ServerQueues
      <4> QED
        BY <2>2, <3>2, <4>1
    <3> QED
      BY <2>4, <3>1, <3>2 DEF ServerStep, ServerClose
  <2>5. ASSUME NEW c \in Clients, ClientStep(c) PROVE Queues'
    <3>1. ASSUME NEW m \in ToServer, NEW d, ClientSend(c, m, d) PROVE Queues'
      <4>1. up' \in [Slots -> Seq(ToServer)]
        BY <2>2, <3>1, ClientSendType
      <4> QED
        BY <2>2, <3>1, <4>1 DEF ClientSend
    <3>2. ASSUME ConnectSucceeds(c) \/ ClientReceive(c) \/ ClientDisconnect(c) \/ Crash(c),
                 UNCHANGED up
          PROVE  Queues'
      <4>1. down' \in [Clients -> Seq(ToClient)]
        BY <2>2, <3>2, ClientQueues
      <4> QED
        BY <2>2, <3>2, <4>1
    <3> QED
      BY <2>5, <3>1, <3>2 DEF ClientStep, ClientDisconnect, Crash
  <2>6. ASSUME UNCHANGED sessionVars PROVE Queues'
    BY <2>2, <2>6 DEF sessionVars
  <2>7. Queues'
    BY <2>3, <2>4, <2>5, <2>6 DEF Next
  <2> QED
    BY <2>1, <2>7 DEF TypeOK
<1> QED
  BY <1>1, TypeInit, PTL DEF Spec

-----------------------------------------------------------------------------
(* Links and pointers: no assumption about ids.                            *)

(* At first nobody is linked.                                              *)
LEMMA LinkInit == Init => LinkInv
BY DEF Init, LinkInv, LinksAgree, ClientPointersAgree, Waiting

(* Every step keeps them, one operation at a time.                         *)
LEMMA LinkStep == SessionTypeOK /\ LinkInv /\ SessionStep => LinkInv'
<1> SUFFICES ASSUME SessionTypeOK, LinkInv, SessionStep PROVE LinkInv'
  OBVIOUS
<1> USE DEF SessionTypeOK, LinkInv, LinksAgree, ClientPointersAgree, Waiting,
            enetVars, serverVars, clientVars
<1>1. CASE Background
  <2>1. CASE ServerStart
    BY <2>1 DEF ServerStart
  <2>2. ASSUME NEW c \in Clients, ConnectBegin(c) PROVE LinkInv'
    BY <2>2 DEF ConnectBegin, MayConnect
  <2>3. ASSUME NEW c \in Clients, ConnectRefused(c) PROVE LinkInv'
    BY <2>3 DEF ConnectRefused, MayConnect
  <2>4. ASSUME NEW c \in Clients, ConnectFails(c) PROVE LinkInv'
    BY <2>4 DEF ConnectFails
  <2>5. ASSUME NEW c \in Clients, DisconnectBegin(c) PROVE LinkInv'
    BY <2>5 DEF DisconnectBegin
  <2>6. ASSUME NEW c \in Clients, DisconnectEnd(c) PROVE LinkInv'
    BY <2>6 DEF DisconnectEnd
  <2>7. ASSUME NEW c \in Clients, NEW s \in Slots, Accept(c, s) PROVE LinkInv'
    BY <2>7, NoSlotAssumption DEF Accept
  <2>8. ASSUME NEW s \in Slots, ReapPending(s) PROVE LinkInv'
    BY <2>8 DEF ReapPending
  <2> QED
    BY <1>1, <2>1, <2>2, <2>3, <2>4, <2>5, <2>6, <2>7, <2>8 DEF Background
<1>2. CASE ServerClose
  BY <1>2 DEF ServerClose
<1>3. ASSUME NEW s \in Slots, ServerConnect(s) PROVE LinkInv'
  BY <1>3 DEF ServerConnect
<1>4. ASSUME NEW s \in Slots, ServerReceive(s) PROVE LinkInv'
  BY <1>4 DEF ServerReceive
<1>5. ASSUME NEW s \in Slots, ServerDisconnect(s) PROVE LinkInv'
  BY <1>5 DEF ServerDisconnect
<1>6. ASSUME NEW i \in ClientID, Kick(i) PROVE LinkInv'
  BY <1>6 DEF Kick, Known
<1>7. ASSUME NEW c \in Clients, ConnectSucceeds(c) PROVE LinkInv'
  BY <1>7 DEF ConnectSucceeds
<1>8. ASSUME NEW c \in Clients, ClientReceive(c) PROVE LinkInv'
  BY <1>8 DEF ClientReceive
<1>9. ASSUME NEW c \in Clients, ClientDisconnect(c) PROVE LinkInv'
  BY <1>9 DEF ClientDisconnect
<1>10. ASSUME NEW c \in Clients, Crash(c) PROVE LinkInv'
  BY <1>10 DEF Crash
<1>11. CASE UNCHANGED <<serverVars, enetVars, clientVars>>
  BY <1>11
<1> QED
  BY <1>1, <1>2, <1>3, <1>4, <1>5, <1>6, <1>7, <1>8, <1>9, <1>10, <1>11 DEF SessionStep, ButConnect

(* Both hold always.                                                       *)
LEMMA LinksHold == Spec => []LinkInv
<1>1. TypeOK /\ LinkInv /\ [Next]_sessionVars => LinkInv'
  BY LinkStep, NextIsStep DEF TypeOK
<1> QED
  BY <1>1, LinkInit, TypeCorrect, PTL DEF Spec

(* A player's packets cannot reach the player who gets the slot next.      *)
THEOREM LinksCorrect == Spec => []LinksAgree
<1>1. LinkInv => LinksAgree
  BY DEF LinkInv
<1> QED
  BY <1>1, LinksHold, PTL

(* Only a CONNECT event makes the server reach a client it did not reach.  *)
LEMMA ReachedStep ==
  ASSUME SessionTypeOK, LinkInv, ButConnect,
         NEW c \in Reached(pstate', link')
  PROVE  c \in Reached(pstate, link) /\ link'[c] = link[c]
<1> USE DEF Reached, SessionTypeOK, enetVars, serverVars, clientVars
<1>1. CASE Background
  <2>1. CASE ServerStart
    BY <2>1 DEF ServerStart
  <2>2. ASSUME NEW d \in Clients, ConnectBegin(d) \/ ConnectRefused(d) \/ DisconnectBegin(d)
        PROVE  UNCHANGED <<pstate, link>>
    BY <2>2 DEF ConnectBegin, ConnectRefused, DisconnectBegin, MayConnect
  <2>3. ASSUME NEW d \in Clients, ConnectFails(d) \/ DisconnectEnd(d)
        PROVE  pstate' = pstate /\ link' = [link EXCEPT ![d] = NoSlot]
    BY <2>3 DEF ConnectFails, DisconnectEnd
  <2>4. ASSUME NEW d \in Clients, NEW s \in Slots, Accept(d, s)
        PROVE  c \in Reached(pstate, link) /\ link'[c] = link[c]
    BY <2>4 DEF Accept
  <2>5. ASSUME NEW s \in Slots, ReapPending(s)
        PROVE  c \in Reached(pstate, link) /\ link'[c] = link[c]
    BY <2>5, NoSlotAssumption DEF ReapPending
  <2> QED
    BY <1>1, <2>1, <2>2, <2>3, <2>4, <2>5, NoSlotAssumption DEF Background
<1>2. CASE ServerClose
  BY <1>2, NoSlotAssumption DEF ServerClose
<1>3. ASSUME NEW s \in Slots, ServerReceive(s) PROVE UNCHANGED <<pstate, link>>
  BY <1>3 DEF ServerReceive
<1>4. ASSUME NEW s \in Slots, ServerDisconnect(s)
      PROVE  c \in Reached(pstate, link) /\ link'[c] = link[c]
  BY <1>4, NoSlotAssumption DEF ServerDisconnect
<1>5. ASSUME NEW i \in ClientID, Kick(i)
      PROVE  c \in Reached(pstate, link) /\ link'[c] = link[c]
  BY <1>5 DEF Kick, Known
<1>6. ASSUME NEW d \in Clients, ConnectSucceeds(d)
      PROVE  c \in Reached(pstate, link) /\ link'[c] = link[c]
  BY <1>6 DEF ConnectSucceeds
<1>7. ASSUME NEW d \in Clients, ClientReceive(d) PROVE UNCHANGED <<pstate, link>>
  BY <1>7 DEF ClientReceive
<1>8. ASSUME NEW d \in Clients, ClientDisconnect(d) \/ Crash(d)
      PROVE  pstate' = pstate /\ link' = [link EXCEPT ![d] = NoSlot]
  BY <1>8 DEF ClientDisconnect, Crash
<1>9. CASE UNCHANGED <<serverVars, enetVars, clientVars>>
  BY <1>9
<1> QED
  BY <1>1, <1>2, <1>3, <1>4, <1>5, <1>6, <1>7, <1>8, <1>9, NoSlotAssumption DEF ButConnect

(* A handshake is complete only if it was before, or the client's wait for *)
(* it ends now.                                                            *)
LEMMA HandshakeStep ==
  ASSUME SessionTypeOK, LinkInv, SessionStep, NEW c \in Clients, ~ConnectSucceeds(c),
         link'[c] # NoSlot, pstate'[link'[c]] = "acknowledged"
  PROVE  link'[c] = link[c] /\ pstate[link[c]] = "acknowledged"
<1> USE DEF SessionTypeOK, enetVars, serverVars, clientVars
<1>1. CASE Background
  <2>1. CASE ServerStart
    BY <2>1 DEF ServerStart
  <2>2. ASSUME NEW d \in Clients, ConnectBegin(d) \/ ConnectRefused(d) \/ DisconnectBegin(d)
        PROVE  UNCHANGED <<pstate, link>>
    BY <2>2 DEF ConnectBegin, ConnectRefused, DisconnectBegin, MayConnect
  <2>3. ASSUME NEW d \in Clients, ConnectFails(d) \/ DisconnectEnd(d)
        PROVE  pstate' = pstate /\ link' = [link EXCEPT ![d] = NoSlot]
    BY <2>3 DEF ConnectFails, DisconnectEnd
  <2>4. ASSUME NEW d \in Clients, NEW s \in Slots, Accept(d, s)
        PROVE  link'[c] = link[c] /\ pstate[link[c]] = "acknowledged"
    BY <2>4 DEF Accept
  <2>5. ASSUME NEW s \in Slots, ReapPending(s)
        PROVE  link'[c] = link[c] /\ pstate[link[c]] = "acknowledged"
    BY <2>5 DEF ReapPending
  <2> QED
    BY <1>1, <2>1, <2>2, <2>3, <2>4, <2>5 DEF Background
<1>2. CASE ServerClose
  BY <1>2 DEF ServerClose
<1>3. ASSUME NEW s \in Slots, ServerReceive(s) PROVE UNCHANGED <<pstate, link>>
  BY <1>3 DEF ServerReceive
<1>4. ASSUME NEW s \in Slots, ServerDisconnect(s)
      PROVE  link'[c] = link[c] /\ pstate[link[c]] = "acknowledged"
  BY <1>4 DEF ServerDisconnect
<1>5. ASSUME NEW i \in ClientID, Kick(i)
      PROVE  link'[c] = link[c] /\ pstate[link[c]] = "acknowledged"
  BY <1>5 DEF Kick, Known
<1>6. ASSUME NEW d \in Clients, ConnectSucceeds(d)
      PROVE  link'[c] = link[c] /\ pstate[link[c]] = "acknowledged"
  BY <1>6 DEF ConnectSucceeds, LinkInv, LinksAgree
<1>7. ASSUME NEW d \in Clients, ClientReceive(d) PROVE UNCHANGED <<pstate, link>>
  BY <1>7 DEF ClientReceive
<1>8. ASSUME NEW d \in Clients, ClientDisconnect(d) \/ Crash(d)
      PROVE  pstate' = pstate /\ link' = [link EXCEPT ![d] = NoSlot]
  BY <1>8 DEF ClientDisconnect, Crash
<1>9. CASE UNCHANGED <<serverVars, enetVars, clientVars>>
  BY <1>9
<1>10. ASSUME NEW s \in Slots, ServerConnect(s)
       PROVE  link'[c] = link[c] /\ pstate[link[c]] = "acknowledged"
  BY <1>10 DEF ServerConnect
<1> QED
  BY <1>1, <1>2, <1>3, <1>4, <1>5, <1>6, <1>7, <1>8, <1>9, <1>10 DEF SessionStep, ButConnect

(* A step in which a wait for the server ends well is nothing else.        *)
LEMMA ConnectAlone ==
  ASSUME SessionTypeOK, NEW c \in Clients, ConnectSucceeds(c)
  PROVE  /\ ~Background /\ ~UNCHANGED clientVars
         /\ \A d \in Clients :
               /\ ~ClientDisconnect(d) /\ ~Crash(d)
               /\ ConnectSucceeds(d) => d = c
<1> USE DEF SessionTypeOK, enetVars, serverVars, clientVars
<1>1. /\ cCall[c] = "connect" /\ cCall'[c] = "none"
      /\ link'[c] = link[c] /\ link[c] # NoSlot
  BY DEF ConnectSucceeds
<1>2. ~Background
  BY <1>1 DEF Background, ServerStart, ConnectBegin, ConnectRefused, ConnectFails,
     DisconnectBegin, DisconnectEnd, Accept, ReapPending
<1>3. \A d \in Clients : ~ClientDisconnect(d) /\ ~Crash(d) /\ (ConnectSucceeds(d) => d = c)
  BY <1>1 DEF ClientDisconnect, Crash, ConnectSucceeds
<1> QED
  BY <1>1, <1>2, <1>3

(* A client's connection stands from the end of its wait on.               *)
Stands(c) == link[c] # NoSlot /\ pstate[link[c]] \in {"acknowledged", "connected"}

(* It comes about in no other step.                                        *)
LEMMA StandsStep ==
  ASSUME SessionTypeOK, LinkInv, SessionStep, NEW c \in Clients, ~ConnectSucceeds(c), Stands(c)'
  PROVE  Stands(c) /\ link'[c] = link[c]
<1>1. CASE pstate'[link'[c]] = "acknowledged"
  BY <1>1, HandshakeStep DEF Stands
<1>2. ASSUME pstate'[link'[c]] = "connected", ButConnect PROVE Stands(c) /\ link'[c] = link[c]
  <2>1. link' \in [Clients -> Slots \cup {NoSlot}]
    BY StateType DEF SessionTypeOK
  <2>2. c \in Reached(pstate', link')
    BY <1>2, <2>1 DEF Reached, Stands
  <2>3. c \in Reached(pstate, link) /\ link'[c] = link[c]
    BY <1>2, <2>2, ReachedStep
  <2> QED
    BY <2>3, NoSlotAssumption DEF Reached, Stands
<1>3. ASSUME NEW s \in Slots, ServerConnect(s) PROVE Stands(c) /\ link'[c] = link[c]
  BY <1>3 DEF ServerConnect, Stands, SessionTypeOK
<1> QED
  BY <1>1, <1>2, <1>3 DEF Stands, SessionStep

(* A handshake begins at a peer that was free, whose queue is emptied.     *)
LEMMA AcceptStep ==
  ASSUME SessionTypeOK, SessionStep, NEW P, up \in [Slots -> Seq(P)]
  PROVE  /\ \A c \in Clients : link'[c] # NoSlot /\ link'[c] # link[c] =>
               /\ link'[c] \in Slots /\ pstate[link'[c]] = "free"
               /\ pstate'[link'[c]] = "pending"
         /\ \A s \in Slots : pstate'[s] = "pending" => pstate[s] = "pending" \/ up'[s] = <<>>
<1> USE DEF SessionTypeOK, enetVars, serverVars, clientVars
<1> DEFINE Goal == /\ \A c \in Clients : link'[c] # NoSlot /\ link'[c] # link[c] =>
                         /\ link'[c] \in Slots /\ pstate[link'[c]] = "free"
                         /\ pstate'[link'[c]] = "pending"
                   /\ \A s \in Slots :
                         pstate'[s] = "pending" => pstate[s] = "pending" \/ up'[s] = <<>>
<1>1. CASE Background
  <2>1. CASE ServerStart
    BY <2>1 DEF ServerStart
  <2>2. ASSUME NEW d \in Clients, ConnectBegin(d) \/ ConnectRefused(d) \/ DisconnectBegin(d)
        PROVE  Goal
    BY <2>2 DEF ConnectBegin, ConnectRefused, DisconnectBegin, MayConnect
  <2>3. ASSUME NEW d \in Clients, ConnectFails(d) \/ DisconnectEnd(d) PROVE Goal
    BY <2>3 DEF ConnectFails, DisconnectEnd
  <2>4. ASSUME NEW d \in Clients, NEW s \in Slots, Accept(d, s) PROVE Goal
    BY <2>4 DEF Accept
  <2>5. ASSUME NEW s \in Slots, ReapPending(s) PROVE Goal
    BY <2>5 DEF ReapPending
  <2> QED
    BY <1>1, <2>1, <2>2, <2>3, <2>4, <2>5 DEF Background
<1>2. CASE ServerClose
  BY <1>2 DEF ServerClose
<1>3. ASSUME NEW s \in Slots, ServerReceive(s) \/ ServerConnect(s) \/ ServerDisconnect(s)
      PROVE  Goal
  BY <1>3 DEF ServerReceive, ServerConnect, ServerDisconnect
<1>4. ASSUME NEW i \in ClientID, Kick(i) PROVE Goal
  BY <1>4 DEF Kick, Known
<1>5. ASSUME NEW d \in Clients,
             ConnectSucceeds(d) \/ ClientReceive(d) \/ ClientDisconnect(d) \/ Crash(d)
      PROVE  Goal
  BY <1>5 DEF ConnectSucceeds, ClientReceive, ClientDisconnect, Crash
<1>6. CASE UNCHANGED <<serverVars, enetVars, clientVars>>
  BY <1>6
<1> QED
  BY <1>1, <1>2, <1>3, <1>4, <1>5, <1>6 DEF SessionStep, ButConnect

(* A client that has lost its peer, or waits, has nothing on its way to it *)
(* unless it had lost the peer, or waited, before.                         *)
LEMMA PeerLost ==
  ASSUME SessionTypeOK, SessionStep, NEW Q, down \in [Clients -> Seq(Q)],
         NEW c \in Clients, cCall'[c] = "connect" \/ ~cPeer'[c]
  PROVE  cCall[c] = "connect" \/ ~cPeer[c] \/ down'[c] = <<>>
<1> USE DEF SessionTypeOK, enetVars, serverVars, clientVars
<1> DEFINE Goal == cCall[c] = "connect" \/ ~cPeer[c] \/ down'[c] = <<>>
<1>1. CASE Background
  <2>1. ASSUME ServerStart \/ \E s \in Slots : ReapPending(s) \/ \E d \in Clients : Accept(d, s)
        PROVE  Goal
    BY <2>1 DEF ServerStart, ReapPending, Accept
  <2>2. ASSUME NEW d \in Clients, ConnectBegin(d) \/ ConnectRefused(d) \/ DisconnectBegin(d)
        PROVE  Goal
    BY <2>2 DEF ConnectBegin, ConnectRefused, DisconnectBegin, MayConnect
  <2>3. ASSUME NEW d \in Clients, ConnectFails(d) \/ DisconnectEnd(d) PROVE Goal
    BY <2>3 DEF ConnectFails, DisconnectEnd
  <2> QED
    BY <1>1, <2>1, <2>2, <2>3 DEF Background
<1>2. CASE \/ ServerClose
           \/ \E s \in Slots : ServerReceive(s) \/ ServerConnect(s) \/ ServerDisconnect(s)
           \/ \E i \in ClientID : Kick(i)
           \/ UNCHANGED <<serverVars, enetVars, clientVars>>
  BY <1>2 DEF ServerClose, ServerReceive, ServerConnect, ServerDisconnect, Kick
<1>3. ASSUME NEW d \in Clients,
             ConnectSucceeds(d) \/ ClientReceive(d) \/ ClientDisconnect(d) \/ Crash(d)
      PROVE  Goal
  BY <1>3 DEF ConnectSucceeds, ClientReceive, ClientDisconnect, Crash
<1> QED
  BY <1>1, <1>2, <1>3 DEF SessionStep, ButConnect

(* A client loses what is on its way only when it loses the server.        *)
LEMMA KeptDown ==
  ASSUME SessionTypeOK, NEW Q, down \in [Clients -> Seq(Q)], NEW c \in Reached(pstate', link'),
         Background \/ \E d \in Clients : ConnectSucceeds(d) \/ ClientDisconnect(d) \/ Crash(d)
  PROVE  down'[c] = down[c]
<1>1. c \in Clients /\ link'[c] # NoSlot
  BY NoSlotAssumption DEF Reached
<1>2. CASE Background
  BY <1>1, <1>2 DEF Background, ServerStart, ConnectBegin, ConnectRefused, ConnectFails,
      DisconnectBegin, DisconnectEnd, Accept, ReapPending, SessionTypeOK
<1>3. ASSUME NEW d \in Clients, ConnectSucceeds(d) \/ ClientDisconnect(d) \/ Crash(d)
      PROVE  down'[c] = down[c]
  BY <1>1, <1>3 DEF ConnectSucceeds, ClientDisconnect, Crash, SessionTypeOK
<1> QED
  BY <1>2, <1>3

(* Only close() and the two events touch m_peers.                          *)
LEMMA KnownWith ==
  ASSUME SessionTypeOK
  PROVE  /\ \A s \in Slots : ServerConnect(s) => Known' = Known \cup {nextID}
         /\ \A s \in Slots : ServerDisconnect(s) => Known' = Known \ {data[s]}
         /\ ServerClose => Known' = {}
         /\ peers' = peers => Known' = Known
<1> USE DEF SessionTypeOK, Known
<1>1. ASSUME NEW s \in Slots, ServerConnect(s) PROVE Known' = Known \cup {nextID}
  BY <1>1, NoSlotAssumption DEF ServerConnect
<1>2. ASSUME NEW s \in Slots, ServerDisconnect(s) PROVE Known' = Known \ {data[s]}
  BY <1>2 DEF ServerDisconnect
<1>3. ServerClose => Known' = {}
  BY DEF ServerClose
<1> QED
  BY <1>1, <1>2, <1>3

(* A connection that stands before and after a step of somebody else: its  *)
(* queues, its slot and its user pointer are left alone.                   *)
LEMMA Apart ==
  ASSUME SessionTypeOK, LinkInv, NEW P, up \in [Slots -> Seq(P)],
         NEW Q, down \in [Clients -> Seq(Q)],
         NEW c \in Clients, Stands(c), Stands(c)', link'[c] = link[c],
         \/ Background
         \/ \E s \in Slots : ServerDisconnect(s) /\ UNCHANGED down
         \/ \E i \in ClientID : Kick(i) /\ UNCHANGED down
         \/ \E d \in Clients :
               \/ ConnectSucceeds(d) /\ UNCHANGED up /\ d # c
               \/ ClientDisconnect(d) \/ Crash(d)
  PROVE  /\ link[c] \in Slots /\ UNCHANGED <<up[link[c]], down[c], pstate[link[c]], data[link[c]]>>
<1> USE DEF serverVars, enetVars, clientVars, Stands
<1>0. /\ pstate \in [Slots -> PeerState] /\ link \in [Clients -> Slots \cup {NoSlot}]
      /\ peers \in [ClientID -> Slots \cup {NoSlot}] /\ data \in [Slots -> ClientID]
      /\ link[c] \in Slots
  BY DEF SessionTypeOK
<1> DEFINE goal == UNCHANGED <<up[link[c]], down[c], pstate[link[c]], data[link[c]]>>
<1>1. CASE Background
  <2>1. ASSUME ServerStart PROVE goal
    BY <2>1 DEF ServerStart
  <2>2. ASSUME NEW d \in Clients, ConnectBegin(d) \/ ConnectRefused(d) \/ DisconnectBegin(d) PROVE goal
    BY <2>2 DEF ConnectBegin, ConnectRefused, DisconnectBegin, MayConnect
  <2>3. ASSUME NEW d \in Clients, ConnectFails(d) \/ DisconnectEnd(d) PROVE goal
    <3>1. d # c
      BY <1>0, <2>3 DEF ConnectFails, DisconnectEnd
    <3> QED
      BY <1>0, <2>3, <3>1 DEF ConnectFails, DisconnectEnd
  <2>4. ASSUME NEW d \in Clients, NEW s \in Slots, Accept(d, s) PROVE goal
    BY <1>0, <2>4 DEF Accept
  <2>5. ASSUME NEW s \in Slots, ReapPending(s) PROVE goal
    <3>1. s # link[c]
      BY <1>0, <2>5 DEF ReapPending
    <3>2. UNCHANGED <<down, data>> /\ pstate'[link[c]] = pstate[link[c]]
      BY <1>0, <2>5, <3>1 DEF ReapPending
    <3>3. up'[link[c]] = up[link[c]]
      BY <1>0, <2>5, <3>1 DEF ReapPending
    <3> QED
      BY <3>2, <3>3
  <2> QED
    BY <1>0, <1>1, <2>1, <2>2, <2>3, <2>4, <2>5 DEF Background
<1>2. ASSUME NEW s \in Slots, ServerDisconnect(s), UNCHANGED down PROVE goal
  BY <1>0, <1>2 DEF ServerDisconnect
<1>3. ASSUME NEW i \in ClientID, Kick(i), UNCHANGED down PROVE goal
  BY <1>0, <1>3 DEF Kick, Known
<1>4. ASSUME NEW d \in Clients, ConnectSucceeds(d), UNCHANGED up, d # c PROVE goal
  BY <1>0, <1>4 DEF ConnectSucceeds, LinkInv, LinksAgree
<1>5. ASSUME NEW d \in Clients, ClientDisconnect(d) \/ Crash(d) PROVE goal
  <2>1. d # c
    BY <1>0, <1>5 DEF ClientDisconnect, Crash
  <2> QED
    BY <1>0, <1>5, <2>1 DEF ClientDisconnect, Crash
<1> QED
  BY <1>0, <1>1, <1>2, <1>3, <1>4, <1>5

-----------------------------------------------------------------------------
(* m_peers and the user pointers, while no id is used twice.               *)

(* The first id is 1, and it is not in use.                                *)
LEMMA MatchInit == NoWrap /\ Init => MatchInv
<1> SUFFICES ASSUME NoWrap, Init PROVE MatchInv
  OBVIOUS
<1>1. nextID = 1
  BY SpanAssumption DEF NoWrap, Init
<1> QED
  BY <1>1, NoSlotAssumption DEF Init, MatchInv, PeersMatchSlots, Fresh, Known, Held

(* Below the bound on connections m_nextID++ does not wrap.                *)
LEMMA NextIDGrows ==
  ASSUME NoWrap, nextID \in ClientID, nextID < IdLimit
  PROVE  (nextID + 1) % IdSpan = nextID + 1
<1>1. nextID \in Nat /\ nextID + 1 < IdSpan
  BY SpanAssumption DEF NoWrap, ClientID
<1> QED
  BY <1>1, SpanAssumption

(* The actions that leave m_peers, the pointers, m_nextID and the state of *)
(* the held slots alone.                                                   *)
LEMMA MatchStable ==
  ASSUME SessionTypeOK, MatchInv, UNCHANGED <<peers, data, nextID>>,
         \A s \in Slots : Held(s)' = Held(s)
  PROVE  MatchInv'
<1>1. \A i \in Known : peers[i] \in Slots
  BY DEF SessionTypeOK, Known
<1>2. \A i \in Known : Held(peers[i])' = Held(peers[i])
  BY <1>1 DEF Held
<1> QED
  BY <1>2 DEF MatchInv, PeersMatchSlots, Fresh, Known

(* The new entry has an id and a peer of its own.                          *)
LEMMA ConnectMatch ==
  ASSUME NoWrap, SessionTypeOK, MatchInv, NEW s \in Slots, ServerConnect(s)
  PROVE  MatchInv'
<1> USE DEF SessionTypeOK
<1>1. nextID \in ClientID /\ nextID' = nextID + 1
  BY NextIDGrows DEF ServerConnect
<1>2. peers[nextID] = NoSlot /\ ClientID \subseteq Int
  BY <1>1 DEF MatchInv, Fresh, ClientID
<1>3. ~Held(s) /\ Held(s)' /\ \A t \in Slots : t # s => Held(t)' = Held(t)
  BY DEF ServerConnect, Held
<1>4. /\ peers'[nextID] = s /\ data'[s] = nextID
      /\ \A i \in ClientID : i # nextID => peers'[i] = peers[i]
      /\ \A t \in Slots : t # s => data'[t] = data[t]
  BY <1>1 DEF ServerConnect
<1>5. Fresh'
  BY <1>1, <1>2, <1>4 DEF MatchInv, Fresh, ClientID
<1>6. ASSUME NEW i \in Known' PROVE Held(peers[i])' /\ data'[peers'[i]] = i
  <2>1. CASE i = nextID
    BY <2>1, <1>3, <1>4
  <2>2. CASE i # nextID
    <3>1. i \in Known /\ peers'[i] = peers[i] /\ peers[i] \in Slots
      BY <2>2, <1>4 DEF Known
    <3>2. Held(peers[i]) /\ data[peers[i]] = i
      BY <3>1 DEF MatchInv, PeersMatchSlots
    <3>3. peers[i] # s
      BY <3>2, <1>3
    <3>4. Held(peers[i])' <=> pstate'[peers'[i]] \in {"connected", "disconnecting"}
      BY DEF Held
    <3>5. pstate'[peers[i]] = pstate[peers[i]]
      BY <3>1, <3>3 DEF ServerConnect
    <3> QED
      BY <3>1, <3>2, <3>3, <3>4, <3>5, <1>4 DEF Held
  <2> QED
    BY <2>1, <2>2
<1>7. ASSUME NEW t \in Slots, Held(t)' PROVE peers'[data'[t]] = t
  <2>1. CASE t = s
    BY <2>1, <1>4
  <2>2. CASE t # s
    BY <2>2, <1>2, <1>3, <1>4, <1>7, NoSlotAssumption DEF MatchInv, PeersMatchSlots
  <2> QED
    BY <2>1, <2>2
<1> QED
  BY <1>5, <1>6, <1>7 DEF MatchInv, PeersMatchSlots

(* The entry that is erased is that of the peer that goes.                 *)
LEMMA DisconnectMatch ==
  ASSUME SessionTypeOK, MatchInv, NEW s \in Slots, ServerDisconnect(s)
  PROVE  MatchInv'
<1> USE DEF SessionTypeOK
<1>1. Held(s) /\ peers[data[s]] = s /\ data[s] \in ClientID
  BY DEF ServerDisconnect, Held, MatchInv, PeersMatchSlots
<1>2. ~Held(s)' /\ \A t \in Slots : t # s => Held(t)' = Held(t)
  BY DEF ServerDisconnect, Held
<1>3. Known' = Known \ {data[s]} /\ \A i \in Known' : peers'[i] = peers[i]
  BY <1>1 DEF ServerDisconnect, Known
<1>4. data' = data /\ nextID' = nextID
  BY DEF ServerDisconnect
<1>5. Fresh'
  BY <1>3, <1>4 DEF MatchInv, Fresh, Known
<1>6. ASSUME NEW i \in Known' PROVE Held(peers[i])' /\ data'[peers'[i]] = i
  <2>1. i \in Known /\ i # data[s] /\ peers'[i] = peers[i] /\ peers[i] \in Slots
    BY <1>3 DEF Known
  <2>2. Held(peers[i]) /\ data[peers[i]] = i /\ peers[i] # s
    BY <2>1 DEF MatchInv, PeersMatchSlots
  <2>3. pstate'[peers'[i]] = pstate[peers[i]]
    BY <2>1, <2>2 DEF ServerDisconnect
  <2> QED
    BY <2>1, <2>2, <2>3, <1>4 DEF Held
<1>7. ASSUME NEW t \in Slots, Held(t)' PROVE peers'[data'[t]] = t
  <2>1. t # s /\ Held(t) /\ peers[data[t]] = t /\ data[t] \in Known
    BY <1>2, <1>7, NoSlotAssumption DEF MatchInv, PeersMatchSlots, Known
  <2> QED
    BY <2>1, <1>1, <1>3, <1>4
<1> QED
  BY <1>5, <1>6, <1>7 DEF MatchInv, PeersMatchSlots

(* Nothing is left to match.                                               *)
LEMMA CloseMatch == ASSUME SessionTypeOK, MatchInv, ServerClose PROVE MatchInv'
<1>1. /\ nextID' = nextID
      /\ \A i \in ClientID : peers'[i] = NoSlot
      /\ \A s \in Slots : pstate'[s] = "free"
  BY DEF ServerClose
<1> QED
  BY <1>1 DEF MatchInv, PeersMatchSlots, Fresh, Known, Held

(* The steps other than close() and the two events that change m_peers.    *)
LEMMA QuietMatch ==
  ASSUME SessionTypeOK, LinkInv, MatchInv, SessionStep, ~ServerClose,
         \A s \in Slots : ~ServerConnect(s) /\ ~ServerDisconnect(s)
  PROVE  MatchInv' /\ UNCHANGED <<peers, nextID>>
<1> USE DEF SessionTypeOK, enetVars, serverVars, clientVars
<1> SUFFICES UNCHANGED <<peers, data, nextID>> /\ \A s \in Slots : Held(s)' = Held(s)
  BY MatchStable
<1>1. CASE UNCHANGED <<serverVars, enetVars, clientVars>>
  BY <1>1 DEF Held
<1>2. CASE Background
  <2>1. CASE ServerStart
    BY <2>1 DEF ServerStart, Held
  <2>2. ASSUME NEW c \in Clients,
               \/ ConnectBegin(c) \/ ConnectRefused(c) \/ ConnectFails(c)
               \/ DisconnectBegin(c) \/ DisconnectEnd(c)
        PROVE  UNCHANGED <<peers, data, nextID, pstate>>
    BY <2>2 DEF ConnectBegin, ConnectRefused, ConnectFails, DisconnectBegin, DisconnectEnd
  <2>3. ASSUME NEW c \in Clients, NEW t \in Slots, Accept(c, t)
        PROVE  UNCHANGED <<peers, data, nextID>> /\ \A s \in Slots : Held(s)' = Held(s)
    BY <2>3 DEF Accept, Held
  <2>4. ASSUME NEW t \in Slots, ReapPending(t)
        PROVE  UNCHANGED <<peers, data, nextID>> /\ \A s \in Slots : Held(s)' = Held(s)
    BY <2>4 DEF ReapPending, Pending, Held
  <2> QED
    BY <1>2, <2>1, <2>2, <2>3, <2>4 DEF Background, Held
<1>3. ASSUME NEW i \in ClientID, Kick(i)
      PROVE  UNCHANGED <<peers, data, nextID>> /\ \A s \in Slots : Held(s)' = Held(s)
  BY <1>3 DEF Kick, Known, Held
<1>4. ASSUME NEW s \in Slots, ServerReceive(s)
      PROVE  UNCHANGED <<peers, data, nextID, pstate>>
  BY <1>4 DEF ServerReceive
<1>5. ASSUME NEW c \in Clients, ConnectSucceeds(c)
      PROVE  UNCHANGED <<peers, data, nextID>> /\ \A s \in Slots : Held(s)' = Held(s)
  <2>1. link[c] \in Slots /\ pstate[link[c]] = "pending"
    BY <1>5 DEF ConnectSucceeds, LinkInv, Waiting
  <2> QED
    BY <1>5, <2>1 DEF ConnectSucceeds, Held
<1>6. ASSUME NEW c \in Clients, ClientReceive(c) \/ ClientDisconnect(c) \/ Crash(c)
      PROVE  UNCHANGED <<peers, data, nextID, pstate>>
  BY <1>6 DEF ClientReceive, ClientDisconnect, Crash
<1> QED
  BY <1>1, <1>2, <1>3, <1>4, <1>5, <1>6 DEF SessionStep, ButConnect, Held

(* With close() and the two events: every step.                            *)
LEMMA MatchStep ==
  ASSUME NoWrap, SessionTypeOK, LinkInv, MatchInv, SessionStep PROVE MatchInv'
<1>1. CASE ServerClose
  BY <1>1, CloseMatch
<1>2. ASSUME NEW s \in Slots, ServerConnect(s) PROVE MatchInv'
  BY <1>2, ConnectMatch
<1>3. ASSUME NEW s \in Slots, ServerDisconnect(s) PROVE MatchInv'
  BY <1>3, DisconnectMatch
<1> QED
  BY <1>1, <1>2, <1>3, QuietMatch

(* A peer the server holds is known under an id of its own, below the next.*)
LEMMA HeldIsKnown ==
  ASSUME SessionTypeOK, MatchInv, NEW s \in Slots, Held(s)
  PROVE  /\ data[s] \in Known /\ peers[data[s]] = s
         /\ data[s] < nextID /\ data[s] # nextID
         /\ \A t \in Slots : Held(t) /\ data[t] = data[s] => t = s
<1>1. data[s] \in ClientID /\ peers[data[s]] = s
  BY DEF SessionTypeOK, MatchInv, PeersMatchSlots
<1>2. data[s] < nextID /\ data[s] \in Int /\ nextID \in Int
  BY <1>1, NoSlotAssumption, SpanAssumption DEF MatchInv, Fresh, SessionTypeOK, ClientID
<1> QED
  BY <1>1, <1>2, NoSlotAssumption DEF Known, MatchInv, PeersMatchSlots

(* The inductive invariant, while no id is used twice.                     *)
LEMMA InvariantHolds == NoWrap => (Spec => [](TypeOK /\ LinkInv /\ MatchInv))
<1>1. TypeOK /\ LinkInv /\ [Next]_sessionVars => LinkInv'
  BY LinkStep, NextIsStep DEF TypeOK
<1>2. NoWrap /\ TypeOK /\ LinkInv /\ MatchInv /\ [Next]_sessionVars => MatchInv'
  BY MatchStep, NextIsStep DEF TypeOK
<1> SUFFICES ASSUME NoWrap PROVE Spec => [](TypeOK /\ LinkInv /\ MatchInv)
  OBVIOUS
<1>3. TypeOK /\ LinkInv /\ MatchInv /\ [Next]_sessionVars => MatchInv'
  BY <1>2
<1>4. Init => MatchInv
  BY MatchInit
<1> QED
  BY <1>1, <1>3, <1>4, LinkInit, TypeCorrect, PTL DEF Spec

(* The entry of m_peers and the pointer of the ENet peer agree for every   *)
(* player the server holds, as long as ids are not used up.                *)
THEOREM PeersCorrect == NoWrap => (Spec => []PeersMatchSlots)
<1>1. TypeOK /\ LinkInv /\ MatchInv => PeersMatchSlots
  BY DEF MatchInv
<1> QED
  BY <1>1, InvariantHolds, PTL

-----------------------------------------------------------------------------
(* What the four kinds of step do to the players the server knows.         *)
LEMMA KnownSteps ==
  ASSUME NoWrap, SessionTypeOK, LinkInv, MatchInv, SessionStep
  PROVE  \/ /\ nextID \in ClientID \ (1 .. nextID - 1)
            /\ peers[nextID] = NoSlot
            /\ nextID' = nextID + 1
            /\ \E s \in Slots : peers' = [peers EXCEPT ![nextID] = s]
         \/ nextID' = nextID /\ \E i \in Known : peers' = [peers EXCEPT ![i] = NoSlot]
         \/ nextID' = nextID /\ peers' = [i \in ClientID |-> NoSlot]
         \/ nextID' = nextID /\ peers' = peers
<1>1. CASE ServerClose
  BY <1>1 DEF ServerClose
<1>2. ASSUME NEW s \in Slots, ServerConnect(s)
      PROVE  /\ nextID \in ClientID \ (1 .. nextID - 1)
             /\ peers[nextID] = NoSlot
             /\ nextID' = nextID + 1
             /\ peers' = [peers EXCEPT ![nextID] = s]
  <2>1. nextID \in ClientID /\ nextID \in Nat
    BY SpanAssumption DEF SessionTypeOK, ClientID
  <2>2. nextID' = nextID + 1
    BY <1>2, <2>1, NextIDGrows DEF ServerConnect
  <2>3. peers[nextID] = NoSlot
    BY <2>1 DEF MatchInv, Fresh
  <2> QED
    BY <1>2, <2>1, <2>2, <2>3 DEF ServerConnect
<1>3. ASSUME NEW s \in Slots, ServerDisconnect(s)
      PROVE  nextID' = nextID /\ \E i \in Known : peers' = [peers EXCEPT ![i] = NoSlot]
  <2>1. data[s] \in Known
    BY <1>3, NoSlotAssumption
       DEF ServerDisconnect, MatchInv, PeersMatchSlots, Held, Known, SessionTypeOK
  <2> QED
    BY <1>3, <2>1 DEF ServerDisconnect
<1> QED
  BY <1>1, <1>2, <1>3, QuietMatch

(* The player at the other end of a link that stays is not erased.         *)
LEMMA KnownStays ==
  ASSUME NoWrap, SessionTypeOK, LinkInv, MatchInv, SessionStep,
         NEW c \in Clients, link[c] # NoSlot, link'[c] = link[c],
         NEW i \in Known, peers[i] = link[c]
  PROVE  i \in Known' /\ peers'[i] = peers[i]
<1> USE DEF SessionTypeOK
<1>1. i \in ClientID /\ peers[i] \in Slots /\ peers[i] # NoSlot
  BY DEF Known
<1> SUFFICES peers'[i] = peers[i]
  BY <1>1 DEF Known
<1>2. CASE ServerClose
  BY <1>2 DEF ServerClose
<1>3. ASSUME NEW s \in Slots, ServerConnect(s) PROVE peers'[i] = peers[i]
  BY <1>1, <1>3 DEF ServerConnect, MatchInv, Fresh, ClientID
<1>4. ASSUME NEW s \in Slots, ServerDisconnect(s) PROVE peers'[i] = peers[i]
  <2>1. link[c] # s
    BY <1>4 DEF ServerDisconnect
  <2>2. Held(s)
    BY <1>4 DEF ServerDisconnect, Held
  <2>3. data[s] # i
    BY <2>1, <2>2 DEF MatchInv, PeersMatchSlots
  <2> QED
    BY <1>1, <1>4, <2>3 DEF ServerDisconnect
<1> QED
  BY <1>2, <1>3, <1>4, QuietMatch

(* An id that was known, and whose entry leads to a client's peer after a  *)
(* step, led there before.                                                 *)
LEMMA KnownLed ==
  ASSUME NoWrap, SessionTypeOK, LinkInv, MatchInv, SessionStep,
         NEW c \in Clients, NEW i \in Known', i # nextID, link'[c] = peers'[i],
         NEW P, up \in [Slots -> Seq(P)]
  PROVE  i \in Known /\ peers[i] = peers'[i] /\ link[c] = peers[i] /\ Held(link[c])
<1>1. i \in ClientID /\ peers'[i] # NoSlot
  BY DEF Known
<1>2. peers'[i] = peers[i]
  BY <1>1, KnownSteps DEF SessionTypeOK, Known
<1>3. i \in Known /\ Held(peers[i])
  BY <1>1, <1>2 DEF Known, MatchInv, PeersMatchSlots
<1>4. link'[c] = link[c]
  BY <1>1, <1>2, <1>3, AcceptStep DEF Held
<1> QED
  BY <1>2, <1>3, <1>4

(* A ClientID is never passed from one connection to another one.          *)
THEOREM IdentityCorrect == NoWrap => (Spec => IdentityStable)
<1>1. ASSUME NoWrap, TypeOK, LinkInv, MatchInv, [Next]_sessionVars
      PROVE  \A i \in ClientID : peers[i] # NoSlot => peers'[i] \in {peers[i], NoSlot}
  BY <1>1, KnownSteps, NextIsStep DEF TypeOK, SessionTypeOK, Known
<1> SUFFICES ASSUME NoWrap PROVE Spec => IdentityStable
  OBVIOUS
<1>2. ASSUME TypeOK, LinkInv, MatchInv, [Next]_sessionVars
      PROVE  [\A i \in ClientID :
                peers[i] # NoSlot => peers'[i] \in {peers[i], NoSlot}]_sessionVars
  BY <1>1, <1>2
<1> QED
  BY <1>2, InvariantHolds, PTL DEF Spec, IdentityStable

(* The server implements the roster: ids are announced once, in a row, and *)
(* the players of m_peers come and go as the roster allows.                *)
THEOREM RosterCorrect == NoWrap => (Spec => ImplementsRoster)
<1> SUFFICES ASSUME NoWrap PROVE Spec => ImplementsRoster
  OBVIOUS
<1>1. Init => Abstract!Init
  <2> SUFFICES ASSUME Init PROVE Abstract!Init
    OBVIOUS
  <2>1. nextID = 1
    BY SpanAssumption DEF NoWrap, Init
  <2>2. 1 .. nextID - 1 = {} /\ Known = {}
    BY <2>1 DEF Init, Known
  <2> QED
    BY <2>2 DEF Abstract!Init
<1>2. ASSUME TypeOK, LinkInv, MatchInv, [Next]_sessionVars
      PROVE  [Abstract!Next]_<<1 .. nextID - 1, Known>>
  <2>1. nextID \in Nat /\ peers \in [ClientID -> Slots \cup {NoSlot}]
    BY <1>2, SpanAssumption DEF TypeOK, SessionTypeOK, ClientID
  <2>2. CASE /\ nextID \in ClientID \ (1 .. nextID - 1)
             /\ peers[nextID] = NoSlot
             /\ nextID' = nextID + 1
             /\ \E s \in Slots : peers' = [peers EXCEPT ![nextID] = s]
    <3>1. Known' = Known \cup {nextID}
      BY <2>1, <2>2, NoSlotAssumption DEF Known
    <3>2. (1 .. nextID - 1)' = (1 .. nextID - 1) \cup {nextID}
      BY <1>2, <2>1, <2>2 DEF MatchInv, Fresh
    <3> QED
      BY <2>2, <3>1, <3>2 DEF Abstract!Next, Abstract!Join
  <2>3. CASE nextID' = nextID /\ \E i \in Known : peers' = [peers EXCEPT ![i] = NoSlot]
    <3>1. PICK i \in Known : peers' = [peers EXCEPT ![i] = NoSlot]
      BY <2>3
    <3>2. Known' = Known \ {i}
      BY <2>1, <3>1 DEF Known
    <3> QED
      BY <2>3, <3>2 DEF Abstract!Next, Abstract!Leave
  <2>4. CASE nextID' = nextID /\ peers' = [i \in ClientID |-> NoSlot]
    <3>1. Known' = {}
      BY <2>4 DEF Known
    <3> QED
      BY <2>4, <3>1 DEF Abstract!Next, Abstract!CloseAll
  <2>5. CASE nextID' = nextID /\ peers' = peers
    BY <2>5 DEF Known
  <2> QED
    BY <1>2, <2>2, <2>3, <2>4, <2>5, KnownSteps, NextIsStep DEF TypeOK
<1> QED
  BY <1>1, <1>2, InvariantHolds, PTL DEF Spec, ImplementsRoster, Abstract!Spec

=============================================================================
