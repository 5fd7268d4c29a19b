-------------------------- MODULE MatchmakingProofs --------------------------
(***************************************************************************)
(* Proofs about Matchmaking, for any set of clients, slots and match sizes.*)
(* What depends on ids not being reused is proved under NoWrap.            *)
(***************************************************************************)
EXTENDS Matchmaking, SessionProofs

-----------------------------------------------------------------------------
(* Sequences and what is in them.                                          *)

(* The two ways to say that something is in a sequence.                    *)
LEMMA ContainsIs ==
  ASSUME NEW P, NEW q \in Seq(P), NEW e
  PROVE  Contains(q, e) <=> e \in ToSet(q)
BY DEF Contains, ToSet

(* One more at the end, or one less at the front.                          *)
LEMMA MoreAndLess ==
  ASSUME NEW P, NEW q \in Seq(P), NEW m \in P
  PROVE  /\ Append(q, m) \in Seq(P) /\ ToSet(Append(q, m)) = ToSet(q) \cup {m}
         /\ q # <<>> => /\ Tail(q) \in Seq(P) /\ Head(q) \in P
                        /\ ToSet(q) = {Head(q)} \cup ToSet(Tail(q))
<1> DEFINE a == Append(q, m)
           r == Tail(q)
<1>1. a \in Seq(P) /\ Len(a) = Len(q) + 1 /\ a[Len(q) + 1] = m
      /\ \A k \in 1 .. Len(q) : a[k] = q[k]
  OBVIOUS
<1>2. q # <<>> => /\ r \in Seq(P) /\ Head(q) \in P /\ Len(r) = Len(q) - 1 /\ Len(q) > 0
                  /\ Head(q) = q[1] /\ \A k \in 1 .. Len(r) : r[k] = q[k + 1]
  OBVIOUS
<1> HIDE DEF a, r
<1>3. ToSet(a) = ToSet(q) \cup {m}
  <2>1. \A e : e \in ToSet(a) <=> \E k \in 1 .. Len(q) + 1 : a[k] = e
    BY <1>1 DEF ToSet
  <2>2. \A e : e \in ToSet(q) <=> \E k \in 1 .. Len(q) : q[k] = e
    BY DEF ToSet
  <2>3. ASSUME NEW e PROVE e \in ToSet(a) <=> e \in ToSet(q) \cup {m}
    <3>1. ASSUME NEW k \in 1 .. Len(q) + 1, a[k] = e PROVE e \in ToSet(q) \cup {m}
      BY <1>1, <2>2, <3>1
    <3>2. \A k \in 1 .. Len(q) : k \in 1 .. Len(q) + 1
      OBVIOUS
    <3>3. Len(q) + 1 \in 1 .. Len(q) + 1
      OBVIOUS
    <3> QED
      BY <1>1, <2>1, <2>2, <3>1, <3>2, <3>3
  <2> QED
    BY <2>3
<1>4. ASSUME q # <<>> PROVE ToSet(q) = {Head(q)} \cup ToSet(r)
  <2>1. \A e : e \in ToSet(r) <=> \E k \in 1 .. Len(q) - 1 : q[k + 1] = e
    BY <1>2, <1>4 DEF ToSet
  <2>2. \A e : e \in ToSet(q) <=> \E k \in 1 .. Len(q) : q[k] = e
    BY DEF ToSet
  <2>3. \A k \in 1 .. Len(q) : k # 1 => k - 1 \in 1 .. Len(q) - 1 /\ k = (k - 1) + 1
    OBVIOUS
  <2>4. \A k \in 1 .. Len(q) - 1 : k + 1 \in 1 .. Len(q)
    OBVIOUS
  <2>5. 1 \in 1 .. Len(q)
    BY <1>2, <1>4
  <2>6. ASSUME NEW e PROVE e \in ToSet(q) <=> e \in {Head(q)} \cup ToSet(r)
    <3>1. ASSUME NEW k \in 1 .. Len(q), q[k] = e PROVE e \in {Head(q)} \cup ToSet(r)
      BY <1>2, <1>4, <2>1, <2>3, <3>1
    <3> QED
      BY <1>2, <1>4, <2>1, <2>2, <2>4, <2>5, <3>1
  <2> QED
    BY <2>6
<1> QED
  BY <1>1, <1>2, <1>3, <1>4 DEF a, r

(* A sequence is cut in two: nothing is in both parts that was not twice in *)
(* the whole, and nothing is lost.                                         *)
LEMMA CutInTwo ==
  ASSUME NEW P, NEW q \in Seq(P), NEW n \in Nat, n <= Len(q)
  PROVE  LET front == SubSeq(q, 1, n)
             rest == SubSeq(q, n + 1, Len(q))
         IN  /\ rest \in Seq(P) /\ front \in Seq(P)
             /\ ToSet(q) = ToSet(front) \cup ToSet(rest)
             /\ IsInjective(q) => IsInjective(rest)
<1> DEFINE front == SubSeq(q, 1, n)
           rest == SubSeq(q, n + 1, Len(q))
<1>1. /\ front \in Seq(P) /\ Len(front) = n
      /\ \A k \in 1 .. n : front[k] = q[k]
  OBVIOUS
<1>2. /\ rest \in Seq(P) /\ Len(rest) = Len(q) - n
      /\ \A k \in 1 .. Len(q) - n : rest[k] = q[k + n]
  OBVIOUS
<1> HIDE DEF front, rest
<1>3. ToSet(q) = ToSet(front) \cup ToSet(rest)
  <2>1. /\ \A e : e \in ToSet(q) <=> \E k \in 1 .. Len(q) : q[k] = e
        /\ \A e : e \in ToSet(front) <=> \E k \in 1 .. n : q[k] = e
        /\ \A e : e \in ToSet(rest) <=> \E k \in 1 .. Len(q) - n : q[k + n] = e
    <3>1. \A e : e \in ToSet(q) <=> \E k \in 1 .. Len(q) : q[k] = e
      BY DEF ToSet
    <3>2. \A e : e \in ToSet(front) <=> \E k \in 1 .. n : q[k] = e
      BY <1>1 DEF ToSet
    <3>3. \A e : e \in ToSet(rest) <=> \E k \in 1 .. Len(q) - n : q[k + n] = e
      <4>1. DOMAIN rest = 1 .. Len(q) - n
        BY <1>2
      <4>2. \A e : e \in ToSet(rest) <=> \E k \in 1 .. Len(q) - n : rest[k] = e
        BY <4>1 DEF ToSet
      <4> QED
        BY <1>2, <4>2
    <3> QED
      BY <3>1, <3>2, <3>3
  <2>2. \A k \in 1 .. Len(q) : k \in 1 .. n \/ (k - n \in 1 .. Len(q) - n /\ k = (k - n) + n)
    OBVIOUS
  <2>3. /\ \A k \in 1 .. n : k \in 1 .. Len(q)
        /\ \A k \in 1 .. Len(q) - n : k + n \in 1 .. Len(q)
    OBVIOUS
  <2>4. ASSUME NEW e PROVE e \in ToSet(q) <=> e \in ToSet(front) \cup ToSet(rest)
    <3>1. ASSUME NEW k \in 1 .. Len(q), q[k] = e PROVE e \in ToSet(front) \cup ToSet(rest)
      <4>1. CASE k \in 1 .. n
        BY <2>1, <3>1, <4>1
      <4>2. CASE k - n \in 1 .. Len(q) - n /\ k = (k - n) + n
        BY <2>1, <3>1, <4>2
      <4> QED
        BY <2>2, <4>1, <4>2
    <3> QED
      BY <2>1, <2>3, <3>1
  <2> QED
    BY <2>4
<1>4. ASSUME IsInjective(q) PROVE IsInjective(rest)
  <2> SUFFICES ASSUME NEW j \in 1 .. Len(q) - n, NEW k \in 1 .. Len(q) - n, rest[j] = rest[k]
               PROVE  j = k
    BY <1>2 DEF IsInjective
  <2>1. q[j + n] = q[k + n] /\ j + n \in DOMAIN q /\ k + n \in DOMAIN q
    BY <1>2
  <2>2. j + n = k + n
    BY <1>4, <2>1 DEF IsInjective
  <2> QED
    BY <2>2
<1> QED
  BY <1>1, <1>2, <1>3, <1>4 DEF front, rest

-----------------------------------------------------------------------------
(* leaveQueue().                                                           *)

(* What is left of the queue: everybody else, nobody twice.                *)
LEMMA WithoutIs ==
  ASSUME NEW P, NEW q \in Seq(P), NEW i
  PROVE  /\ Without(q, i) \in Seq(P)
         /\ ToSet(Without(q, i)) = ToSet(q) \ {i}
         /\ IsInjective(q) => IsInjective(Without(q, i))
<1> DEFINE kept == {k \in DOMAIN q : q[k] # i}
           r == Picked(q, kept)
<1>1. Without(q, i) = r
  BY DEF Without
<1>2. kept \subseteq DOMAIN q /\ \A k : k \in kept <=> k \in DOMAIN q /\ q[k] # i
  OBVIOUS
<1> HIDE DEF kept
<1>3. /\ r \in Seq(P)
      /\ \A n \in DOMAIN r : \E k \in kept : r[n] = q[k]
      /\ \A k \in kept : \E n \in DOMAIN r : r[n] = q[k]
      /\ (\A j, k \in kept : q[j] = q[k] => j = k) => \A m, n \in DOMAIN r : r[m] = r[n] => m = n
  BY <1>2, PickedIs
<1> HIDE DEF r
<1>4. ToSet(r) = ToSet(q) \ {i}
  BY <1>2, <1>3 DEF ToSet
<1>5. IsInjective(q) => IsInjective(r)
  BY <1>2, <1>3 DEF IsInjective
<1> QED
  BY <1>1, <1>3, <1>4, <1>5

-----------------------------------------------------------------------------
(* A step of matchmaking is a step of the session below it.                *)
LEMMA MMIsSession == [MMNext]_mmVars => SessionStep
BY DEF MMNext, mmVars, sessionVars, SessionStep, ButConnect, MMServerClose, SetPlayersPerMatch,
       MMKick, Arrives, ReceiveJoin, ReceiveLeave, QueuedLeaves, Connected, JoinQueue,
       LeaveQueue, ReceiveFound, LosesServer, ClientRestarts, ClientSend

(* The steps, each with the event or the call it belongs to.               *)
LEMMA MMCases ==
  ASSUME MMNext
  PROVE  \/ Background /\ UNCHANGED mmLocal
         \/ MMServerClose
         \/ \E n \in MatchSizes : SetPlayersPerMatch(n)
         \/ \E i \in ClientID : MMKick(i)
         \/ \E s \in Slots : Arrives(s)
         \/ \E s \in Slots : ReceiveJoin(s)
         \/ \E s \in Slots : ReceiveLeave(s)
         \/ \E s \in Slots : QueuedLeaves(s)
         \/ \E c \in Clients : Connected(c)
         \/ \E c \in Clients : JoinQueue(c)
         \/ \E c \in Clients : LeaveQueue(c)
         \/ \E c \in Clients : ReceiveFound(c)
         \/ \E c \in Clients : LosesServer(c)
         \/ \E c \in Clients : ClientRestarts(c)
BY DEF MMNext

-----------------------------------------------------------------------------
(* Type correctness.                                                       *)

(* tryCreateMatch(): of those who wait, some stay and the others are told. *)
LEMMA MatchMade ==
  ASSUME MMTypeOK, NEW q \in Seq(ClientID), TryCreateMatch(q)
  PROVE  /\ queue' \in Seq(ClientID) /\ ToSet(queue') \subseteq ToSet(q)
         /\ IsInjective(q) => IsInjective(queue')
         /\ down' \in [Clients -> Seq(MMToClient)]
         /\ \A c \in Clients : down'[c] \in {down[c], Append(down[c], "FOUND")}
         /\ \A c \in Reached(pstate, link), i \in Known :
               i \in ToSet(q) /\ peers[i] = link[c] =>
                   i \in ToSet(queue') \/ down'[c] = Append(down[c], "FOUND")
<1> DEFINE matched == ToSet(SubSeq(q, 1, perMatch))
           told == {c \in Reached(pstate, link) : \E i \in matched \cap Known : link[c] = peers[i]}
<1>0. perMatch \in Nat /\ down \in [Clients -> Seq(MMToClient)] /\ Len(q) \in Nat
  BY DEF MMTypeOK
<1>1. CASE Len(q) < perMatch
  BY <1>0, <1>1 DEF TryCreateMatch
<1>2. CASE ~(Len(q) < perMatch)
  <2>1. queue' = SubSeq(q, perMatch + 1, Len(q)) /\ down' = AppendTo(down, told, "FOUND")
    BY <1>2 DEF TryCreateMatch
  <2>2. /\ queue' \in Seq(ClientID) /\ ToSet(q) = matched \cup ToSet(queue')
        /\ IsInjective(q) => IsInjective(queue')
    BY <1>0, <1>2, <2>1, CutInTwo
  <2>3. down' \in [Clients -> Seq(MMToClient)]
    BY <1>0, <2>1, AppendToType DEF MMToClient
  <2> HIDE DEF matched
  <2>4. \A c \in Clients : down'[c] = IF c \in told THEN Append(down[c], "FOUND") ELSE down[c]
    BY <1>0, <2>1 DEF AppendTo
  <2>5. \A c \in Reached(pstate, link), i \in Known :
           i \in matched /\ peers[i] = link[c] => c \in told /\ c \in Clients
    BY DEF Reached
  <2> HIDE DEF told
  <2> QED
    BY <2>2, <2>3, <2>4, <2>5
<1> QED
  BY <1>1, <1>2

(* The initial values have their types.                                    *)
LEMMA MMTypeInit == MMInit => MMTypeOK
<1> SUFFICES ASSUME MMInit PROVE MMTypeOK
  OBVIOUS
<1>1. SessionTypeOK
  BY TypeInit DEF MMInit, TypeOK
<1>2. 0 \in ClientID
  BY SpanAssumption DEF ClientID
<1>3. up \in [Slots -> Seq(MMToServer)] /\ down \in [Clients -> Seq(MMToClient)]
  BY DEF MMInit, Init
<1>4. queue \in Seq(ClientID) /\ perMatch \in Nat
  BY DEF MMInit
<1> QED
  BY <1>1, <1>2, <1>3, <1>4 DEF MMInit, MMTypeOK

(* The types of the queues between the processes and of the variables of   *)
(* matchmaking.                                                            *)
MMLocalOK ==
    /\ up \in [Slots -> Seq(MMToServer)]
    /\ down \in [Clients -> Seq(MMToClient)]
    /\ perMatch \in Nat
    /\ queue \in Seq(ClientID)
    /\ inQueue \in [Clients -> BOOLEAN]
    /\ asked \in [Clients -> BOOLEAN]
    /\ crossed \in [Clients -> BOOLEAN]
    /\ closedAt \in ClientID

(* Every step keeps them.                                                  *)
LEMMA MMTypeStep == ASSUME MMTypeOK, MMNext PROVE MMTypeOK'
<1> USE DEF serverVars, enetVars, clientVars, mmLocal
<1>0. SessionTypeOK /\ MMLocalOK
  BY DEF MMTypeOK, MMLocalOK
<1>1. SessionTypeOK'
  BY <1>0, MMIsSession, StateType
<1>2. ASSUME Background, UNCHANGED mmLocal PROVE MMLocalOK'
  BY <1>0, <1>2, BackgroundQueues DEF MMLocalOK
<1>3. ASSUME MMServerClose PROVE MMLocalOK'
  <2>1. nextID \in ClientID /\ down' = down
    BY <1>0, <1>3 DEF MMServerClose, ServerClose, SessionTypeOK
  <2>2. up' \in [Slots -> Seq(MMToServer)]
    BY <1>0, <1>3, ServerQueues DEF MMServerClose, MMLocalOK
  <2> QED
    BY <1>0, <1>3, <2>1, <2>2 DEF MMServerClose, MMLocalOK
<1>4. ASSUME NEW n \in MatchSizes, SetPlayersPerMatch(n) PROVE MMLocalOK'
  BY <1>0, <1>4, MatchAssumption DEF SetPlayersPerMatch, sessionVars, MMLocalOK
<1>5. ASSUME NEW i \in ClientID, MMKick(i) PROVE MMLocalOK'
  <2>1. up' \in [Slots -> Seq(MMToServer)]
    BY <1>0, <1>5, ServerQueues DEF MMKick, MMLocalOK
  <2> QED
    BY <1>0, <1>5, <2>1 DEF MMKick, MMLocalOK
<1>6. ASSUME NEW s \in Slots, Arrives(s) PROVE MMLocalOK'
  <2>1. up' \in [Slots -> Seq(MMToServer)]
    BY <1>0, <1>6, ServerQueues DEF Arrives, MMLocalOK
  <2> QED
    BY <1>0, <1>6, <2>1 DEF Arrives, MMLocalOK
<1>7. ASSUME NEW s \in Slots, ReceiveJoin(s) PROVE MMLocalOK'
  <2>1. ServerReceive(s) /\ UNCHANGED <<perMatch, inQueue, asked, crossed, closedAt>>
        /\ (UNCHANGED <<queue, down>> \/ TryCreateMatch(Append(queue, data[s])))
    BY <1>7 DEF ReceiveJoin
  <2>2. up' \in [Slots -> Seq(MMToServer)]
    BY <1>0, <2>1, ServerQueues DEF MMLocalOK
  <2>3. Append(queue, data[s]) \in Seq(ClientID)
    BY <1>0 DEF MMLocalOK, SessionTypeOK
  <2>4. queue' \in Seq(ClientID) /\ down' \in [Clients -> Seq(MMToClient)]
    BY <1>0, <2>1, <2>3, MatchMade DEF MMLocalOK
  <2> QED
    BY <1>0, <2>1, <2>2, <2>4 DEF MMLocalOK
<1>8. ASSUME NEW s \in Slots, ReceiveLeave(s) \/ QueuedLeaves(s) PROVE MMLocalOK'
  <2>1. /\ ServerReceive(s) \/ ServerDisconnect(s)
        /\ UNCHANGED <<down, perMatch, inQueue, asked, crossed, closedAt>>
        /\ queue' = Without(queue, data[s])
    BY <1>8 DEF ReceiveLeave, QueuedLeaves
  <2>2. up' \in [Slots -> Seq(MMToServer)]
    BY <1>0, <2>1, ServerQueues DEF MMLocalOK
  <2>3. queue' \in Seq(ClientID)
    BY <1>0, <2>1, WithoutIs DEF MMLocalOK
  <2> QED
    BY <1>0, <2>1, <2>2, <2>3 DEF MMLocalOK
<1>9. ASSUME NEW c \in Clients, Connected(c) PROVE MMLocalOK'
  BY <1>0, <1>9 DEF Connected, ConnectSucceeds, MMLocalOK
<1>10. ASSUME NEW c \in Clients, JoinQueue(c) \/ LeaveQueue(c) PROVE MMLocalOK'
  <2>1. /\ \/ \E m \in MMToServer : ClientSend(c, m, "Reliable")
           \/ UNCHANGED sessionVars
        /\ UNCHANGED <<perMatch, queue, closedAt>>
    BY <1>10 DEF JoinQueue, LeaveQueue, MMToServer
  <2>2. up' \in [Slots -> Seq(MMToServer)]
    BY <1>0, <2>1, ClientSendType DEF MMLocalOK, sessionVars
  <2>3. down' = down
    BY <2>1 DEF ClientSend, sessionVars
  <2>4. /\ inQueue' \in [Clients -> BOOLEAN] /\ asked' \in [Clients -> BOOLEAN]
        /\ crossed' \in [Clients -> BOOLEAN]
    BY <1>0, <1>10 DEF JoinQueue, LeaveQueue, MMLocalOK
  <2> QED
    BY <1>0, <2>1, <2>2, <2>3, <2>4 DEF MMLocalOK
<1>11. ASSUME NEW c \in Clients, ReceiveFound(c) PROVE MMLocalOK'
  <2>1. down' \in [Clients -> Seq(MMToClient)]
    BY <1>0, <1>11, ClientQueues DEF ReceiveFound, MMLocalOK
  <2>2. crossed[c] \in BOOLEAN /\ AskedAgain(c) \in BOOLEAN
    BY <1>0 DEF MMLocalOK, AskedAgain
  <2>3. crossed' \in [Clients -> BOOLEAN]
    BY <1>0, <1>11, <2>2 DEF ReceiveFound, MMLocalOK
  <2> QED
    BY <1>0, <1>11, <2>1, <2>3 DEF ReceiveFound, MMLocalOK
<1>12. ASSUME NEW c \in Clients, LosesServer(c) \/ ClientRestarts(c) PROVE MMLocalOK'
  <2>1. down' \in [Clients -> Seq(MMToClient)]
    BY <1>0, <1>12, ClientQueues DEF LosesServer, ClientRestarts, MMLocalOK
  <2>2. up' = up
    BY <1>12 DEF LosesServer, ClientRestarts, ClientDisconnect, Crash
  <2> QED
    BY <1>0, <1>12, <2>1, <2>2 DEF LosesServer, ClientRestarts, MMLocalOK
<1>13. MMLocalOK'
  BY <1>2, <1>3, <1>4, <1>5, <1>6, <1>7, <1>8, <1>9, <1>10, <1>11, <1>12, MMCases
<1> QED
  BY <1>1, <1>13 DEF MMTypeOK, MMLocalOK

(* The queue holds ids, the flags are flags, and nothing but the three     *)
(* kinds of packet is sent.                                                *)
THEOREM MMTypesCorrect == MMSpec => []MMTypeOK
<1>1. MMTypeOK /\ UNCHANGED mmVars => MMTypeOK'
  BY DEF MMTypeOK, SessionTypeOK, mmVars, mmLocal, sessionVars, serverVars, enetVars, clientVars
<1> QED
  BY <1>1, MMTypeInit, MMTypeStep, PTL DEF MMSpec

-----------------------------------------------------------------------------
(* What the session guarantees holds under matchmaking.                    *)

(* Nobody shares a link.                                                   *)
LEMMA MMLinks == MMSpec => [](MMTypeOK /\ LinkInv)
<1>1. MMInit => LinkInv
  BY LinkInit DEF MMInit
<1>2. MMTypeOK /\ LinkInv /\ [MMNext]_mmVars => LinkInv'
  BY MMIsSession, LinkStep DEF MMTypeOK
<1> QED
  BY <1>1, <1>2, MMTypesCorrect, PTL DEF MMSpec

(* And m_peers is right, while no id is used twice.                        *)
LEMMA MMMatch == NoWrap => (MMSpec => [](MMTypeOK /\ LinkInv /\ MatchInv))
<1> SUFFICES ASSUME NoWrap PROVE MMSpec => [](MMTypeOK /\ LinkInv /\ MatchInv)
  OBVIOUS
<1>1. MMInit => MatchInv
  BY MatchInit DEF MMInit
<1>2. MMTypeOK /\ LinkInv /\ MatchInv /\ [MMNext]_mmVars => MatchInv'
  BY MMIsSession, MatchStep DEF MMTypeOK
<1> QED
  BY <1>1, <1>2, MMLinks, PTL DEF MMSpec

-----------------------------------------------------------------------------
(* Who is in the queue.                                                    *)

(* One more who was not there is there once.                               *)
LEMMA OnceMore ==
  ASSUME NEW P, NEW q \in Seq(P), IsInjective(q), NEW e \in P, e \notin ToSet(q)
  PROVE  IsInjective(Append(q, e))
<1> DEFINE a == Append(q, e)
<1>1. /\ DOMAIN a = 1 .. Len(q) + 1 /\ a[Len(q) + 1] = e
      /\ \A k \in 1 .. Len(q) : a[k] = q[k]
  OBVIOUS
<1>2. \A k \in 1 .. Len(q) + 1 : k \in 1 .. Len(q) \/ k = Len(q) + 1
  OBVIOUS
<1>3. \A k \in 1 .. Len(q) : q[k] # e
  BY DEF ToSet
<1>4. \A j, k \in 1 .. Len(q) : q[j] = q[k] => j = k
  BY DEF IsInjective
<1> HIDE DEF a
<1>5. ASSUME NEW j \in 1 .. Len(q) + 1, NEW k \in 1 .. Len(q) + 1, a[j] = a[k] PROVE j = k
  BY <1>1, <1>2, <1>3, <1>4, <1>5
<1>6. IsInjective(a)
  BY <1>1, <1>5 DEF IsInjective
<1> QED
  BY <1>6 DEF a

(* A JOIN puts its sender into the queue, or leaves it there, or the       *)
(* sender is told of a match.                                              *)
LEMMA Joined ==
  ASSUME MMTypeOK, NEW s \in Slots, ReceiveJoin(s)
  PROVE  /\ ToSet(queue') \subseteq ToSet(queue) \cup {data[s]}
         /\ IsInjective(queue) => IsInjective(queue')
         /\ \A c \in Clients : down'[c] \in {down[c], Append(down[c], "FOUND")}
         /\ \A c \in Reached(pstate, link), i \in Known :
               i \in ToSet(queue) \cup {data[s]} /\ peers[i] = link[c] =>
                   i \in ToSet(queue') \/ down'[c] = Append(down[c], "FOUND")
<1>0. /\ data[s] \in ClientID /\ queue \in Seq(ClientID)
  BY DEF MMTypeOK, SessionTypeOK
<1>1. CASE Contains(queue, data[s])
  <2>1. UNCHANGED <<queue, down>> /\ data[s] \in ToSet(queue)
    BY <1>0, <1>1, ContainsIs DEF ReceiveJoin
  <2> QED
    BY <2>1
<1>2. CASE ~Contains(queue, data[s])
  <2> DEFINE q == Append(queue, data[s])
  <2>1. TryCreateMatch(q) /\ data[s] \notin ToSet(queue)
    BY <1>0, <1>2, ContainsIs DEF ReceiveJoin
  <2>2. q \in Seq(ClientID) /\ ToSet(q) = ToSet(queue) \cup {data[s]}
    BY <1>0, MoreAndLess
  <2>3. IsInjective(queue) => IsInjective(q)
    BY <1>0, <2>1, OnceMore
  <2> HIDE DEF q
  <2> QED
    BY <2>1, <2>2, <2>3, MatchMade
<1> QED
  BY <1>1, <1>2

(* What the steps do to the queue and to m_peers.                          *)
LEMMA QueueStep ==
  ASSUME MMTypeOK, MMNext
  PROVE  /\ IsInjective(queue) => IsInjective(queue')
         /\ \/ /\ \E s \in Slots : ServerConnect(s)
               /\ UNCHANGED <<queue, closedAt>>
            \/ \E s \in Slots :
                  /\ ServerDisconnect(s) /\ closedAt' = closedAt
                  /\ ToSet(queue') = ToSet(queue) \ {data[s]}
            \/ /\ ServerClose /\ queue' = queue
               /\ closedAt' = IF queue = <<>> THEN closedAt ELSE nextID
            \/ /\ UNCHANGED <<peers, nextID, closedAt>>
               /\ \/ ToSet(queue') \subseteq ToSet(queue)
                  \/ \E s \in Slots : /\ pstate[s] = "connected"
                                      /\ ToSet(queue') \subseteq ToSet(queue) \cup {data[s]}
<1> USE DEF mmLocal, serverVars
<1>0. queue \in Seq(ClientID)
  BY DEF MMTypeOK
<1>1. ASSUME NEW s \in Slots, Arrives(s) PROVE ServerConnect(s) /\ UNCHANGED <<queue, closedAt>>
  BY <1>1 DEF Arrives
<1>2. ASSUME NEW s \in Slots, QueuedLeaves(s)
      PROVE  /\ ServerDisconnect(s) /\ closedAt' = closedAt
             /\ ToSet(queue') = ToSet(queue) \ {data[s]}
             /\ IsInjective(queue) => IsInjective(queue')
  BY <1>0, <1>2, WithoutIs DEF QueuedLeaves
<1>3. MMServerClose => /\ ServerClose /\ queue' = queue
                       /\ closedAt' = IF queue = <<>> THEN closedAt ELSE nextID
  BY DEF MMServerClose
<1>4. ASSUME NEW s \in Slots, ReceiveJoin(s) \/ ReceiveLeave(s)
      PROVE  /\ UNCHANGED <<peers, nextID, closedAt>> /\ pstate[s] = "connected"
             /\ IsInjective(queue) => IsInjective(queue')
             /\ ToSet(queue') \subseteq ToSet(queue) \cup {data[s]}
  <2>1. UNCHANGED <<peers, nextID, closedAt>> /\ pstate[s] = "connected"
    BY <1>4 DEF ReceiveJoin, ReceiveLeave, ServerReceive
  <2>2. CASE ReceiveJoin(s)
    BY <2>1, <2>2, Joined
  <2>3. CASE ReceiveLeave(s)
    BY <1>0, <2>1, <2>3, WithoutIs DEF ReceiveLeave
  <2> QED
    BY <1>4, <2>2, <2>3
<1>5. ASSUME \/ Background /\ UNCHANGED mmLocal
             \/ \E n \in MatchSizes : SetPlayersPerMatch(n)
             \/ \E i \in ClientID : MMKick(i)
             \/ \E c \in Clients :
                   \/ Connected(c) \/ JoinQueue(c) \/ LeaveQueue(c) \/ ReceiveFound(c)
                   \/ LosesServer(c) \/ ClientRestarts(c)
      PROVE  UNCHANGED <<peers, nextID, closedAt, queue>>
  <2>1. CASE Background /\ UNCHANGED mmLocal
    BY <2>1 DEF Background, ServerStart, ConnectBegin, ConnectRefused, ConnectFails,
       DisconnectBegin, DisconnectEnd, Accept, ReapPending
  <2>2. CASE (\E n \in MatchSizes : SetPlayersPerMatch(n)) \/ \E i \in ClientID : MMKick(i)
    BY <2>2 DEF SetPlayersPerMatch, sessionVars, MMKick, Kick
  <2>3. ASSUME NEW c \in Clients,
               \/ Connected(c) \/ JoinQueue(c) \/ LeaveQueue(c) \/ ReceiveFound(c)
               \/ LosesServer(c) \/ ClientRestarts(c)
        PROVE  UNCHANGED <<peers, nextID, closedAt, queue>>
    BY <2>3 DEF Connected, ConnectSucceeds, JoinQueue, LeaveQueue, ClientSend, sessionVars,
       ReceiveFound, ClientReceive, LosesServer, ClientDisconnect, ClientRestarts, Crash
  <2> QED
    BY <1>5, <2>1, <2>2, <2>3
<1> QED
  BY <1>1, <1>2, <1>3, <1>4, <1>5, MMCases

(* Nobody waits twice, so nobody is matched with himself, however often    *)
(* JOIN arrives and whoever leaves in between.                             *)
THEOREM NobodyTwiceCorrect == MMSpec => []NobodyTwice
<1>1. MMInit => NobodyTwice
  BY DEF MMInit, NobodyTwice, IsInjective
<1>2. MMTypeOK /\ NobodyTwice /\ MMNext => NobodyTwice'
  BY QueueStep DEF NobodyTwice
<1>3. NobodyTwice /\ UNCHANGED mmVars => NobodyTwice'
  BY DEF NobodyTwice, mmVars, mmLocal
<1> QED
  BY <1>1, <1>2, <1>3, MMTypesCorrect, PTL DEF MMSpec

(* Every id in the queue was taken from m_nextID before: a new player is   *)
(* not in it, and m_nextID bounds those who are left behind.               *)
QueueInv ==
    /\ WaitingPredateClose
    /\ \A i \in ToSet(queue) : i < nextID

(* No step queues anybody who is not a player, or forgets to take out one  *)
(* who leaves.                                                             *)
LEMMA QueueInvStep ==
  ASSUME NoWrap, MMTypeOK, MatchInv, QueueInv, MMNext
  PROVE  QueueInv'
<1>0. /\ nextID \in ClientID /\ ClientID \subseteq Int /\ SessionTypeOK
      /\ ToSet(queue) \subseteq ClientID /\ ToSet(queue') \subseteq ClientID
  <2>1. \A q \in Seq(ClientID) : ToSet(q) \subseteq ClientID
    BY DEF ToSet
  <2>2. MMTypeOK'
    BY MMTypeStep
  <2> QED
    BY <2>1, <2>2 DEF MMTypeOK, SessionTypeOK, ClientID
<1>1. ASSUME NEW s \in Slots, ServerConnect(s), UNCHANGED <<queue, closedAt>> PROVE QueueInv'
  <2>1. nextID' = nextID + 1 /\ Known' = Known \cup {nextID}
    BY <1>0, <1>1, NextIDGrows, KnownWith DEF ServerConnect
  <2>2. ASSUME NEW i \in ToSet(queue) PROVE i < nextID'
    <3>1. i \in Int /\ nextID \in Int /\ i < nextID
      BY <1>0 DEF QueueInv
    <3> QED
      BY <2>1, <3>1
  <2> QED
    BY <1>1, <2>1, <2>2 DEF QueueInv, WaitingPredateClose
<1>2. ASSUME NEW s \in Slots, ServerDisconnect(s), closedAt' = closedAt,
             ToSet(queue') = ToSet(queue) \ {data[s]}
      PROVE  QueueInv'
  <2>1. nextID' = nextID /\ Known' = Known \ {data[s]}
    BY <1>0, <1>2, KnownWith DEF ServerDisconnect
  <2> QED
    BY <1>2, <2>1 DEF QueueInv, WaitingPredateClose
<1>3. ASSUME ServerClose, queue' = queue,
             closedAt' = IF queue = <<>> THEN closedAt ELSE nextID
      PROVE  QueueInv'
  <2>1. nextID' = nextID
    BY <1>3 DEF ServerClose
  <2>2. queue = <<>> => ToSet(queue) = {}
    BY DEF ToSet
  <2> QED
    BY <1>3, <2>1, <2>2 DEF QueueInv, WaitingPredateClose
<1>4. ASSUME UNCHANGED <<peers, nextID, closedAt>>, ToSet(queue') \subseteq ToSet(queue)
      PROVE  QueueInv'
  BY <1>4 DEF QueueInv, WaitingPredateClose, Known
<1>5. ASSUME UNCHANGED <<peers, nextID, closedAt>>, NEW s \in Slots, pstate[s] = "connected",
             ToSet(queue') \subseteq ToSet(queue) \cup {data[s]}
      PROVE  QueueInv'
  <2>1. data[s] \in Known /\ data[s] < nextID /\ Known' = Known
    BY <1>0, <1>5, HeldIsKnown, KnownWith DEF Held
  <2> QED
    BY <1>5, <2>1 DEF QueueInv, WaitingPredateClose
<1> QED
  BY <1>1, <1>2, <1>3, <1>4, <1>5, QueueStep

(* As long as no id is used twice, whoever waits is a player, except for   *)
(* those the server was closed on.                                         *)
LEMMA QueueInvHolds == NoWrap => (MMSpec => []QueueInv)
<1> SUFFICES ASSUME NoWrap PROVE MMSpec => []QueueInv
  OBVIOUS
<1>1. MMInit => QueueInv
  BY DEF MMInit, QueueInv, WaitingPredateClose, ToSet
<1>2. MMTypeOK /\ MatchInv /\ QueueInv /\ MMNext => QueueInv'
  BY QueueInvStep
<1>3. QueueInv /\ UNCHANGED mmVars => QueueInv'
  BY DEF QueueInv, WaitingPredateClose, Known, mmVars, mmLocal, sessionVars, serverVars
<1> QED
  BY <1>1, <1>2, <1>3, MMMatch, PTL DEF MMSpec

(* The part of it that a run checks.                                       *)
THEOREM WaitingCorrect == NoWrap => (MMSpec => []WaitingPredateClose)
<1>1. QueueInv => WaitingPredateClose
  BY DEF QueueInv
<1> QED
  BY <1>1, QueueInvHolds, PTL

-----------------------------------------------------------------------------
(* Requests in order.                                                      *)

(* Every a in the queue has a b somewhere behind it.                       *)
Followed(q, a, b) == \A k \in DOMAIN q : q[k] = a => \E j \in DOMAIN q : j > k /\ q[j] = b

(* A b put at the end follows everything.                                  *)
LEMMA FollowedAppend ==
  ASSUME NEW P, NEW q \in Seq(P), NEW a, NEW b \in P, a # b
  PROVE  Followed(Append(q, b), a, b)
<1> DEFINE r == Append(q, b)
<1>1. /\ DOMAIN r = 1 .. Len(q) + 1 /\ r[Len(q) + 1] = b /\ Len(q) \in Nat
  OBVIOUS
<1> HIDE DEF r
<1>2. ASSUME NEW k \in DOMAIN r, r[k] = a PROVE \E j \in DOMAIN r : j > k /\ r[j] = b
  <2>1. k # Len(q) + 1
    BY <1>1, <1>2
  <2>2. Len(q) + 1 > k /\ Len(q) + 1 \in DOMAIN r
    BY <1>1, <2>1
  <2> QED
    BY <1>1, <2>2
<1>3. Followed(r, a, b)
  BY <1>2 DEF Followed
<1> QED
  BY <1>3 DEF r

(* When the first one is taken the others are followed as before, and if   *)
(* it was an a there is a b among them.                                    *)
LEMMA FollowedTail ==
  ASSUME NEW P, NEW q \in Seq(P), q # <<>>, NEW a, NEW b, Followed(q, a, b)
  PROVE  Followed(Tail(q), a, b) /\ (Head(q) = a => b \in ToSet(Tail(q)))
<1> DEFINE r == Tail(q)
<1>1. /\ DOMAIN r = 1 .. Len(q) - 1 /\ DOMAIN q = 1 .. Len(q) /\ Len(q) \in Nat
      /\ 1 \in DOMAIN q /\ Head(q) = q[1]
      /\ \A k \in 1 .. Len(q) - 1 : r[k] = q[k + 1]
  OBVIOUS
<1> HIDE DEF r
<1>2. \A k \in DOMAIN q : k > 1 => k - 1 \in DOMAIN r /\ r[k - 1] = q[k]
  <2> SUFFICES ASSUME NEW k \in DOMAIN q, k > 1 PROVE k - 1 \in DOMAIN r /\ r[k - 1] = q[k]
    OBVIOUS
  <2>1. k - 1 \in 1 .. Len(q) - 1 /\ (k - 1) + 1 = k
    BY <1>1
  <2> QED
    BY <1>1, <2>1
<1>3. ASSUME NEW k \in DOMAIN r, r[k] = a PROVE \E j \in DOMAIN r : j > k /\ r[j] = b
  <2>1. k + 1 \in DOMAIN q /\ q[k + 1] = a /\ k \in Nat
    BY <1>1, <1>3
  <2>2. PICK j \in DOMAIN q : j > k + 1 /\ q[j] = b
    BY <2>1 DEF Followed
  <2>3. j > 1 /\ j - 1 > k
    BY <1>1, <2>1, <2>2
  <2> QED
    BY <1>2, <2>2, <2>3
<1>4. ASSUME Head(q) = a PROVE b \in ToSet(r)
  <2>1. PICK j \in DOMAIN q : j > 1 /\ q[j] = b
    BY <1>1, <1>4 DEF Followed
  <2> QED
    BY <1>2, <2>1 DEF ToSet
<1>5. Followed(r, a, b)
  BY <1>3 DEF Followed
<1> QED
  BY <1>4, <1>5 DEF r

(* Nothing has to be followed where there is none.                         *)
LEMMA FollowedNone ==
  ASSUME NEW q, NEW a, NEW b, a \notin ToSet(q)
  PROVE  Followed(q, a, b)
BY DEF Followed, ToSet

-----------------------------------------------------------------------------
(* A client and its place in the queue.                                    *)

(* The id under which the server has the client queued or not.             *)
Queued(c) == pstate[link[c]] = "connected" /\ data[link[c]] \in ToSet(queue)

(* A client that waits is on its way into the queue, in it or on its way   *)
(* out, and it said JOIN last.                                             *)
Remembered(c) ==
    Stands(c) /\ inQueue[c] /\ asked[c] =>
        /\ "JOIN" \in ToSet(up[link[c]]) \/ Queued(c) \/ "FOUND" \in ToSet(down[c])
        /\ Followed(up[link[c]], "LEAVE", "JOIN")

(* A client that is out is out of the queue once its LEAVE, which it said  *)
(* last, is taken.                                                         *)
LeftAlone(c) ==
    Stands(c) /\ ~inQueue[c] /\ ~crossed[c] =>
        /\ Followed(up[link[c]], "JOIN", "LEAVE")
        /\ Queued(c) => "LEAVE" \in ToSet(up[link[c]])

(* What a client asks for is not on its way before the handshake is done.  *)
PendingEmpty == \A s \in Slots : pstate[s] = "pending" => up[s] = <<>>

WaitInv == PendingEmpty /\ \A c \in Clients : Remembered(c) /\ LeftAlone(c)

(* A connection comes about in Connected and nowhere else.                 *)
LEMMA ConnectIsConnected ==
  ASSUME MMTypeOK, MMNext, NEW c \in Clients, ConnectSucceeds(c)
  PROVE  Connected(c)
<1>1. /\ ~Background /\ ~UNCHANGED clientVars
      /\ \A d \in Clients : /\ ~ClientDisconnect(d) /\ ~Crash(d)
                            /\ ConnectSucceeds(d) => d = c
  BY ConnectAlone DEF MMTypeOK
<1>2. \/ UNCHANGED clientVars
      \/ Background
      \/ \E d \in Clients : ConnectSucceeds(d) /\ Connected(d)
      \/ \E d \in Clients : ClientDisconnect(d) \/ Crash(d)
  BY MMCases DEF MMServerClose, ServerClose, SetPlayersPerMatch, sessionVars, MMKick, Kick,
     Arrives, ServerConnect, ReceiveJoin, ReceiveLeave, ServerReceive, QueuedLeaves,
     ServerDisconnect, Connected, JoinQueue, LeaveQueue, ClientSend, ReceiveFound, ClientReceive,
     LosesServer, ClientRestarts
<1> QED
  BY <1>1, <1>2

(* Steps that are no concern of a client whose connection stands.          *)
LEMMA Bystander ==
  ASSUME MMTypeOK, LinkInv, MatchInv, NEW c \in Clients, Stands(c), Stands(c)', link'[c] = link[c],
         \/ Background /\ UNCHANGED mmLocal
         \/ \E n \in MatchSizes : SetPlayersPerMatch(n)
         \/ \E i \in ClientID : MMKick(i)
         \/ \E t \in Slots : QueuedLeaves(t)
         \/ \E d \in Clients : LosesServer(d) \/ ClientRestarts(d)
         \/ \E d \in Clients :
               d # c /\ (Connected(d) \/ JoinQueue(d) \/ LeaveQueue(d) \/ ReceiveFound(d))
  PROVE  /\ UNCHANGED <<up[link[c]], down[c], pstate[link[c]], inQueue[c], asked[c], crossed[c]>>
         /\ Queued(c)' = Queued(c)
<1> USE DEF mmLocal, serverVars, enetVars, clientVars
<1>0. /\ SessionTypeOK /\ up \in [Slots -> Seq(MMToServer)] /\ down \in [Clients -> Seq(MMToClient)]
      /\ inQueue \in [Clients -> BOOLEAN] /\ asked \in [Clients -> BOOLEAN]
      /\ crossed \in [Clients -> BOOLEAN] /\ queue \in Seq(ClientID) /\ link[c] \in Slots
  BY DEF MMTypeOK, SessionTypeOK, Stands
<1>1. CASE \/ Background /\ UNCHANGED mmLocal
           \/ \E i \in ClientID : MMKick(i)
           \/ \E d \in Clients : LosesServer(d) \/ ClientRestarts(d)
           \/ \E d \in Clients : d # c /\ Connected(d)
  <2>1. UNCHANGED <<up[link[c]], down[c], pstate[link[c]], data[link[c]]>>
    BY <1>0, <1>1, Apart DEF MMKick, LosesServer, ClientRestarts, Connected
  <2>2. UNCHANGED <<queue, inQueue[c], asked[c], crossed[c]>>
    <3>1. ASSUME NEW d \in Clients, ClientRestarts(d) PROVE d # c
      BY <1>0, <3>1 DEF ClientRestarts, Crash, Stands, SessionTypeOK
    <3> QED
      BY <1>0, <1>1, <3>1 DEF MMKick, LosesServer, ClientRestarts, Connected
  <2> QED
    BY <2>1, <2>2 DEF Queued
<1>2. ASSUME NEW t \in Slots, QueuedLeaves(t)
      PROVE  /\ UNCHANGED <<up[link[c]], down[c], pstate[link[c]], inQueue[c], asked[c], crossed[c]>>
             /\ Queued(c)' = Queued(c)
  <2>1. UNCHANGED <<up[link[c]], down[c], pstate[link[c]], data[link[c]]>>
    BY <1>0, <1>2, Apart DEF QueuedLeaves
  <2>2. ToSet(queue') = ToSet(queue) \ {data[t]} /\ UNCHANGED <<inQueue, asked, crossed>>
    BY <1>0, <1>2, WithoutIs DEF QueuedLeaves
  <2>3. pstate[link[c]] = "connected" => data[link[c]] # data[t]
    <3>1. Held(t) /\ t # link[c]
      BY <1>0, <1>2, NoSlotAssumption
         DEF QueuedLeaves, ServerDisconnect, Held, Stands, SessionTypeOK
    <3> QED
      BY <1>0, <3>1, HeldIsKnown DEF Held
  <2> QED
    BY <2>1, <2>2, <2>3 DEF Queued
<1>3. ASSUME NEW n \in MatchSizes, SetPlayersPerMatch(n)
      PROVE  /\ UNCHANGED <<up[link[c]], down[c], pstate[link[c]], inQueue[c], asked[c], crossed[c]>>
             /\ Queued(c)' = Queued(c)
  BY <1>3 DEF SetPlayersPerMatch, sessionVars, Queued
<1>4. ASSUME NEW d \in Clients, d # c, JoinQueue(d) \/ LeaveQueue(d)
      PROVE  /\ UNCHANGED <<up[link[c]], down[c], pstate[link[c]], inQueue[c], asked[c], crossed[c]>>
             /\ Queued(c)' = Queued(c)
  <2> DEFINE open == {s \in Slots : link[d] = s /\ pstate[s] \in {"acknowledged", "connected"}}
  <2>1. UNCHANGED <<enetVars, down, queue>>
    BY <1>4 DEF JoinQueue, LeaveQueue, ClientSend, sessionVars
  <2>2. up' = up \/ \E m \in MMToServer : up' = AppendTo(up, open, m)
    BY <1>4 DEF JoinQueue, LeaveQueue, ClientSend, sessionVars, MMToServer
  <2>3. link[c] \notin open
    BY <1>0, <1>4, NoSlotAssumption DEF LinkInv, LinksAgree
  <2> HIDE DEF open
  <2>4. up'[link[c]] = up[link[c]]
    BY <1>0, <2>2, <2>3 DEF AppendTo
  <2>5. UNCHANGED <<inQueue[c], asked[c], crossed[c]>>
    BY <1>0, <1>4 DEF JoinQueue, LeaveQueue
  <2> QED
    BY <2>1, <2>4, <2>5 DEF Queued
<1>5. ASSUME NEW d \in Clients, d # c, ReceiveFound(d)
      PROVE  /\ UNCHANGED <<up[link[c]], down[c], pstate[link[c]], inQueue[c], asked[c], crossed[c]>>
             /\ Queued(c)' = Queued(c)
  <2>1. UNCHANGED <<enetVars, up, queue, asked, inQueue[c], crossed[c], down[c]>>
    BY <1>0, <1>5 DEF ReceiveFound, ClientReceive
  <2> QED
    BY <2>1 DEF Queued
<1> QED
  BY <1>1, <1>2, <1>3, <1>4, <1>5

(* Nothing that concerns the client has changed.                           *)
LEMMA Settled ==
  ASSUME NEW c \in Clients, Remembered(c), LeftAlone(c), Stands(c), link'[c] = link[c],
         UNCHANGED <<up[link[c]], down[c], inQueue[c], asked[c], crossed[c]>>,
         Queued(c)' = Queued(c)
  PROVE  Remembered(c)' /\ LeftAlone(c)'
BY DEF Remembered, LeftAlone

(* The connection is made: nothing is on its way on it.                    *)
LEMMA ConnectedWaits ==
  ASSUME MMTypeOK, LinkInv, WaitInv, NEW c \in Clients, Connected(c)
  PROVE  Remembered(c)' /\ LeftAlone(c)'
<1>0. /\ asked \in [Clients -> BOOLEAN] /\ link[c] \in Slots /\ pstate \in [Slots -> PeerState]
  BY DEF MMTypeOK, SessionTypeOK, Connected, ConnectSucceeds
<1>1. ~asked'[c]
  BY <1>0 DEF Connected
<1>2. up' = up /\ up[link[c]] = <<>> /\ link' = link
  <2>1. pstate[link[c]] = "pending"
    BY DEF Connected, ConnectSucceeds, LinkInv, Waiting
  <2> QED
    BY <1>0, <2>1 DEF WaitInv, PendingEmpty, Connected, ConnectSucceeds, enetVars
<1>3. ~Queued(c)'
  BY <1>0, <1>2 DEF Queued, Connected, ConnectSucceeds
<1>4. "JOIN" \notin ToSet(up'[link'[c]])
  BY <1>2 DEF ToSet
<1>5. Followed(up'[link'[c]], "JOIN", "LEAVE")
  BY <1>4, FollowedNone
<1> QED
  BY <1>1, <1>3, <1>5 DEF Remembered, LeftAlone

(* The server takes an id that nobody in the queue has.                    *)
LEMMA ArrivesWaits ==
  ASSUME NoWrap, MMTypeOK, MatchInv, QueueInv, NEW c \in Clients,
         Remembered(c), LeftAlone(c), Stands(c), link'[c] = link[c], NEW t \in Slots, Arrives(t)
  PROVE  Remembered(c)' /\ LeftAlone(c)'
<1>0. /\ UNCHANGED <<up, down, link, queue, inQueue, asked, crossed>>
      /\ link[c] \in Slots /\ nextID \in Int
      /\ pstate \in [Slots -> PeerState] /\ data \in [Slots -> ClientID]
  BY SpanAssumption DEF Arrives, ServerConnect, mmLocal, Stands, MMTypeOK, SessionTypeOK, ClientID
<1>1. CASE t = link[c]
  <2>1. ~Queued(c)
    BY <1>1 DEF Queued, Arrives, ServerConnect
  <2>2. nextID \notin ToSet(queue)
    BY <1>0 DEF QueueInv
  <2>3. data'[t] = nextID
    BY <1>0 DEF Arrives, ServerConnect
  <2>4. ~Queued(c)'
    BY <1>0, <1>1, <2>2, <2>3 DEF Queued
  <2>5. Queued(c)' = Queued(c)
    BY <2>1, <2>4 DEF Queued
  <2> QED
    BY <1>0, <1>1, <2>5, Settled
<1>2. CASE t # link[c]
  <2>1. data'[link[c]] = data[link[c]] /\ pstate'[link[c]] = pstate[link[c]]
    BY <1>0, <1>2 DEF Arrives, ServerConnect
  <2>2. Queued(c)' = Queued(c)
    BY <1>0, <2>1 DEF Queued
  <2> QED
    BY <1>0, <2>2, Settled
<1> QED
  BY <1>1, <1>2

(* A JOIN is taken, this client's or another one's.                        *)
LEMMA JoinWaits ==
  ASSUME MMTypeOK, LinkInv, MatchInv, NEW c \in Clients,
         Remembered(c), LeftAlone(c), Stands(c), link'[c] = link[c],
         NEW t \in Slots, ReceiveJoin(t)
  PROVE  Remembered(c)' /\ LeftAlone(c)'
<1> DEFINE s == link[c]
<1>0. /\ UNCHANGED <<pstate, data, link, inQueue, asked, crossed>>
      /\ s \in Slots /\ SessionTypeOK /\ Held(t) /\ pstate[t] = "connected"
      /\ up[s] \in Seq(MMToServer) /\ down[c] \in Seq(MMToClient)
  BY DEF ReceiveJoin, ServerReceive, enetVars, Stands, MMTypeOK, SessionTypeOK, Held
<1>1. down'[c] \in {down[c], Append(down[c], "FOUND")}
  BY Joined
<1>2. "FOUND" \in MMToClient
  BY DEF MMToClient
<1>3. /\ down'[c] = Append(down[c], "FOUND") => "FOUND" \in ToSet(down'[c])
      /\ "FOUND" \in ToSet(down[c]) => "FOUND" \in ToSet(down'[c])
  <2>1. "FOUND" \in ToSet(Append(down[c], "FOUND"))
    BY <1>0, <1>2, MoreAndLess
  <2> QED
    BY <1>1, <2>1
<1>4. ASSUME pstate[s] = "connected", data[s] \in ToSet(queue) \cup {data[t]}
      PROVE  data[s] \in ToSet(queue') \/ "FOUND" \in ToSet(down'[c])
  <2>1. c \in Reached(pstate, link)
    BY <1>0, <1>4 DEF Reached
  <2>2. data[s] \in Known /\ peers[data[s]] = s
    BY <1>0, <1>4, HeldIsKnown DEF Held
  <2> QED
    BY <1>3, <1>4, <2>1, <2>2, Joined
<1>5. CASE t = s
  <2>1. Head(up[s]) = "JOIN" /\ up[s] # <<>> /\ up'[s] = Tail(up[s])
    BY <1>0, <1>5 DEF ReceiveJoin, ServerReceive, MMTypeOK
  <2>2. Queued(c)' \/ "FOUND" \in ToSet(down'[c])
    BY <1>0, <1>4, <1>5 DEF Queued
  <2>3. ASSUME Followed(up[s], "LEAVE", "JOIN") PROVE Followed(up'[s], "LEAVE", "JOIN")
    BY <1>0, <2>1, <2>3, FollowedTail
  <2>4. ASSUME Followed(up[s], "JOIN", "LEAVE")
        PROVE  Followed(up'[s], "JOIN", "LEAVE") /\ "LEAVE" \in ToSet(up'[s])
    BY <1>0, <2>1, <2>4, FollowedTail
  <2> QED
    BY <1>0, <2>2, <2>3, <2>4 DEF Remembered, LeftAlone
<1>6. CASE t # s
  <2>1. up'[s] = up[s]
    BY <1>0, <1>6 DEF ReceiveJoin, ServerReceive, MMTypeOK
  <2>2. Queued(c) => Queued(c)' \/ "FOUND" \in ToSet(down'[c])
    BY <1>0, <1>4 DEF Queued
  <2>3. ASSUME Queued(c)' PROVE Queued(c)
    <3>1. pstate[s] = "connected" /\ data[s] \in ToSet(queue')
      BY <1>0, <2>3 DEF Queued
    <3>2. data[s] # data[t]
      BY <1>0, <1>6, <3>1, HeldIsKnown DEF Held
    <3>3. data[s] \in ToSet(queue)
      BY <3>1, <3>2, Joined
    <3> QED
      BY <3>1, <3>3 DEF Queued
  <2> QED
    BY <1>0, <1>3, <2>1, <2>2, <2>3 DEF Remembered, LeftAlone
<1> QED
  BY <1>5, <1>6

(* A LEAVE is taken.                                                       *)
LEMMA LeaveWaits ==
  ASSUME MMTypeOK, LinkInv, MatchInv, NEW c \in Clients,
         Remembered(c), LeftAlone(c), Stands(c), link'[c] = link[c],
         NEW t \in Slots, ReceiveLeave(t)
  PROVE  Remembered(c)' /\ LeftAlone(c)'
<1> DEFINE s == link[c]
<1>0. /\ UNCHANGED <<pstate, data, link, down, inQueue, asked, crossed>>
      /\ s \in Slots /\ SessionTypeOK /\ Held(t) /\ pstate[t] = "connected"
      /\ up[s] \in Seq(MMToServer) /\ queue \in Seq(ClientID)
  BY DEF ReceiveLeave, ServerReceive, enetVars, Stands, MMTypeOK, SessionTypeOK, Held
<1>1. ToSet(queue') = ToSet(queue) \ {data[t]}
  BY <1>0, WithoutIs DEF ReceiveLeave
<1>2. CASE t = s
  <2>1. Head(up[s]) = "LEAVE" /\ up[s] # <<>> /\ up'[s] = Tail(up[s])
    BY <1>0, <1>2 DEF ReceiveLeave, ServerReceive, MMTypeOK
  <2>2. ~Queued(c)'
    BY <1>0, <1>1, <1>2 DEF Queued
  <2>3. ASSUME Followed(up[s], "LEAVE", "JOIN")
        PROVE  Followed(up'[s], "LEAVE", "JOIN") /\ "JOIN" \in ToSet(up'[s])
    BY <1>0, <2>1, <2>3, FollowedTail
  <2>4. ASSUME Followed(up[s], "JOIN", "LEAVE") PROVE Followed(up'[s], "JOIN", "LEAVE")
    BY <1>0, <2>1, <2>4, FollowedTail
  <2> QED
    BY <1>0, <2>2, <2>3, <2>4 DEF Remembered, LeftAlone
<1>3. CASE t # s
  <2>1. up'[s] = up[s]
    BY <1>0, <1>3 DEF ReceiveLeave, ServerReceive, MMTypeOK
  <2>2. pstate[s] = "connected" => data[s] # data[t]
    BY <1>0, <1>3, HeldIsKnown DEF Held
  <2>3. Queued(c)' = Queued(c)
    BY <1>0, <1>1, <2>2 DEF Queued
  <2> QED
    BY <1>0, <2>1, <2>3, Settled
<1> QED
  BY <1>2, <1>3

(* joinQueue() and leaveQueue() of a client whose connection stands put    *)
(* their packet behind the others.                                         *)
LEMMA CallWaits ==
  ASSUME MMTypeOK, LinkInv, NEW c \in Clients, Stands(c), JoinQueue(c) \/ LeaveQueue(c)
  PROVE  Remembered(c)' /\ LeftAlone(c)'
<1> DEFINE s == link[c]
           open == {t \in Slots : link[c] = t /\ pstate[t] \in {"acknowledged", "connected"}}
<1>0. /\ s \in Slots /\ cPeer[c] /\ up[s] \in Seq(MMToServer) /\ up \in [Slots -> Seq(MMToServer)]
      /\ inQueue \in [Clients -> BOOLEAN]
  BY DEF Stands, MMTypeOK, SessionTypeOK, LinkInv, ClientPointersAgree
<1>1. open = {s}
  BY <1>0 DEF Stands
<1> HIDE DEF open
<1>2. ASSUME NEW m \in MMToServer, ClientSend(c, m, "Reliable")
      PROVE  up'[s] = Append(up[s], m) /\ UNCHANGED <<link, pstate, data, down>>
  <2>1. up' = AppendTo(up, open, m) /\ UNCHANGED <<link, pstate, data, down>>
    BY <1>2 DEF ClientSend, open, enetVars
  <2> QED
    BY <1>0, <1>1, <2>1 DEF AppendTo
<1>3. ASSUME JoinQueue(c) PROVE Remembered(c)' /\ LeftAlone(c)'
  <2>1. inQueue'[c] /\ ClientSend(c, "JOIN", "Reliable")
    BY <1>0, <1>3 DEF JoinQueue
  <2>2. up'[s] = Append(up[s], "JOIN") /\ link' = link
    BY <1>2, <2>1 DEF MMToServer
  <2>3. "JOIN" \in ToSet(up'[s]) /\ Followed(up'[s], "LEAVE", "JOIN")
    BY <1>0, <2>2, MoreAndLess, FollowedAppend DEF MMToServer
  <2> QED
    BY <2>1, <2>2, <2>3 DEF Remembered, LeftAlone
<1>4. ASSUME LeaveQueue(c) PROVE Remembered(c)' /\ LeftAlone(c)'
  <2>1. ~inQueue'[c] /\ ClientSend(c, "LEAVE", "Reliable")
    BY <1>0, <1>4 DEF LeaveQueue
  <2>2. up'[s] = Append(up[s], "LEAVE") /\ link' = link
    BY <1>2, <2>1 DEF MMToServer
  <2>3. "LEAVE" \in ToSet(up'[s]) /\ Followed(up'[s], "JOIN", "LEAVE")
    BY <1>0, <2>2, MoreAndLess, FollowedAppend DEF MMToServer
  <2> QED
    BY <2>1, <2>2, <2>3 DEF Remembered, LeftAlone
<1> QED
  BY <1>3, <1>4

(* A FOUND is taken: either it met a later JOIN, or there is none.         *)
LEMMA FoundWaits ==
  ASSUME MMTypeOK, NEW c \in Clients, Stands(c), ReceiveFound(c)
  PROVE  Remembered(c)' /\ LeftAlone(c)'
<1> DEFINE s == link[c]
<1>0. /\ UNCHANGED <<up, link, pstate, data, queue>> /\ s \in Slots
      /\ up[s] \in Seq(MMToServer) /\ queue \in Seq(ClientID)
      /\ inQueue \in [Clients -> BOOLEAN] /\ crossed \in [Clients -> BOOLEAN]
  BY DEF ReceiveFound, ClientReceive, enetVars, Stands, MMTypeOK, SessionTypeOK
<1>1. ~inQueue'[c]
  BY <1>0 DEF ReceiveFound
<1>2. ASSUME ~crossed'[c] PROVE Followed(up'[s], "JOIN", "LEAVE") /\ ~Queued(c)'
  <2>1. ~AskedAgain(c)
    BY <1>0, <1>2 DEF ReceiveFound
  <2>2. ~Contains(up[s], "JOIN") /\ ~Contains(queue, data[s])
    BY <1>0, <2>1 DEF AskedAgain
  <2>3. "JOIN" \notin ToSet(up[s]) /\ data[s] \notin ToSet(queue)
    BY <1>0, <2>2, ContainsIs
  <2>4. Followed(up[s], "JOIN", "LEAVE")
    BY <2>3, FollowedNone
  <2> QED
    BY <1>0, <2>3, <2>4 DEF Queued
<1> QED
  BY <1>0, <1>1, <1>2 DEF Remembered, LeftAlone

(* No step forgets a client or keeps one that left.                        *)
LEMMA WaitStep ==
  ASSUME NoWrap, MMTypeOK, LinkInv, MatchInv, QueueInv, WaitInv, MMNext, NEW c \in Clients
  PROVE  Remembered(c)' /\ LeftAlone(c)'
<1>0. SessionTypeOK /\ SessionStep /\ Remembered(c) /\ LeftAlone(c)
  BY MMIsSession DEF MMTypeOK, WaitInv
<1>1. CASE ~Stands(c)'
  BY <1>1 DEF Remembered, LeftAlone
<1>2. CASE ConnectSucceeds(c)
  BY <1>2, ConnectIsConnected, ConnectedWaits
<1>3. CASE Stands(c)' /\ ~ConnectSucceeds(c)
  <2>1. Stands(c) /\ link'[c] = link[c]
    BY <1>0, <1>3, StandsStep
  <2> DEFINE Goal == Remembered(c)' /\ LeftAlone(c)'
  <2>2. ASSUME \/ Background /\ UNCHANGED mmLocal
               \/ \E n \in MatchSizes : SetPlayersPerMatch(n)
               \/ \E i \in ClientID : MMKick(i)
               \/ \E t \in Slots : QueuedLeaves(t)
               \/ \E d \in Clients : LosesServer(d) \/ ClientRestarts(d)
               \/ \E d \in Clients :
                     d # c /\ (Connected(d) \/ JoinQueue(d) \/ LeaveQueue(d) \/ ReceiveFound(d))
        PROVE  Goal
    <3>1. /\ UNCHANGED <<up[link[c]], down[c], pstate[link[c]], inQueue[c], asked[c], crossed[c]>>
          /\ Queued(c)' = Queued(c)
      BY <1>3, <2>1, <2>2, Bystander
    <3> QED
      BY <1>0, <2>1, <3>1, Settled
  <2>3. ~MMServerClose
    BY <1>3 DEF MMServerClose, ServerClose, Stands
  <2>4. ~Connected(c)
    BY <1>3 DEF Connected
  <2>5. ASSUME NEW t \in Slots, Arrives(t) \/ ReceiveJoin(t) \/ ReceiveLeave(t) PROVE Goal
    BY <1>0, <2>1, <2>5, ArrivesWaits, JoinWaits, LeaveWaits
  <2>6. ASSUME JoinQueue(c) \/ LeaveQueue(c) \/ ReceiveFound(c) PROVE Goal
    BY <2>1, <2>6, CallWaits, FoundWaits
  <2> HIDE DEF Goal
  <2>7. Goal
    BY <2>2, <2>3, <2>4, <2>5, <2>6, MMCases
  <2> QED
    BY <2>7 DEF Goal
<1> QED
  BY <1>1, <1>2, <1>3

(* A peer that is handed out is empty, and nobody sends on it before the   *)
(* handshake is done.                                                      *)
LEMMA PendingEmptyStep ==
  ASSUME MMTypeOK, PendingEmpty, MMNext
  PROVE  PendingEmpty'
<1> SUFFICES ASSUME NEW s \in Slots, pstate'[s] = "pending" PROVE up'[s] = <<>>
  BY DEF PendingEmpty
<1>0. up \in [Slots -> Seq(MMToServer)] /\ SessionTypeOK
  BY DEF MMTypeOK
<1>1. CASE pstate[s] # "pending"
  BY <1>0, <1>1, AcceptStep, MMIsSession
<1>2. CASE pstate[s] = "pending"
  <2>1. up[s] = <<>>
    BY <1>2 DEF PendingEmpty
  <2>2. CASE Background
    BY <1>0, <2>1, <2>2 DEF Background, ServerStart, ConnectBegin, ConnectRefused, ConnectFails,
       DisconnectBegin, DisconnectEnd, Accept, ReapPending
  <2>3. ASSUME \/ MMServerClose
               \/ \E t \in Slots : QueuedLeaves(t)
               \/ \E t \in Slots : ReceiveJoin(t) \/ ReceiveLeave(t)
               \/ \E i \in ClientID : MMKick(i)
        PROVE  up'[s] = <<>>
    BY <1>0, <2>1, <2>3 DEF MMServerClose, ServerClose, QueuedLeaves, ServerDisconnect,
       ReceiveJoin, ReceiveLeave, ServerReceive, MMKick, Kick
  <2>4. ASSUME NEW c \in Clients, JoinQueue(c) \/ LeaveQueue(c) PROVE up'[s] = <<>>
    <3> DEFINE open == {t \in Slots : link[c] = t /\ pstate[t] \in {"acknowledged", "connected"}}
    <3>1. up' = up \/ \E m \in MMToServer : up' = AppendTo(up, open, m)
      BY <2>4 DEF JoinQueue, LeaveQueue, ClientSend, sessionVars, MMToServer
    <3>2. s \notin open
      BY <1>2
    <3> HIDE DEF open
    <3> QED
      BY <1>0, <2>1, <3>1, <3>2 DEF AppendTo
  <2>5. \/ Background
        \/ MMServerClose
        \/ \E t \in Slots : QueuedLeaves(t)
        \/ \E t \in Slots : ReceiveJoin(t) \/ ReceiveLeave(t)
        \/ \E i \in ClientID : MMKick(i)
        \/ \E c \in Clients : JoinQueue(c) \/ LeaveQueue(c)
        \/ up' = up
    BY MMCases DEF SetPlayersPerMatch, sessionVars, Arrives, ServerConnect, Connected,
       ReceiveFound, LosesServer, ClientDisconnect, ClientRestarts, Crash
  <2> QED
    BY <2>1, <2>2, <2>3, <2>4, <2>5
<1> QED
  BY <1>1, <1>2

(* The two sides keep an account of each other.                            *)
LEMMA WaitInvHolds == NoWrap => (MMSpec => [](MMTypeOK /\ WaitInv))
<1> SUFFICES ASSUME NoWrap PROVE MMSpec => [](MMTypeOK /\ WaitInv)
  OBVIOUS
<1>1. MMInit => WaitInv
  BY DEF MMInit, Init, WaitInv, PendingEmpty, Remembered, LeftAlone, Stands
<1>2. MMTypeOK /\ LinkInv /\ MatchInv /\ QueueInv /\ WaitInv /\ MMNext => WaitInv'
  <2> SUFFICES ASSUME MMTypeOK, LinkInv, MatchInv, QueueInv, WaitInv, MMNext PROVE WaitInv'
    OBVIOUS
  <2>1. PendingEmpty'
    BY PendingEmptyStep DEF WaitInv
  <2>2. \A c \in Clients : Remembered(c)' /\ LeftAlone(c)'
    BY WaitStep
  <2> QED
    BY <2>1, <2>2 DEF WaitInv
<1>3. WaitInv /\ UNCHANGED mmVars => WaitInv'
  BY DEF WaitInv, PendingEmpty, Remembered, LeftAlone, Queued, Stands,
     mmVars, mmLocal, sessionVars, serverVars, enetVars, clientVars
<1> QED
  BY <1>1, <1>2, <1>3, MMMatch, QueueInvHolds, PTL DEF MMSpec

(* A client that the server reaches, and what the server has of it.        *)
LEMMA ReachedIs ==
  ASSUME MMTypeOK, NEW c \in Reached(pstate, link)
  PROVE  /\ c \in Clients /\ Stands(c) /\ pstate[link[c]] = "connected"
         /\ up[link[c]] \in Seq(MMToServer) /\ down[c] \in Seq(MMToClient)
         /\ queue \in Seq(ClientID)
BY NoSlotAssumption DEF Reached, Stands, MMTypeOK

(* A client that waits on the connection on which it asked is not waiting  *)
(* for nothing.                                                            *)
THEOREM RememberedCorrect == NoWrap => (MMSpec => []NobodyForgotten)
<1>1. MMTypeOK /\ WaitInv => NobodyForgotten
  <2> SUFFICES ASSUME MMTypeOK, WaitInv, NEW c \in Reached(pstate, link), inQueue[c], asked[c]
               PROVE  \/ Contains(up[link[c]], "JOIN")
                      \/ Contains(queue, data[link[c]])
                      \/ Contains(down[c], "FOUND")
    BY DEF NobodyForgotten
  <2>1. /\ c \in Clients /\ Stands(c)
        /\ up[link[c]] \in Seq(MMToServer) /\ down[c] \in Seq(MMToClient)
        /\ queue \in Seq(ClientID)
    BY ReachedIs
  <2>2. \/ "JOIN" \in ToSet(up[link[c]])
        \/ data[link[c]] \in ToSet(queue)
        \/ "FOUND" \in ToSet(down[c])
    BY <2>1 DEF WaitInv, Remembered, Queued
  <2> QED
    BY <2>1, <2>2, ContainsIs
<1> QED
  BY <1>1, WaitInvHolds, PTL

(* A client that left is out of the queue once the server has its LEAVE.   *)
THEOREM OutCorrect == NoWrap => (MMSpec => []OutMeansOut)
<1>1. MMTypeOK /\ WaitInv => OutMeansOut
  <2> SUFFICES ASSUME MMTypeOK, WaitInv, NEW c \in Reached(pstate, link),
                      ~inQueue[c], ~crossed[c], Contains(queue, data[link[c]])
               PROVE  Contains(up[link[c]], "LEAVE")
    BY DEF OutMeansOut
  <2>1. /\ c \in Clients /\ Stands(c) /\ pstate[link[c]] = "connected"
        /\ up[link[c]] \in Seq(MMToServer) /\ queue \in Seq(ClientID)
    BY ReachedIs
  <2>2. Queued(c)
    BY <2>1, ContainsIs DEF Queued
  <2>3. "LEAVE" \in ToSet(up[link[c]])
    BY <2>1, <2>2 DEF WaitInv, LeftAlone
  <2> QED
    BY <2>1, <2>3, ContainsIs
<1> QED
  BY <1>1, WaitInvHolds, PTL
=============================================================================
