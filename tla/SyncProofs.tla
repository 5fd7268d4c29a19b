------------------------------ MODULE SyncProofs ------------------------------
(***************************************************************************)
(* Proofs about VariableSync and TransformSync, for any set of clients,    *)
(* slots, keys (also an infinite one) and values, and any width of         *)
(* ClientID.  What the two share is proved once, of the operators of       *)
(* Tracking.                                                               *)
(***************************************************************************)
EXTENDS VariableSync, TransformSync, SessionProofs

(* What is tracked.  It is finite at any time, so update() comes to an end.*)
Tracked == {k \in Keys : last[k] # Nothing}

(* The types of the variables that are not Session's, and of the reports   *)
(* on their way.                                                           *)
TrackTypeOK ==
    /\ SessionTypeOK
    /\ up \in [Slots -> Seq(ToServer)]
    /\ value \in [Keys -> Values]
    /\ last \in [Keys -> Values \cup {Nothing}]
    /\ IsFiniteSet(Tracked)
    /\ shown \in [Clients -> [Keys -> Values \cup {Nothing}]]
    /\ heard \subseteq Clients \X Keys
    /\ down \in [Clients -> Seq(Report)]

(* The steps of both services but for the broadcast, its arrival and the   *)
(* restart of a client.                                                    *)
CommonStep ==
    \/ Underneath
    \/ \E k \in Keys : Track(k) \/ Untrack(k) \/ \E x \in Values : Write(k, x)
    \/ \E c \in Clients : Connected(c)

-----------------------------------------------------------------------------
(* The steps, each with the event or the call it is.                       *)

(* A step underneath leaves what is tracked alone.                         *)
LEMMA UnderneathCases ==
  ASSUME Underneath
  PROVE  /\ \/ Background \/ ServerClose
            \/ \E s \in Slots : (ServerConnect(s) \/ ServerDisconnect(s)) /\ UNCHANGED down
            \/ \E i \in ClientID : Kick(i) /\ UNCHANGED down
            \/ \E c \in Clients : ClientDisconnect(c)
         /\ UNCHANGED trackVars
BY DEF Underneath

(* A step of either service is a step of the session below it.             *)
LEMMA CommonIsSession == CommonStep => SessionStep
<1> USE DEF sessionVars, serverVars, enetVars, clientVars
<1>1. ASSUME Underneath PROVE SessionStep
  BY <1>1, UnderneathCases DEF SessionStep, ButConnect
<1>2. ASSUME NEW k \in Keys, Track(k) \/ Untrack(k) \/ \E x \in Values : Write(k, x)
      PROVE  SessionStep
  BY <1>2 DEF Track, Untrack, Write, SessionStep, ButConnect
<1>3. ASSUME NEW c \in Clients, Connected(c) PROVE SessionStep
  BY <1>3 DEF Connected, SessionStep, ButConnect
<1> QED
  BY <1>1, <1>2, <1>3 DEF CommonStep

(* A broadcast leaves the session alone.                                   *)
LEMMA SendIsSession == ASSUME NEW got, NEW told, SendReports(got, told) PROVE SessionStep
BY DEF SendReports, SessionStep, ButConnect, sessionVars, serverVars, enetVars, clientVars

-----------------------------------------------------------------------------
(* What update() sends.                                                    *)

(* A sequence after another one ends as it does, when it has a last packet *)
(* of the kind, and as the other one, when it has none.                    *)
LEMMA EndsAsConcat ==
  ASSUME NEW P, NEW q \in Seq(P), NEW r \in Seq(P), NEW S, NEW f, NEW old, NEW new
  PROVE  /\ \A k \in DOMAIN r :
               r[k] \in S /\ (\A j \in DOMAIN r : j > k => r[j] \notin S)
               => EndsAs(q \o r, S, f, old, r[k][f])
         /\ (\A k \in DOMAIN r : r[k] \notin S) /\ EndsAs(q, S, f, old, new)
            => EndsAs(q \o r, S, f, old, new)
<1> DEFINE t == q \o r
<1>1. /\ Len(q) \in Nat /\ Len(r) \in Nat
      /\ DOMAIN q = 1 .. Len(q) /\ DOMAIN r = 1 .. Len(r) /\ DOMAIN t = 1 .. Len(q) + Len(r)
      /\ \A k \in 1 .. Len(q) : t[k] = q[k]
      /\ \A k \in 1 .. Len(r) : t[Len(q) + k] = r[k]
  OBVIOUS
<1> HIDE DEF t
<1>2. \A j \in DOMAIN t : j \in DOMAIN q \/ (j - Len(q) \in DOMAIN r /\ t[j] = r[j - Len(q)])
  <2>1. \A j \in 1 .. Len(q) + Len(r) :
           j \in 1 .. Len(q) \/ (j - Len(q) \in 1 .. Len(r) /\ j = Len(q) + (j - Len(q)))
    BY <1>1
  <2> QED
    BY <1>1, <2>1
<1>3. ASSUME NEW k \in DOMAIN r, r[k] \in S, \A j \in DOMAIN r : j > k => r[j] \notin S
      PROVE  EndsAs(t, S, f, old, r[k][f])
  <2>1. Len(q) + k \in DOMAIN t /\ t[Len(q) + k] = r[k]
    BY <1>1
  <2>2. ASSUME NEW j \in DOMAIN t, j > Len(q) + k PROVE t[j] \notin S
    <3>1. j \notin DOMAIN q /\ j - Len(q) > k
      BY <1>1, <2>2
    <3> QED
      BY <1>2, <1>3, <3>1
  <2> QED
    BY <1>3, <2>1, <2>2 DEF EndsAs
<1>4. ASSUME \A k \in DOMAIN r : r[k] \notin S, EndsAs(q, S, f, old, new)
      PROVE  EndsAs(t, S, f, old, new)
  <2>1. \A j \in DOMAIN t : t[j] \in S => j \in DOMAIN q /\ t[j] = q[j]
    BY <1>1, <1>2, <1>4
  <2>2. \A j \in DOMAIN q : j \in DOMAIN t /\ t[j] = q[j]
    BY <1>1
  <2> QED
    BY <1>4, <2>1, <2>2 DEF EndsAs
<1> QED
  BY <1>3, <1>4 DEF t

(* Of a finite set, a list without repetitions as long as the set is large *)
(* has everything.                                                         *)
LEMMA ListedAll ==
  ASSUME NEW S, IsFiniteSet(S), NEW ks \in SetToSeqs(S)
  PROVE  /\ ks \in Seq(S)
         /\ \A i, j \in DOMAIN ks : ks[i] = ks[j] => i = j
         /\ \A k \in S : \E i \in DOMAIN ks : ks[i] = k
<1> DEFINE D == 1 .. Cardinality(S)
<1>1. Cardinality(S) \in Nat
  BY FS_CardinalityType
<1>2. ks \in [D -> S] /\ \A i, j \in D : i # j => ks[i] # ks[j]
  BY DEF SetToSeqs
<1>3. ks \in Injection(D, S)
  BY <1>2 DEF Injection, IsInjective
<1>4. IsFiniteSet(D) /\ Cardinality(D) = Cardinality(S)
  BY <1>1, FS_Interval
<1>5. ks \in Surjection(D, S)
  <2> HIDE DEF D
  <2> QED
    BY <1>3, <1>4, FS_Injection
<1>6. \A k \in S : \E i \in D : ks[i] = k
  BY <1>5 DEF Surjection
<1> QED
  BY <1>1, <1>2, <1>6

(* One report of each key that changed, and no other.                      *)
LEMMA ReportsAre ==
  ASSUME TrackTypeOK, NEW r \in Reports
  PROVE  /\ r \in Seq(Report)
         /\ \A j \in DOMAIN r : /\ r[j].key \in Changed
                                /\ r[j].value = value[r[j].key]
         /\ \A i, j \in DOMAIN r : r[i].key = r[j].key => i = j
         /\ \A k \in Changed : \E j \in DOMAIN r : r[j].key = k
<1>1. IsFiniteSet(Changed) /\ Changed \subseteq Keys
  <2>1. Changed \subseteq Tracked /\ Changed \subseteq Keys
    BY DEF Changed, Tracked
  <2> QED
    BY <2>1, FS_Subset DEF TrackTypeOK
<1>2. PICK ks \in SetToSeqs(Changed) :
         r = [i \in DOMAIN ks |-> [key |-> ks[i], value |-> value[ks[i]]]]
  BY DEF Reports
<1>3. /\ ks \in Seq(Changed)
      /\ \A i, j \in DOMAIN ks : ks[i] = ks[j] => i = j
      /\ \A k \in Changed : \E i \in DOMAIN ks : ks[i] = k
  BY <1>1, ListedAll
<1>4. DOMAIN r = DOMAIN ks /\ DOMAIN ks = 1 .. Len(ks) /\ Len(ks) \in Nat
  BY <1>2, <1>3
<1>5. \A j \in DOMAIN r : r[j].key = ks[j] /\ r[j].value = value[ks[j]] /\ ks[j] \in Changed
  BY <1>2, <1>3, <1>4
<1>6. r \in Seq(Report)
  <2>1. \A j \in DOMAIN ks : [key |-> ks[j], value |-> value[ks[j]]] \in Report
    BY <1>1, <1>4, <1>5 DEF Report, TrackTypeOK
  <2> QED
    BY <1>2, <1>4, <2>1
<1> QED
  BY <1>3, <1>4, <1>5, <1>6

(* What reaches the clients of a broadcast: reports of keys that changed,  *)
(* at most one of each, and one of each key a client is told of.           *)
Conveys(got, told) ==
    \A c \in Reachable :
        /\ got[c] \in Seq(Report) /\ told[c] \subseteq Changed
        /\ \A j \in DOMAIN got[c] : /\ got[c][j].key \in Changed
                                   /\ got[c][j].value = value[got[c][j].key]
        /\ \A i, j \in DOMAIN got[c] : got[c][i].key = got[c][j].key => i = j
        /\ \A k \in told[c] : \E j \in DOMAIN got[c] : got[c][j].key = k

-----------------------------------------------------------------------------
(* Types.                                                                  *)

(* The initial values have their types.                                    *)
LEMMA TrackTypeInit == TrackInit => TrackTypeOK
<1> SUFFICES ASSUME TrackInit PROVE TrackTypeOK
  OBVIOUS
<1>1. SessionTypeOK /\ up \in [Slots -> Seq(ToServer)]
  BY TypeInit DEF TrackInit, TypeOK
<1>2. Tracked = {}
  BY DEF TrackInit, Tracked
<1>3. IsFiniteSet(Tracked)
  BY <1>2, FS_EmptySet
<1>4. down \in [Clients -> Seq(Report)]
  BY DEF TrackInit, Init
<1> QED
  BY <1>1, <1>3, <1>4, TrackingAssumption DEF TrackInit, TrackTypeOK

(* Connections, writes and what is tracked keep them.                      *)
LEMMA CommonTypes == ASSUME TrackTypeOK, CommonStep PROVE TrackTypeOK'
<1>0. SessionTypeOK'
  BY CommonIsSession, StateType DEF TrackTypeOK
<1> DEFINE Up == up' \in [Slots -> Seq(ToServer)]
           Down == down' \in [Clients -> Seq(Report)]
           Rest == UNCHANGED <<value, last, shown, heard>>
<1>1. ASSUME Rest, Up, Down PROVE TrackTypeOK'
  <2>1. Tracked' = Tracked
    BY <1>1 DEF Tracked
  <2> QED
    BY <1>0, <1>1, <2>1 DEF TrackTypeOK
<1>2. ASSUME Underneath PROVE TrackTypeOK'
  <2>1. Rest
    BY <1>2, UnderneathCases DEF trackVars
  <2>2. CASE Background
    BY <1>1, <2>1, <2>2, BackgroundQueues DEF TrackTypeOK
  <2>3. CASE \/ ServerClose
             \/ \E s \in Slots : (ServerConnect(s) \/ ServerDisconnect(s)) /\ UNCHANGED down
             \/ \E i \in ClientID : Kick(i) /\ UNCHANGED down
    <3>1. Up
      BY <2>3, ServerQueues DEF TrackTypeOK
    <3>2. Down
      BY <2>3 DEF ServerClose, TrackTypeOK
    <3> QED
      BY <1>1, <2>1, <3>1, <3>2
  <2>4. ASSUME NEW c \in Clients, ClientDisconnect(c) PROVE TrackTypeOK'
    <3>1. Up
      BY <2>4 DEF ClientDisconnect, TrackTypeOK
    <3>2. Down
      BY <2>4, ClientQueues DEF TrackTypeOK
    <3> QED
      BY <1>1, <2>1, <3>1, <3>2
  <2> QED
    BY <1>2, <2>2, <2>3, <2>4, UnderneathCases
<1>3. ASSUME NEW k \in Keys, NEW x \in Values \cup {Nothing},
             last' = [last EXCEPT ![k] = x], heard' \subseteq heard,
             UNCHANGED <<up, value, shown, down>>
      PROVE  TrackTypeOK'
  <2>1. Tracked' \subseteq Tracked \cup {k}
    BY <1>3 DEF Tracked, TrackTypeOK
  <2>2. IsFiniteSet(Tracked \cup {k})
    BY FS_AddElement DEF TrackTypeOK
  <2>3. IsFiniteSet(Tracked')
    BY <2>1, <2>2, FS_Subset
  <2> QED
    BY <1>0, <1>3, <2>3 DEF TrackTypeOK
<1>4. ASSUME NEW k \in Keys, Track(k) \/ Untrack(k) PROVE TrackTypeOK'
  BY <1>3, <1>4, TrackingAssumption DEF Track, Untrack, sessionVars
<1>5. ASSUME NEW k \in Keys, NEW x \in Values, Write(k, x) PROVE TrackTypeOK'
  <2>1. Tracked' = Tracked
    BY <1>5 DEF Write, Tracked
  <2> QED
    BY <1>0, <1>5, <2>1 DEF Write, sessionVars, TrackTypeOK
<1>6. ASSUME NEW c \in Clients, Connected(c) PROVE TrackTypeOK'
  <2>1. Tracked' = Tracked
    BY <1>6 DEF Connected, Tracked
  <2>2. Down
    BY <1>6, ClientQueues DEF Connected, TrackTypeOK
  <2> QED
    BY <1>0, <1>6, <2>1, <2>2 DEF Connected, TrackTypeOK
<1> QED
  BY <1>2, <1>4, <1>5, <1>6 DEF CommonStep

(* A packet on its way is a report of a tracked key.                       *)
LEMMA SendTypes ==
  ASSUME TrackTypeOK, NEW got, NEW told, SendReports(got, told), Conveys(got, told)
  PROVE  TrackTypeOK'
<1>0. SessionTypeOK'
  BY SendIsSession, StateType DEF TrackTypeOK
<1>1. /\ UNCHANGED <<up, value, shown>>
      /\ last' = [k \in Keys |-> IF k \in Changed THEN value[k] ELSE last[k]]
      /\ heard' = (heard \ (Reachable \X Changed)) \cup UNION {{c} \X told[c] : c \in Reachable}
      /\ down' = [c \in Clients |-> IF c \in Reachable THEN down[c] \o got[c] ELSE down[c]]
  BY DEF SendReports, Remember
<1>2. down' \in [Clients -> Seq(Report)]
  <2>1. \A c \in Clients : down[c] \in Seq(Report)
    BY DEF TrackTypeOK
  <2>2. \A c \in Clients : c \in Reachable => down[c] \o got[c] \in Seq(Report)
    BY <2>1 DEF Conveys
  <2> QED
    BY <1>1, <2>1, <2>2
<1>3. last' \in [Keys -> Values \cup {Nothing}] /\ Tracked' = Tracked
  <2>1. \A k \in Changed : value[k] \in Values /\ value[k] # Nothing /\ last[k] # Nothing
    BY TrackingAssumption DEF TrackTypeOK, Changed
  <2> QED
    BY <1>1, <2>1 DEF TrackTypeOK, Tracked
<1>4. heard' \subseteq Clients \X Keys
  <2>1. \A c \in Reachable : c \in Clients /\ told[c] \subseteq Keys
    BY DEF Reachable, Reached, Changed, Conveys
  <2> QED
    BY <1>1, <2>1 DEF TrackTypeOK
<1> QED
  BY <1>0, <1>1, <1>2, <1>3, <1>4 DEF TrackTypeOK

(* What a client shows is what it has received.                            *)
LEMMA ReceiveTypes ==
  ASSUME TrackTypeOK, NEW d \in Clients, ClientReceive(d), UNCHANGED <<up, value, last, heard>>,
         \/ shown' = [shown EXCEPT ![d][Head(down[d]).key] = Head(down[d]).value]
         \/ shown' = shown
  PROVE  TrackTypeOK'
<1>0. SessionTypeOK'
  BY StateType DEF TrackTypeOK, SessionStep, ButConnect
<1>1. Tracked' = Tracked
  BY DEF Tracked
<1>2. down' \in [Clients -> Seq(Report)]
  BY ClientQueues DEF TrackTypeOK
<1>3. Head(down[d]) \in Report
  BY DEF ClientReceive, TrackTypeOK
<1>4. shown' \in [Clients -> [Keys -> Values \cup {Nothing}]]
  <2>1. Head(down[d]).key \in Keys /\ Head(down[d]).value \in Values
    BY <1>3 DEF Report
  <2>2. CASE shown' = [shown EXCEPT ![d][Head(down[d]).key] = Head(down[d]).value]
    BY <2>1, <2>2 DEF TrackTypeOK
  <2>3. CASE shown' = shown
    BY <2>3 DEF TrackTypeOK
  <2> QED
    BY <2>2, <2>3
<1> QED
  BY <1>0, <1>1, <1>2, <1>4 DEF TrackTypeOK

(* A client that starts again shows nothing.                               *)
LEMMA RestartTypes ==
  ASSUME TrackTypeOK, NEW d \in Clients, Crash(d), Restarted(d)
  PROVE  TrackTypeOK'
<1>0. SessionTypeOK'
  BY StateType DEF TrackTypeOK, SessionStep, ButConnect
<1>1. Tracked' = Tracked
  BY DEF Restarted, Tracked
<1>2. down' \in [Clients -> Seq(Report)]
  BY ClientQueues DEF TrackTypeOK
<1> QED
  BY <1>0, <1>1, <1>2 DEF Crash, Restarted, TrackTypeOK

-----------------------------------------------------------------------------
(* Nobody who was told of a key is out of step with it.                    *)

(* A key of which a client was told since its connection stands: the server *)
(* reaches the client (nobody is told before that), and the reports on     *)
(* their way end with what was sent last.                                  *)
Follows(c, k) ==
    <<c, k>> \in heard /\ Stands(c) =>
        /\ c \in Reachable
        /\ EndsAs(down[c], ReportsOf(k), "value", shown[c][k], last[k])

FollowInv == \A c \in Clients, k \in Keys : Follows(c, k)

(* A connection that stands after a step in which it did not come about    *)
(* stood before, and when the server reached the client it still does.     *)
LEMMA StillReached ==
  ASSUME SessionTypeOK, LinkInv, SessionStep, NEW c \in Clients, ~ConnectSucceeds(c),
         Stands(c)', Stands(c) => c \in Reachable
  PROVE  Stands(c) /\ c \in Reachable /\ c \in Reachable'
<1>1. Stands(c) /\ link'[c] = link[c] /\ c \in Reachable
  BY StandsStep
<1>2. link'[c] # NoSlot /\ pstate[link[c]] = "connected"
  BY <1>1 DEF Stands, Reachable, Reached
<1>3. pstate'[link'[c]] # "acknowledged"
  BY <1>2, HandshakeStep
<1>4. link'[c] \in Slots /\ pstate'[link'[c]] = "connected"
  BY <1>1, <1>3 DEF Stands, Reachable, Reached
<1> QED
  BY <1>1, <1>4 DEF Reachable, Reached

(* What a step that neither sends to a client, nor is taken by it, nor     *)
(* connects it has to leave alone.                                         *)
LEMMA Undisturbed ==
  ASSUME SessionTypeOK, LinkInv, SessionStep, NEW c \in Clients, NEW k \in Keys, Follows(c, k),
         ~ConnectSucceeds(c),
         <<c, k>> \in heard' => <<c, k>> \in heard,
         c \in Reachable' => down'[c] = down[c],
         <<c, k>> \in heard' => UNCHANGED <<last[k], shown[c]>>
  PROVE  Follows(c, k)'
<1> SUFFICES ASSUME <<c, k>> \in heard', Stands(c)'
             PROVE  /\ c \in Reachable'
                    /\ EndsAs(down'[c], ReportsOf(k), "value", shown'[c][k], last'[k])
  BY DEF Follows
<1>1. Stands(c) /\ c \in Reachable /\ c \in Reachable'
  BY StillReached DEF Follows
<1> QED
  BY <1>1 DEF Follows

(* Connections that come and go, writes, and keys tracked anew.            *)
LEMMA CommonFollows ==
  ASSUME TrackTypeOK, LinkInv, CommonStep, NEW c \in Clients, NEW k \in Keys, Follows(c, k)
  PROVE  Follows(c, k)'
<1> USE DEF sessionVars, enetVars, trackVars
<1>0. SessionTypeOK /\ SessionStep
  BY CommonIsSession DEF TrackTypeOK
(* No connection comes about in a step that leaves the clients alone.      *)
<1>1. UNCHANGED clientVars => ~ConnectSucceeds(c)
  BY <1>0, ConnectAlone
<1>2. ASSUME Background \/ (\E d \in Clients : ClientDisconnect(d)), UNCHANGED trackVars
      PROVE  Follows(c, k)'
  <2>1. ~ConnectSucceeds(c)
    BY <1>0, <1>2, ConnectAlone
  <2>2. c \in Reachable' => down'[c] = down[c]
    BY <1>2, KeptDown DEF TrackTypeOK, Reachable
  <2> QED
    BY <1>0, <1>2, <2>1, <2>2, Undisturbed
<1>3. ASSUME \/ ServerClose
             \/ \E s \in Slots : (ServerConnect(s) \/ ServerDisconnect(s)) /\ UNCHANGED down
             \/ \E i \in ClientID : Kick(i) /\ UNCHANGED down,
             UNCHANGED trackVars
      PROVE  Follows(c, k)'
  <2>1. UNCHANGED clientVars /\ down' = down
    BY <1>3 DEF ServerClose, ServerConnect, ServerDisconnect, Kick
  <2> QED
    BY <1>0, <1>1, <1>3, <2>1, Undisturbed
<1>4. ASSUME NEW j \in Keys, Track(j) \/ Untrack(j) PROVE Follows(c, k)'
  <2>1. /\ UNCHANGED <<clientVars, down, shown>>
        /\ heard' = heard \ (Clients \X {j})
        /\ k # j => last'[k] = last[k]
    BY <1>4 DEF Track, Untrack, TrackTypeOK
  <2>2. <<c, k>> \in heard' => <<c, k>> \in heard /\ k # j
    BY <2>1
  <2> QED
    BY <1>0, <1>1, <2>1, <2>2, Undisturbed
<1>5. ASSUME NEW j \in Keys, NEW x \in Values, Write(j, x) PROVE Follows(c, k)'
  BY <1>0, <1>1, <1>5, Undisturbed DEF Write
<1>6. ASSUME NEW d \in Clients, Connected(d) PROVE Follows(c, k)'
  <2>1. /\ ConnectSucceeds(d) /\ heard' = heard \ ({d} \X Keys)
        /\ UNCHANGED <<last, shown>>
    BY <1>6 DEF Connected
  <2>2. CASE d = c
    BY <2>1, <2>2 DEF Follows
  <2>3. CASE d # c
    <3>1. c \in Reachable' => down'[c] = down[c]
      BY <2>1, KeptDown DEF TrackTypeOK, Reachable
    <3>2. ~ConnectSucceeds(c)
      BY <1>0, <2>1, <2>3, ConnectAlone
    <3> QED
      BY <1>0, <2>1, <3>1, <3>2, Undisturbed
  <2> QED
    BY <2>2, <2>3
<1> QED
  BY <1>2, <1>3, <1>4, <1>5, <1>6, UnderneathCases DEF CommonStep

(* update() sends each key that changed once, so what it takes for sent is *)
(* the end of what is on the way to whom it tells of the key; of the other *)
(* keys it sends nothing.                                                  *)
LEMMA SendFollows ==
  ASSUME TrackTypeOK, NEW got, NEW told, SendReports(got, told), Conveys(got, told),
         NEW c \in Clients, NEW k \in Keys, Follows(c, k)
  PROVE  Follows(c, k)'
<1> SUFFICES ASSUME <<c, k>> \in heard', Stands(c)'
             PROVE  /\ c \in Reachable'
                    /\ EndsAs(down'[c], ReportsOf(k), "value", shown'[c][k], last'[k])
  BY DEF Follows
<1>1. /\ UNCHANGED <<pstate, link, shown>>
      /\ last'[k] = IF k \in Changed THEN value[k] ELSE last[k]
      /\ heard' = (heard \ (Reachable \X Changed)) \cup UNION {{d} \X told[d] : d \in Reachable}
      /\ down'[c] = IF c \in Reachable THEN down[c] \o got[c] ELSE down[c]
  BY DEF SendReports, Remember, enetVars
<1>2. Stands(c) /\ (c \in Reachable' <=> c \in Reachable)
  BY <1>1 DEF Stands, Reachable, Reached
<1>3. \/ <<c, k>> \in heard /\ ~(c \in Reachable /\ k \in Changed)
      \/ c \in Reachable /\ k \in told[c]
  BY <1>1
<1>4. c \in Reachable
  BY <1>2, <1>3 DEF Follows
<1> DEFINE r == got[c]
<1>5. /\ r \in Seq(Report) /\ told[c] \subseteq Changed
      /\ \A j \in DOMAIN r : r[j].key \in Changed /\ r[j].value = value[r[j].key]
      /\ \A i, j \in DOMAIN r : r[i].key = r[j].key => i = j
      /\ \A i \in told[c] : \E j \in DOMAIN r : r[j].key = i
  BY <1>4 DEF Conveys
<1>6. down[c] \in Seq(Report) /\ down'[c] = down[c] \o r
  BY <1>1, <1>4 DEF TrackTypeOK
<1> HIDE DEF r
<1>7. \A j \in DOMAIN r : r[j] \in ReportsOf(k) <=> r[j].key = k
  BY <1>5 DEF ReportsOf
<1>8. CASE k \in told[c]
  <2>1. PICK j \in DOMAIN r : r[j].key = k
    BY <1>5, <1>8
  <2>2. k \in Changed /\ r[j] \in ReportsOf(k) /\ r[j]["value"] = value[k]
    BY <1>5, <1>7, <1>8, <2>1
  <2>3. \A i \in DOMAIN r : i > j => r[i] \notin ReportsOf(k)
    BY <1>5, <1>7, <2>1
  <2>4. EndsAs(down[c] \o r, ReportsOf(k), "value", shown[c][k], r[j]["value"])
    BY <1>5, <1>6, <2>2, <2>3, EndsAsConcat
  <2> QED
    BY <1>1, <1>2, <1>4, <1>6, <2>2, <2>4
<1>9. CASE <<c, k>> \in heard /\ k \notin Changed
  <2>1. EndsAs(down[c], ReportsOf(k), "value", shown[c][k], last[k])
    BY <1>2, <1>9 DEF Follows
  <2>2. \A j \in DOMAIN r : r[j] \notin ReportsOf(k)
    BY <1>5, <1>7, <1>9
  <2>3. EndsAs(down[c] \o r, ReportsOf(k), "value", shown[c][k], last[k])
    BY <1>5, <1>6, <2>1, <2>2, EndsAsConcat
  <2> QED
    BY <1>1, <1>2, <1>4, <1>6, <1>9, <2>3
<1> QED
  BY <1>3, <1>4, <1>8, <1>9

(* A report that is taken is shown by a client that was told of the key.   *)
LEMMA ReceiveFollows ==
  ASSUME TrackTypeOK, NEW d \in Clients, ClientReceive(d), UNCHANGED <<last, heard>>,
         \/ shown' = [shown EXCEPT ![d][Head(down[d]).key] = Head(down[d]).value]
         \/ shown' = shown /\ <<d, Head(down[d]).key>> \notin heard,
         NEW c \in Clients, NEW k \in Keys, Follows(c, k)
  PROVE  Follows(c, k)'
<1> SUFFICES ASSUME <<c, k>> \in heard', Stands(c)'
             PROVE  /\ c \in Reachable'
                    /\ EndsAs(down'[c], ReportsOf(k), "value", shown'[c][k], last'[k])
  BY DEF Follows
<1>1. /\ UNCHANGED <<pstate, link>> /\ <<c, k>> \in heard
      /\ down[d] # <<>> /\ down' = [down EXCEPT ![d] = Tail(down[d])]
  BY DEF ClientReceive, enetVars
<1>2. Stands(c) /\ (c \in Reachable' <=> c \in Reachable)
  BY <1>1 DEF Stands, Reachable, Reached
<1>3. /\ c \in Reachable
      /\ EndsAs(down[c], ReportsOf(k), "value", shown[c][k], last[k])
  BY <1>1, <1>2 DEF Follows
<1>4. down[d] \in Seq(Report) /\ Head(down[d]) \in Report
  BY <1>1 DEF TrackTypeOK
<1>5. CASE d = c
  <2>1. EndsAs(Tail(down[c]), ReportsOf(k), "value",
               IF Head(down[c]) \in ReportsOf(k) THEN Head(down[c])["value"] ELSE shown[c][k],
               last[k])
    BY <1>1, <1>3, <1>4, <1>5, EndsAsTail
  <2>2. shown'[c][k] =
            IF Head(down[c]) \in ReportsOf(k) THEN Head(down[c])["value"] ELSE shown[c][k]
    <3>1. Head(down[c]) \in ReportsOf(k) <=> Head(down[c]).key = k
      BY <1>4, <1>5 DEF ReportsOf
    <3>2. shown \in [Clients -> [Keys -> Values \cup {Nothing}]]
      BY DEF TrackTypeOK
    <3>3. CASE shown' = [shown EXCEPT ![c][Head(down[c]).key] = Head(down[c]).value]
      BY <3>1, <3>2, <3>3
    <3>4. CASE shown' = shown /\ <<c, Head(down[c]).key>> \notin heard
      BY <1>1, <3>1, <3>4
    <3> QED
      BY <1>5, <3>3, <3>4
  <2>3. down'[c] = Tail(down[c])
    BY <1>1, <1>5 DEF TrackTypeOK
  <2> QED
    BY <1>2, <1>3, <2>1, <2>2, <2>3
<1>6. CASE d # c
  <2>1. down'[c] = down[c] /\ shown'[c] = shown[c]
    BY <1>1, <1>6 DEF TrackTypeOK
  <2> QED
    BY <1>2, <1>3, <2>1
<1> QED
  BY <1>5, <1>6

(* A client that starts again has been told of nothing.                    *)
LEMMA RestartFollows ==
  ASSUME TrackTypeOK, LinkInv, NEW d \in Clients, Crash(d), Restarted(d),
         NEW c \in Clients, NEW k \in Keys, Follows(c, k)
  PROVE  Follows(c, k)'
<1>0. SessionTypeOK /\ SessionStep
  BY DEF TrackTypeOK, SessionStep, ButConnect
<1>1. /\ heard' = heard \ ({d} \X Keys) /\ last' = last
      /\ shown' = [shown EXCEPT ![d] = [i \in Keys |-> Nothing]]
  BY DEF Restarted
<1>2. CASE d = c
  BY <1>1, <1>2 DEF Follows
<1>3. CASE d # c
  <2>1. c \in Reachable' => down'[c] = down[c]
    BY KeptDown DEF TrackTypeOK, Reachable
  <2>2. ~ConnectSucceeds(c)
    BY <1>0, ConnectAlone
  <2>3. shown'[c] = shown[c]
    BY <1>1, <1>3 DEF TrackTypeOK
  <2> QED
    BY <1>0, <1>1, <2>1, <2>2, <2>3, Undisturbed
<1> QED
  BY <1>2, <1>3

(* Whom the server reaches, connected.                                     *)
LEMMA FollowsIsInStep == FollowInv => ToldAreInStep
<1>1. \A c \in Reachable : c \in Clients /\ Stands(c)
  BY NoSlotAssumption DEF Reachable, Reached, Stands
<1> QED
  BY <1>1 DEF FollowInv, Follows, ToldAreInStep

(* In the beginning nobody has been told of anything.                      *)
LEMMA SyncInit == TrackInit => TrackTypeOK /\ LinkInv /\ FollowInv
<1>1. TrackInit => LinkInv
  BY LinkInit DEF TrackInit
<1>2. TrackInit => FollowInv
  BY DEF TrackInit, FollowInv, Follows
<1> QED
  BY <1>1, <1>2, TrackTypeInit

(* A step of nothing keeps all of it.                                      *)
LEMMA SyncStutter ==
  ASSUME TrackTypeOK, FollowInv, UNCHANGED <<sessionVars, trackVars>>
  PROVE  TrackTypeOK' /\ FollowInv'
<1> USE DEF sessionVars, serverVars, enetVars, clientVars, trackVars
<1>1. Tracked' = Tracked
  BY DEF Tracked
<1>2. SessionTypeOK'
  BY StateType DEF TrackTypeOK, SessionStep, ButConnect
<1>3. TrackTypeOK'
  BY <1>1, <1>2 DEF TrackTypeOK
<1>4. FollowInv'
  BY DEF FollowInv, Follows, Stands, Reachable
<1> QED
  BY <1>3, <1>4

-----------------------------------------------------------------------------
(* VariableSync.  Nobody is told of a variable without a handler for it.   *)

HandlersInv ==
    /\ handlers \in [Clients -> SUBSET Keys]
    /\ \A c \in Clients, k \in Keys : <<c, k>> \in heard => k \in handlers[c]

(* The steps.                                                              *)
LEMMA VarCases ==
  ASSUME VarNext
  PROVE  \/ CommonStep /\ UNCHANGED handlers
         \/ Update
         \/ \E c \in Clients : Receive(c)
         \/ \E c \in Clients : ClientRestarts(c)
         \/ \E c \in Clients, k \in Keys : OnUpdate(c, k)
BY DEF VarNext, CommonStep

(* Everybody who is reached gets every report.                             *)
LEMMA UpdateConveys ==
  ASSUME TrackTypeOK, Update
  PROVE  \E got, told : /\ SendReports(got, told) /\ Conveys(got, told)
                        /\ \A c \in Reachable : told[c] = Changed \cap handlers[c]
<1> DEFINE told == [c \in Reachable |-> Changed \cap handlers[c]]
<1>1. PICK r \in Reports : SendReports([c \in Reachable |-> r], told)
  BY DEF Update
<1> DEFINE got == [c \in Reachable |-> r]
<1>2. \A c \in Reachable : got[c] = r /\ told[c] = Changed \cap handlers[c]
  OBVIOUS
<1>3. /\ r \in Seq(Report)
      /\ \A j \in DOMAIN r : r[j].key \in Changed /\ r[j].value = value[r[j].key]
      /\ \A i, j \in DOMAIN r : r[i].key = r[j].key => i = j
      /\ \A k \in Changed : \E j \in DOMAIN r : r[j].key = k
  BY ReportsAre
<1> HIDE DEF got, told
<1>4. Conveys(got, told)
  BY <1>2, <1>3 DEF Conveys
<1>5. SendReports(got, told)
  BY <1>1 DEF got
<1> QED
  BY <1>2, <1>4, <1>5

(* Every step keeps the invariants.                                        *)
LEMMA VarStep ==
  ASSUME TrackTypeOK, LinkInv, FollowInv, HandlersInv, VarNext
  PROVE  TrackTypeOK' /\ LinkInv' /\ FollowInv' /\ HandlersInv'
<1>0. SessionTypeOK /\ \A c \in Clients, k \in Keys : Follows(c, k)
  BY DEF TrackTypeOK, FollowInv
<1>1. ASSUME CommonStep, UNCHANGED handlers
      PROVE  TrackTypeOK' /\ LinkInv' /\ FollowInv' /\ HandlersInv'
  <2>1. heard' \subseteq heard
    BY <1>1, UnderneathCases DEF CommonStep, Track, Untrack, Write, Connected, trackVars
  <2>2. HandlersInv'
    BY <1>1, <2>1 DEF HandlersInv
  <2>3. FollowInv'
    BY <1>0, <1>1, CommonFollows DEF FollowInv
  <2> QED
    BY <1>0, <1>1, <2>2, <2>3, CommonTypes, CommonIsSession, LinkStep
<1>2. ASSUME Update PROVE TrackTypeOK' /\ LinkInv' /\ FollowInv' /\ HandlersInv'
  <2>1. PICK got, told : /\ SendReports(got, told) /\ Conveys(got, told)
                         /\ \A c \in Reachable : told[c] = Changed \cap handlers[c]
    BY <1>2, UpdateConveys
  <2>2. FollowInv'
    BY <1>0, <2>1, SendFollows DEF FollowInv
  <2>3. HandlersInv'
    <3>1. heard' = (heard \ (Reachable \X Changed)) \cup UNION {{c} \X told[c] : c \in Reachable}
      BY <2>1 DEF SendReports
    <3>2. \A c \in Clients, k \in Keys :
             <<c, k>> \in heard' => <<c, k>> \in heard \/ (c \in Reachable /\ k \in told[c])
      BY <3>1
    <3>3. handlers' = handlers
      BY <1>2 DEF Update
    <3> QED
      BY <2>1, <3>2, <3>3 DEF HandlersInv
  <2> QED
    BY <1>0, <2>1, <2>2, <2>3, SendTypes, SendIsSession, LinkStep
<1>3. ASSUME NEW d \in Clients, Receive(d)
      PROVE  TrackTypeOK' /\ LinkInv' /\ FollowInv' /\ HandlersInv'
  <2> DEFINE m == Head(down[d])
  <2>1. /\ ClientReceive(d) /\ UNCHANGED <<up, value, last, heard, handlers>>
        /\ \/ shown' = [shown EXCEPT ![d][m.key] = m.value]
           \/ shown' = shown /\ m.key \notin handlers[d]
    BY <1>3 DEF Receive
  <2>2. m.key \in Keys
    <3>1. m \in Report
      BY <2>1 DEF ClientReceive, TrackTypeOK
    <3> QED
      BY <3>1 DEF Report
  <2>3. \/ shown' = [shown EXCEPT ![d][m.key] = m.value]
        \/ shown' = shown /\ <<d, m.key>> \notin heard
    BY <2>1, <2>2 DEF HandlersInv
  <2>4. FollowInv'
    BY <1>0, <2>1, <2>3, ReceiveFollows DEF FollowInv
  <2>5. TrackTypeOK' /\ HandlersInv'
    BY <2>1, <2>3, ReceiveTypes DEF HandlersInv
  <2>6. LinkInv'
    BY <1>0, <2>1, LinkStep DEF SessionStep, ButConnect
  <2> QED
    BY <2>4, <2>5, <2>6
<1>4. ASSUME NEW d \in Clients, ClientRestarts(d)
      PROVE  TrackTypeOK' /\ LinkInv' /\ FollowInv' /\ HandlersInv'
  <2>1. /\ Crash(d) /\ Restarted(d) /\ heard' = heard \ ({d} \X Keys)
        /\ handlers' = [handlers EXCEPT ![d] = {}]
    BY <1>4 DEF ClientRestarts, Restarted
  <2>2. FollowInv'
    BY <1>0, <2>1, RestartFollows DEF FollowInv
  <2>3. HandlersInv'
    BY <2>1 DEF HandlersInv
  <2>4. LinkInv'
    BY <1>0, <2>1, LinkStep DEF SessionStep, ButConnect
  <2> QED
    BY <2>1, <2>2, <2>3, <2>4, RestartTypes
<1>5. ASSUME NEW d \in Clients, NEW j \in Keys, OnUpdate(d, j)
      PROVE  TrackTypeOK' /\ LinkInv' /\ FollowInv' /\ HandlersInv'
  <2>1. /\ UNCHANGED <<sessionVars, trackVars>>
        /\ handlers' = [handlers EXCEPT ![d] = handlers[d] \cup {j}]
    BY <1>5 DEF OnUpdate
  <2>2. HandlersInv'
    BY <2>1 DEF HandlersInv, trackVars
  <2>3. LinkInv'
    BY <1>0, <2>1, LinkStep DEF SessionStep, ButConnect, sessionVars
  <2> QED
    BY <2>1, <2>2, <2>3, SyncStutter
<1> QED
  BY <1>1, <1>2, <1>3, <1>4, <1>5, VarCases

(* For any keys, handlers and clients that come and go: a client that was  *)
(* told of a key on this connection shows, once it has taken what is on its *)
(* way, the value that update() takes for sent.                            *)
THEOREM ToldCorrect == VarSpec => []ToldAreInStep
<1> DEFINE Inv == TrackTypeOK /\ LinkInv /\ FollowInv /\ HandlersInv
<1>1. VarInit => Inv
  <2>1. VarInit => HandlersInv
    BY DEF VarInit, TrackInit, HandlersInv
  <2> QED
    BY <2>1, SyncInit DEF VarInit
<1>2. Inv /\ [VarNext]_varSyncVars => Inv'
  <2>1. ASSUME Inv, UNCHANGED varSyncVars PROVE Inv'
    <3>1. UNCHANGED <<sessionVars, trackVars>> /\ UNCHANGED handlers
      BY <2>1 DEF varSyncVars
    <3>2. LinkInv'
      BY <2>1, <3>1, LinkStep DEF SessionStep, ButConnect, sessionVars, TrackTypeOK
    <3>3. HandlersInv'
      BY <2>1, <3>1 DEF HandlersInv, trackVars
    <3> QED
      BY <2>1, <3>1, <3>2, <3>3, SyncStutter
  <2> QED
    BY <2>1, VarStep
<1>3. Inv => ToldAreInStep
  BY FollowsIsInStep
<1> QED
  BY <1>1, <1>2, <1>3, PTL DEF VarSpec

-----------------------------------------------------------------------------
(* TransformSync.  A report that is lost tells nobody.                     *)

(* What arrives of the reports: those of the keys that are not lost.       *)
LEMMA TransformConveys ==
  ASSUME TrackTypeOK, TransformUpdate
  PROVE  \E got, told : SendReports(got, told) /\ Conveys(got, told)
<1>1. PICK arrives \in [Reachable -> SUBSET Changed], r \in Reports :
         SendReports([c \in Reachable |-> Arriving(r, arrives[c])], arrives)
  BY DEF TransformUpdate
<1>2. /\ r \in Seq(Report)
      /\ \A j \in DOMAIN r : r[j].key \in Changed /\ r[j].value = value[r[j].key]
      /\ \A i, j \in DOMAIN r : r[i].key = r[j].key => i = j
      /\ \A k \in Changed : \E j \in DOMAIN r : r[j].key = k
  BY ReportsAre
<1> DEFINE got == [c \in Reachable |-> Arriving(r, arrives[c])]
<1>3. ASSUME NEW c \in Reachable
      PROVE  /\ got[c] \in Seq(Report) /\ arrives[c] \subseteq Changed
             /\ \A j \in DOMAIN got[c] : got[c][j].key \in Changed
                                         /\ got[c][j].value = value[got[c][j].key]
             /\ \A i, j \in DOMAIN got[c] : got[c][i].key = got[c][j].key => i = j
             /\ \A k \in arrives[c] : \E j \in DOMAIN got[c] : got[c][j].key = k
  <2> DEFINE kept == {i \in DOMAIN r : r[i].key \in arrives[c]}
             g == Picked(r, kept)
  <2>1. got[c] = g
    BY DEF Arriving
  <2>2. kept \subseteq DOMAIN r /\ arrives[c] \subseteq Changed
    OBVIOUS
  <2>3. \A i : i \in kept <=> i \in DOMAIN r /\ r[i].key \in arrives[c]
    OBVIOUS
  <2> HIDE DEF kept, got
  <2>4. \A i, j \in kept : r[i] = r[j] => i = j
    BY <1>2, <2>2
  <2>5. /\ g \in Seq(Report)
        /\ \A n \in DOMAIN g : \E i \in kept : g[n] = r[i]
        /\ \A i \in kept : \E n \in DOMAIN g : g[n] = r[i]
        /\ \A m, n \in DOMAIN g : g[m] = g[n] => m = n
    BY <1>2, <2>2, <2>4, PickedIs
  <2> HIDE DEF g
  <2>6. \A j \in DOMAIN g : g[j].key \in Changed /\ g[j].value = value[g[j].key]
    BY <1>2, <2>2, <2>5
  <2>7. ASSUME NEW m \in DOMAIN g, NEW n \in DOMAIN g, g[m].key = g[n].key PROVE m = n
    <3>1. PICK i \in kept, j \in kept : g[m] = r[i] /\ g[n] = r[j]
      BY <2>5
    <3>2. i = j
      BY <1>2, <2>2, <2>7, <3>1
    <3> QED
      BY <2>5, <3>1, <3>2
  <2>8. ASSUME NEW k \in arrives[c] PROVE \E j \in DOMAIN g : g[j].key = k
    <3>1. PICK i \in DOMAIN r : r[i].key = k
      BY <1>2, <2>2
    <3>2. i \in kept
      BY <2>3, <3>1
    <3> QED
      BY <2>5, <3>1, <3>2
  <2> QED
    BY <2>1, <2>2, <2>5, <2>6, <2>7, <2>8
<1>4. SendReports(got, arrives)
  BY <1>1
<1> HIDE DEF got
<1>5. Conveys(got, arrives)
  BY <1>3 DEF Conveys
<1> QED
  BY <1>4, <1>5

(* Every step keeps the invariants.                                        *)
LEMMA TransformStep ==
  ASSUME TrackTypeOK, LinkInv, FollowInv, TransformNext
  PROVE  TrackTypeOK' /\ LinkInv' /\ FollowInv'
<1>0. SessionTypeOK /\ \A c \in Clients, k \in Keys : Follows(c, k)
  BY DEF TrackTypeOK, FollowInv
<1>1. ASSUME CommonStep PROVE TrackTypeOK' /\ LinkInv' /\ FollowInv'
  <2>1. FollowInv'
    BY <1>0, <1>1, CommonFollows DEF FollowInv
  <2> QED
    BY <1>0, <1>1, <2>1, CommonTypes, CommonIsSession, LinkStep
<1>2. ASSUME TransformUpdate PROVE TrackTypeOK' /\ LinkInv' /\ FollowInv'
  <2>1. PICK got, told : SendReports(got, told) /\ Conveys(got, told)
    BY <1>2, TransformConveys
  <2>2. FollowInv'
    BY <1>0, <2>1, SendFollows DEF FollowInv
  <2> QED
    BY <1>0, <2>1, <2>2, SendTypes, SendIsSession, LinkStep
<1>3. ASSUME NEW d \in Clients, TransformReceive(d)
      PROVE  TrackTypeOK' /\ LinkInv' /\ FollowInv'
  <2>1. /\ ClientReceive(d) /\ UNCHANGED <<up, value, last, heard>>
        /\ shown' = [shown EXCEPT ![d][Head(down[d]).key] = Head(down[d]).value]
    BY <1>3 DEF TransformReceive
  <2>2. FollowInv'
    BY <1>0, <2>1, ReceiveFollows DEF FollowInv
  <2>3. LinkInv'
    BY <1>0, <2>1, LinkStep DEF SessionStep, ButConnect
  <2> QED
    BY <2>1, <2>2, <2>3, ReceiveTypes
<1>4. ASSUME NEW d \in Clients, TransformRestarts(d)
      PROVE  TrackTypeOK' /\ LinkInv' /\ FollowInv'
  <2>1. Crash(d) /\ Restarted(d)
    BY <1>4 DEF TransformRestarts
  <2>2. FollowInv'
    BY <1>0, <2>1, RestartFollows DEF FollowInv
  <2>3. LinkInv'
    BY <1>0, <2>1, LinkStep DEF SessionStep, ButConnect
  <2> QED
    BY <2>1, <2>2, <2>3, RestartTypes
<1> QED
  BY <1>1, <1>2, <1>3, <1>4 DEF TransformNext, CommonStep

(* Whatever is lost of the unreliable packets: a client that the last      *)
(* packet about an object has reached, or will reach, ends with the place  *)
(* the server takes for sent, never with an older one or another object's. *)
THEOREM ReachedCorrect == TransformSpec => []ToldAreInStep
<1> DEFINE Inv == TrackTypeOK /\ LinkInv /\ FollowInv
<1>1. TrackInit => Inv
  BY SyncInit
<1>2. Inv /\ [TransformNext]_transformVars => Inv'
  <2>1. ASSUME Inv, UNCHANGED transformVars PROVE Inv'
    <3>1. UNCHANGED <<sessionVars, trackVars>>
      BY <2>1 DEF transformVars
    <3>2. LinkInv'
      BY <2>1, <3>1, LinkStep DEF SessionStep, ButConnect, sessionVars, TrackTypeOK
    <3> QED
      BY <2>1, <3>1, <3>2, SyncStutter
  <2> QED
    BY <2>1, TransformStep
<1>3. Inv => ToldAreInStep
  BY FollowsIsInStep
<1> QED
  BY <1>1, <1>2, <1>3, PTL DEF TransformSpec
=============================================================================
