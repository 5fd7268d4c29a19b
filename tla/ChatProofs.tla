------------------------------ MODULE ChatProofs ------------------------------
(***************************************************************************)
(* Proofs about Chat, for any set of clients and slots, any cap of the     *)
(* histories and any number of messages.  That what is said under one id   *)
(* comes from one player is proved under NoWrap.                           *)
(***************************************************************************)
EXTENDS Chat, SessionProofs

-----------------------------------------------------------------------------
(* The ends of sequences.                                                  *)

(* Counted from the last one, what is in q is in r too.                    *)
EndOf(q, r) == Len(q) <= Len(r) /\ \A n \in 0 .. Len(q) - 1 : q[Len(q) - n] = r[Len(r) - n]

(* That is what the library calls a suffix.                                *)
LEMMA SuffixIs ==
  ASSUME NEW P, NEW q \in Seq(P), NEW r \in Seq(P)
  PROVE  IsSuffix(q, r) <=> EndOf(q, r)
<1> DEFINE a == Reverse(q)
           b == Reverse(r)
<1>0. Len(q) \in Nat /\ Len(r) \in Nat
  OBVIOUS
<1>1. /\ a \in Seq(P) /\ Len(a) = Len(q) /\ \A i \in 1 .. Len(q) : a[i] = q[(Len(q) - i) + 1]
  BY DEF Reverse
<1>2. /\ b \in Seq(P) /\ Len(b) = Len(r) /\ \A i \in 1 .. Len(r) : b[i] = r[(Len(r) - i) + 1]
  BY DEF Reverse
<1> HIDE DEF a, b
<1>3. IsSuffix(q, r) <=> Len(q) <= Len(r) /\ SubSeq(a, 1, Len(q)) = SubSeq(b, 1, Len(q))
  BY <1>1, <1>2 DEF IsSuffix, IsPrefix, a, b
<1>4. Len(q) <= Len(r) =>
         (SubSeq(a, 1, Len(q)) = SubSeq(b, 1, Len(q)) <=> \A i \in 1 .. Len(q) : a[i] = b[i])
  <2> SUFFICES ASSUME Len(q) <= Len(r)
               PROVE  SubSeq(a, 1, Len(q)) = SubSeq(b, 1, Len(q)) <=> \A i \in 1 .. Len(q) : a[i] = b[i]
    OBVIOUS
  <2> DEFINE x == SubSeq(a, 1, Len(q))
             y == SubSeq(b, 1, Len(q))
  <2>1. x \in Seq(P) /\ Len(x) = Len(q) /\ \A i \in 1 .. Len(q) : x[i] = a[i]
    BY <1>0, <1>1
  <2>2. y \in Seq(P) /\ Len(y) = Len(q) /\ \A i \in 1 .. Len(q) : y[i] = b[i]
    BY <1>0, <1>2
  <2> HIDE DEF x, y
  <2>3. x = y <=> \A i \in 1 .. Len(q) : x[i] = y[i]
    BY <2>1, <2>2
  <2>4. x = y <=> \A i \in 1 .. Len(q) : a[i] = b[i]
    BY <2>1, <2>2, <2>3
  <2> QED
    BY <2>4 DEF x, y
<1>5. Len(q) <= Len(r) =>
         ((\A i \in 1 .. Len(q) : a[i] = b[i]) <=>
             \A n \in 0 .. Len(q) - 1 : q[Len(q) - n] = r[Len(r) - n])
  <2> SUFFICES ASSUME Len(q) <= Len(r)
               PROVE  (\A i \in 1 .. Len(q) : a[i] = b[i]) <=>
                        \A n \in 0 .. Len(q) - 1 : q[Len(q) - n] = r[Len(r) - n]
    OBVIOUS
  <2>1. ASSUME \A i \in 1 .. Len(q) : a[i] = b[i], NEW n \in 0 .. Len(q) - 1
        PROVE  q[Len(q) - n] = r[Len(r) - n]
    <3>1. /\ n + 1 \in 1 .. Len(q) /\ n + 1 \in 1 .. Len(r)
          /\ (Len(q) - (n + 1)) + 1 = Len(q) - n /\ (Len(r) - (n + 1)) + 1 = Len(r) - n
      BY <1>0
    <3>2. a[n + 1] = q[Len(q) - n] /\ b[n + 1] = r[Len(r) - n]
      BY <1>1, <1>2, <3>1
    <3> QED
      BY <2>1, <3>1, <3>2
  <2>2. ASSUME \A n \in 0 .. Len(q) - 1 : q[Len(q) - n] = r[Len(r) - n], NEW i \in 1 .. Len(q)
        PROVE  a[i] = b[i]
    <3>1. /\ i - 1 \in 0 .. Len(q) - 1 /\ i \in 1 .. Len(r)
          /\ (Len(q) - i) + 1 = Len(q) - (i - 1) /\ (Len(r) - i) + 1 = Len(r) - (i - 1)
      BY <1>0
    <3>2. a[i] = q[Len(q) - (i - 1)] /\ b[i] = r[Len(r) - (i - 1)]
      BY <1>1, <1>2, <3>1
    <3> QED
      BY <2>2, <3>1, <3>2
  <2> QED
    BY <2>1, <2>2
<1> QED
  BY <1>3, <1>4, <1>5 DEF EndOf

(* The same put behind both.                                               *)
LEMMA EndAppend ==
  ASSUME NEW P, NEW q \in Seq(P), NEW r \in Seq(P), EndOf(q, r), NEW m \in P
  PROVE  EndOf(Append(q, m), Append(r, m))
<1> DEFINE a == Append(q, m)
           b == Append(r, m)
<1>1. /\ Len(q) \in Nat /\ Len(a) = Len(q) + 1 /\ a[Len(q) + 1] = m
      /\ \A i \in 1 .. Len(q) : a[i] = q[i]
  OBVIOUS
<1>2. /\ Len(r) \in Nat /\ Len(b) = Len(r) + 1 /\ b[Len(r) + 1] = m
      /\ \A i \in 1 .. Len(r) : b[i] = r[i]
  OBVIOUS
<1> HIDE DEF a, b
<1>3. Len(a) <= Len(b)
  BY <1>1, <1>2 DEF EndOf
<1>4. ASSUME NEW n \in 0 .. Len(a) - 1 PROVE a[Len(a) - n] = b[Len(b) - n]
  <2>1. CASE n = 0
    BY <1>1, <1>2, <2>1
  <2>2. CASE n # 0
    <3>1. /\ n - 1 \in 0 .. Len(q) - 1
          /\ Len(a) - n = Len(q) - (n - 1) /\ Len(b) - n = Len(r) - (n - 1)
      BY <1>1, <1>2, <2>2
    <3>2. Len(q) - (n - 1) \in 1 .. Len(q) /\ Len(r) - (n - 1) \in 1 .. Len(r)
      BY <1>1, <1>2, <3>1 DEF EndOf
    <3> QED
      BY <1>1, <1>2, <3>1, <3>2 DEF EndOf
  <2> QED
    BY <2>1, <2>2
<1>5. EndOf(a, b)
  BY <1>3, <1>4 DEF EndOf
<1> QED
  BY <1>5 DEF a, b

(* The first one is left out.                                              *)
LEMMA EndTail ==
  ASSUME NEW P, NEW q \in Seq(P), NEW r \in Seq(P), EndOf(q, r), q # <<>>
  PROVE  EndOf(Tail(q), r)
<1> DEFINE a == Tail(q)
<1>1. /\ Len(q) \in Nat /\ Len(q) > 0 /\ Len(a) = Len(q) - 1 /\ Len(r) \in Nat
      /\ \A i \in 1 .. Len(q) - 1 : a[i] = q[i + 1]
  OBVIOUS
<1> HIDE DEF a
<1>2. Len(a) <= Len(r)
  BY <1>1 DEF EndOf
<1>3. ASSUME NEW n \in 0 .. Len(a) - 1 PROVE a[Len(a) - n] = r[Len(r) - n]
  <2>1. /\ Len(a) - n \in 1 .. Len(q) - 1 /\ (Len(a) - n) + 1 = Len(q) - n
        /\ n \in 0 .. Len(q) - 1
    BY <1>1
  <2> QED
    BY <1>1, <2>1 DEF EndOf
<1>4. EndOf(a, r)
  BY <1>2, <1>3 DEF EndOf
<1> QED
  BY <1>4 DEF a

(* The last n of a sequence, or all of it.                                 *)
LEMMA RecentIs ==
  ASSUME NEW P, NEW q \in Seq(P), NEW n \in Nat
  PROVE  /\ Recent(q, n) \in Seq(P) /\ EndOf(Recent(q, n), q)
         /\ Len(Recent(q, n)) = IF Len(q) <= n THEN Len(q) ELSE n
<1>0. Len(q) \in Nat
  OBVIOUS
<1>1. CASE Len(q) <= n
  <2>1. Recent(q, n) = q
    BY <1>1 DEF Recent
  <2> QED
    BY <1>0, <1>1, <2>1 DEF EndOf
<1>2. CASE ~(Len(q) <= n)
  <2> DEFINE r == SubSeq(q, Len(q) - n + 1, Len(q))
  <2>1. Recent(q, n) = r
    BY <1>2 DEF Recent
  <2>2. r \in Seq(P) /\ Len(r) = n /\ \A i \in 1 .. n : r[i] = q[(Len(q) - n) + i]
    BY <1>0, <1>2
  <2> HIDE DEF r
  <2>3. ASSUME NEW k \in 0 .. n - 1 PROVE r[n - k] = q[Len(q) - k]
    <3>1. n - k \in 1 .. n /\ (Len(q) - n) + (n - k) = Len(q) - k
      BY <1>0
    <3> QED
      BY <2>2, <3>1
  <2> QED
    BY <1>0, <1>2, <2>1, <2>2, <2>3 DEF EndOf
<1> QED
  BY <1>1, <1>2

(* A history that is cut when it is longer than the cap.                   *)
LEMMA TrimIs ==
  ASSUME NEW P, NEW q \in Seq(P), NEW m \in P
  PROVE  LET h == Trim(Append(q, m))
         IN  /\ h \in Seq(P)
             /\ Len(q) >= Cap => h = Tail(Append(q, m)) /\ Len(h) = Len(q)
             /\ Len(q) < Cap => h = Append(q, m) /\ Len(h) = Len(q) + 1
<1>1. Cap \in Nat \ {0}
  BY ChatAssumption
<1>2. /\ Append(q, m) \in Seq(P) /\ Len(Append(q, m)) = Len(q) + 1
      /\ Tail(Append(q, m)) \in Seq(P) /\ Len(Tail(Append(q, m))) = Len(q)
      /\ Len(q) \in Nat
  OBVIOUS
<1> QED
  BY <1>1, <1>2 DEF Trim

-----------------------------------------------------------------------------
(* A step of the chat is a step of the session below it.                   *)
LEMMA ChatIsSession == [ChatNext]_chatVars => SessionStep
BY DEF ChatNext, ChatUnderneath, chatVars, sessionVars, SessionStep, ButConnect, OnReceive,
       SendAs, Arrives, SendText, ClientSend, Hear, ClientRestarts

(* The types of the histories and of what is in flight.                    *)
ChatTypeOK ==
    /\ SessionTypeOK
    /\ up \in [Slots -> Seq(Message)]
    /\ down \in [Clients -> Seq(Message)]
    /\ history \in Seq(ChatMessage)
    /\ heard \in [Clients -> Seq(Message)]
    /\ written \in [Senders -> Nat]
    /\ said \in Seq(ChatMessage)
    /\ joined \in [Clients -> 0 .. Len(said)]

(* The next message of a sender who may write one more.                    *)
LEMMA NextIsMessage ==
  ASSUME ChatTypeOK, NEW n \in Senders, written[n] < TextLimit[n]
  PROVE  /\ NextMessage(n) \in Message /\ NextMessage(n).name = n
         /\ NextMessage(n).text = written[n] + 1
         /\ written[n] + 1 \in Nat /\ written[n] \in Nat
<1>1. written[n] \in Nat /\ TextLimit[n] \in Nat
  BY ChatAssumption DEF ChatTypeOK
<1>2. written[n] + 1 \in 1 .. TextLimit[n]
  BY <1>1
<1>3. NextMessage(n) \in [name : {n}, text : 1 .. TextLimit[n]]
  BY <1>2 DEF NextMessage
<1> QED
  BY <1>1, <1>3 DEF NextMessage, Message

(* A message is numbered.                                                  *)
LEMMA TextIsInt == \A m \in Message : m.text \in Int
BY ChatAssumption DEF Message

(* What a message becomes that the server relays.                          *)
LEMMA RelayIs ==
  ASSUME ChatTypeOK, NEW i \in ClientID, NEW m \in Message, Relay(i, m)
  PROVE  LET e == [id |-> i, msg |-> m]
         IN  /\ e \in ChatMessage /\ said' = Append(said, e) /\ said' \in Seq(ChatMessage)
             /\ Len(said') = Len(said) + 1
             /\ down' \in [Clients -> Seq(Message)]
             /\ \A c \in Clients :
                   down'[c] = IF c \in Reached(pstate, link) THEN Append(down[c], m) ELSE down[c]
<1> DEFINE e == [id |-> i, msg |-> m]
<1>1. e \in ChatMessage /\ said \in Seq(ChatMessage) /\ down \in [Clients -> Seq(Message)]
  BY DEF ChatMessage, ChatTypeOK
<1>2. said' = Append(said, e) /\ down' = AppendTo(down, Reached(pstate, link), m)
  BY DEF Relay
<1> HIDE DEF e
<1>3. said' \in Seq(ChatMessage) /\ Len(said') = Len(said) + 1
  BY <1>1, <1>2
<1>4. down' \in [Clients -> Seq(Message)]
  BY <1>1, <1>2, AppendToType
<1>5. \A c \in Clients :
         down'[c] = IF c \in Reached(pstate, link) THEN Append(down[c], m) ELSE down[c]
  BY <1>1, <1>2 DEF AppendTo
<1> QED
  BY <1>1, <1>2, <1>3, <1>4, <1>5 DEF e

(* The packet at the head of a queue that the server takes.                *)
LEMMA OnReceiveIs ==
  ASSUME ChatTypeOK, NEW s \in Slots, OnReceive(s)
  PROVE  LET m == Head(up[s])
         IN  /\ m \in Message /\ data[s] \in ClientID /\ Relay(data[s], m)
             /\ up[s] # <<>> /\ up' = [up EXCEPT ![s] = Tail(up[s])]
             /\ up' \in [Slots -> Seq(Message)]
             /\ history' = Trim(Append(history, [id |-> data[s], msg |-> m]))
             /\ pstate[s] = "connected" /\ srvHost
             /\ UNCHANGED <<serverVars, enetVars, clientVars, heard, written, joined>>
<1>1. up[s] \in Seq(Message) /\ up[s] # <<>>
  BY DEF OnReceive, ServerReceive, ChatTypeOK
<1>2. Head(up[s]) \in Message /\ Tail(up[s]) \in Seq(Message)
  BY <1>1
<1> QED
  BY <1>1, <1>2 DEF OnReceive, ServerReceive, ChatTypeOK, SessionTypeOK

(* The initial values have their types.                                    *)
LEMMA ChatTypeInit == ChatInit => ChatTypeOK
<1> SUFFICES ASSUME ChatInit PROVE ChatTypeOK
  OBVIOUS
<1>1. SessionTypeOK
  BY TypeInit DEF ChatInit, TypeOK
<1>2. up \in [Slots -> Seq(Message)] /\ down \in [Clients -> Seq(Message)]
  BY DEF ChatInit, Init
<1>3. /\ history \in Seq(ChatMessage) /\ said \in Seq(ChatMessage) /\ Len(said) = 0
      /\ heard \in [Clients -> Seq(Message)]
  BY DEF ChatInit
<1>4. written \in [Senders -> Nat] /\ joined \in [Clients -> 0 .. Len(said)]
  BY <1>3, ChatAssumption DEF ChatInit
<1> QED
  BY <1>1, <1>2, <1>3, <1>4 DEF ChatTypeOK

(* All of them but those of the session.                                   *)
ChatLocalOK ==
    /\ up \in [Slots -> Seq(Message)]
    /\ down \in [Clients -> Seq(Message)]
    /\ history \in Seq(ChatMessage)
    /\ heard \in [Clients -> Seq(Message)]
    /\ written \in [Senders -> Nat]
    /\ said \in Seq(ChatMessage)
    /\ joined \in [Clients -> 0 .. Len(said)]

(* Every step keeps them.                                                  *)
LEMMA ChatTypeStep == ASSUME ChatTypeOK, ChatNext PROVE ChatTypeOK'
<1> USE DEF serverVars, enetVars, clientVars, chatLocal
<1>0. SessionTypeOK /\ ChatLocalOK
  BY DEF ChatTypeOK, ChatLocalOK
<1>1. SessionTypeOK'
  BY <1>0, ChatIsSession, StateType
<1>2. ASSUME ChatUnderneath PROVE ChatLocalOK'
  <2>1. up' \in [Slots -> Seq(Message)] /\ down' \in [Clients -> Seq(Message)]
    <3>1. CASE Background
      BY <1>0, <3>1, BackgroundQueues DEF ChatLocalOK
    <3>2. CASE \/ ServerClose
               \/ \E s \in Slots : ServerDisconnect(s) /\ UNCHANGED down
               \/ \E i \in ClientID : Kick(i) /\ UNCHANGED down
      <4>1. up' \in [Slots -> Seq(Message)]
        BY <1>0, <3>2, ServerQueues DEF ChatLocalOK
      <4> QED
        BY <1>0, <3>2, <4>1 DEF ChatLocalOK, ServerClose
    <3>3. ASSUME NEW c \in Clients, (ConnectSucceeds(c) /\ UNCHANGED up) \/ ClientDisconnect(c)
          PROVE  up' \in [Slots -> Seq(Message)] /\ down' \in [Clients -> Seq(Message)]
      <4>1. down' \in [Clients -> Seq(Message)]
        BY <1>0, <3>3, ClientQueues DEF ChatLocalOK
      <4> QED
        BY <1>0, <3>3, <4>1 DEF ChatLocalOK, ClientDisconnect
    <3> QED
      BY <1>2, <3>1, <3>2, <3>3 DEF ChatUnderneath
  <2> QED
    BY <1>0, <1>2, <2>1 DEF ChatUnderneath, ChatLocalOK
<1>3. ASSUME SendAs PROVE ChatLocalOK'
  <2>1. Host \in Senders /\ written[Host] < TextLimit[Host] /\ 0 \in ClientID
    BY <1>3, SpanAssumption DEF SendAs, Senders, ClientID
  <2>2. /\ NextMessage(Host) \in Message /\ written[Host] + 1 \in Nat
        /\ Relay(0, NextMessage(Host))
    BY <1>3, <2>1, NextIsMessage DEF SendAs
  <2>3. /\ [id |-> 0, msg |-> NextMessage(Host)] \in ChatMessage
        /\ said' \in Seq(ChatMessage) /\ Len(said') = Len(said) + 1
        /\ down' \in [Clients -> Seq(Message)]
    BY <2>1, <2>2, RelayIs
  <2>4. history' \in Seq(ChatMessage)
    BY <1>0, <1>3, <2>3 DEF SendAs, ChatLocalOK
  <2>5. written' \in [Senders -> Nat]
    BY <1>0, <1>3, <2>2 DEF SendAs, ChatLocalOK
  <2>6. joined' \in [Clients -> 0 .. Len(said')]
    <3>1. joined' = joined /\ Len(said) \in Nat
      BY <1>0, <1>3 DEF SendAs, ChatLocalOK
    <3> QED
      BY <1>0, <2>3, <3>1 DEF ChatLocalOK
  <2> QED
    BY <1>0, <1>3, <2>3, <2>4, <2>5, <2>6 DEF SendAs, ChatLocalOK
<1>4. ASSUME NEW s \in Slots, OnReceive(s) PROVE ChatLocalOK'
  <2> DEFINE m == Head(up[s])
  <2>1. /\ m \in Message /\ data[s] \in ClientID /\ Relay(data[s], m)
        /\ up' \in [Slots -> Seq(Message)]
        /\ history' = Trim(Append(history, [id |-> data[s], msg |-> m]))
        /\ UNCHANGED <<heard, written, joined>>
    BY <1>4, OnReceiveIs
  <2> HIDE DEF m
  <2>2. /\ [id |-> data[s], msg |-> m] \in ChatMessage
        /\ said' \in Seq(ChatMessage) /\ Len(said') = Len(said) + 1
        /\ down' \in [Clients -> Seq(Message)]
    BY <2>1, RelayIs
  <2>3. history' \in Seq(ChatMessage)
    BY <1>0, <2>1, <2>2, TrimIs DEF ChatLocalOK
  <2>4. joined' \in [Clients -> 0 .. Len(said')]
    <3>1. joined' = joined /\ Len(said) \in Nat
      BY <1>0, <2>1 DEF ChatLocalOK
    <3> QED
      BY <1>0, <2>2, <3>1 DEF ChatLocalOK
  <2> QED
    BY <1>0, <2>1, <2>2, <2>3, <2>4 DEF ChatLocalOK
<1>5. ASSUME NEW s \in Slots, Arrives(s) PROVE ChatLocalOK'
  <2>1. joined' \in [Clients -> 0 .. Len(said')]
    <3>1. Len(said) \in 0 .. Len(said) /\ said' = said
      BY <1>0, <1>5 DEF Arrives, ChatLocalOK
    <3> QED
      BY <1>0, <1>5, <3>1 DEF Arrives, ChatLocalOK
  <2> QED
    BY <1>0, <1>5, <2>1 DEF Arrives, ServerConnect, ChatLocalOK
<1>6. ASSUME NEW c \in Clients, SendText(c) PROVE ChatLocalOK'
  <2>1. c \in Senders /\ written[c] < TextLimit[c] /\ ClientSend(c, NextMessage(c), "Reliable")
    BY <1>6 DEF SendText, Senders
  <2>2. NextMessage(c) \in Message /\ written[c] + 1 \in Nat
    BY <2>1, NextIsMessage
  <2>3. up' \in [Slots -> Seq(Message)] /\ down' = down
    BY <1>0, <2>1, <2>2, ClientSendType DEF ChatLocalOK, ClientSend
  <2>4. written' \in [Senders -> Nat]
    BY <1>0, <1>6, <2>2 DEF SendText, ChatLocalOK
  <2> QED
    BY <1>0, <1>6, <2>3, <2>4 DEF SendText, ChatLocalOK
<1>7. ASSUME NEW c \in Clients, Hear(c) PROVE ChatLocalOK'
  <2>1. /\ down[c] # <<>> /\ down[c] \in Seq(Message) /\ heard[c] \in Seq(Message)
        /\ heard' = [heard EXCEPT ![c] = Trim(Append(heard[c], Head(down[c])))]
    BY <1>0, <1>7 DEF Hear, ClientReceive, ChatLocalOK
  <2>2. Head(down[c]) \in Message
    BY <2>1
  <2>3. Trim(Append(heard[c], Head(down[c]))) \in Seq(Message)
    BY <2>1, <2>2, TrimIs
  <2>4. heard' \in [Clients -> Seq(Message)]
    BY <1>0, <2>1, <2>3 DEF ChatLocalOK
  <2>5. down' \in [Clients -> Seq(Message)]
    BY <1>0, <1>7, ClientQueues DEF Hear, ChatLocalOK
  <2> QED
    BY <1>0, <1>7, <2>4, <2>5 DEF Hear, ChatLocalOK
<1>8. ASSUME NEW c \in Clients, ClientRestarts(c) PROVE ChatLocalOK'
  <2>1. down' \in [Clients -> Seq(Message)] /\ up' = up
    BY <1>0, <1>8, ClientQueues DEF ClientRestarts, Crash, ChatLocalOK
  <2>2. heard' \in [Clients -> Seq(Message)]
    BY <1>0, <1>8 DEF ClientRestarts, ChatLocalOK
  <2> QED
    BY <1>0, <1>8, <2>1, <2>2 DEF ClientRestarts, ChatLocalOK
<1>9. ChatLocalOK'
  BY <1>2, <1>3, <1>4, <1>5, <1>6, <1>7, <1>8 DEF ChatNext
<1> QED
  BY <1>1, <1>9 DEF ChatTypeOK, ChatLocalOK

(* Histories hold messages, and nothing but messages is on its way.        *)
LEMMA ChatTypesHold == ChatSpec => []ChatTypeOK
<1>1. ChatTypeOK /\ UNCHANGED chatVars => ChatTypeOK'
  BY DEF ChatTypeOK, SessionTypeOK, chatVars, chatLocal, sessionVars, serverVars, enetVars, clientVars
<1> QED
  BY <1>1, ChatTypeInit, ChatTypeStep, PTL DEF ChatSpec

-----------------------------------------------------------------------------
(* The server's history.                                                   *)

(* It is the end of what was said, at least as much of it as the cap, and  *)
(* one message longer for each sendAs() at most.                           *)
EndInv ==
    /\ EndOf(history, said)
    /\ Len(history) >= Cap \/ Len(history) = Len(said)
    /\ Len(history) <= Cap + written[Host]

(* Every step keeps it.                                                    *)
LEMMA EndInvStep == ASSUME ChatTypeOK, EndInv, ChatNext PROVE EndInv'
<1>0. /\ history \in Seq(ChatMessage) /\ said \in Seq(ChatMessage)
      /\ Len(history) \in Nat /\ Len(said) \in Nat /\ Len(history) <= Len(said)
      /\ Cap \in Nat \ {0} /\ Host \in Senders /\ written[Host] \in Nat
      /\ written \in [Senders -> Nat]
  BY ChatAssumption DEF ChatTypeOK, Senders, EndInv, EndOf
<1>1. CASE SendAs
  <2> DEFINE e == [id |-> 0, msg |-> NextMessage(Host)]
  <2>1. written[Host] < TextLimit[Host] /\ 0 \in ClientID
    BY <1>1, SpanAssumption DEF SendAs, ClientID
  <2>2. NextMessage(Host) \in Message /\ Relay(0, NextMessage(Host))
    BY <1>0, <1>1, <2>1, NextIsMessage DEF SendAs
  <2>3. e \in ChatMessage /\ said' = Append(said, e)
    BY <2>1, <2>2, RelayIs
  <2>4. history' = Append(history, e) /\ written'[Host] = written[Host] + 1
    BY <1>0, <1>1 DEF SendAs
  <2> HIDE DEF e
  <2>5. EndOf(history', said') /\ Len(history') = Len(history) + 1 /\ Len(said') = Len(said) + 1
    BY <1>0, <2>3, <2>4, EndAppend DEF EndInv
  <2> QED
    BY <1>0, <2>4, <2>5 DEF EndInv
<1>2. ASSUME NEW s \in Slots, OnReceive(s) PROVE EndInv'
  <2> DEFINE e == [id |-> data[s], msg |-> Head(up[s])]
  <2>1. /\ Head(up[s]) \in Message /\ data[s] \in ClientID /\ Relay(data[s], Head(up[s]))
        /\ history' = Trim(Append(history, e)) /\ written' = written
    BY <1>2, OnReceiveIs
  <2>2. e \in ChatMessage /\ said' = Append(said, e)
    BY <2>1, RelayIs
  <2> HIDE DEF e
  <2>3. EndOf(Append(history, e), said') /\ Len(said') = Len(said) + 1
    BY <1>0, <2>2, EndAppend DEF EndInv
  <2>4. CASE Len(history) >= Cap
    <3>1. history' = Tail(Append(history, e)) /\ Len(history') = Len(history)
      BY <1>0, <2>1, <2>2, <2>4, TrimIs
    <3>2. Append(history, e) \in Seq(ChatMessage) /\ Append(history, e) # <<>>
          /\ said' \in Seq(ChatMessage)
      BY <1>0, <2>2, AppendLast
    <3>3. EndOf(history', said')
      BY <2>3, <3>1, <3>2, EndTail
    <3> QED
      BY <2>1, <2>4, <3>1, <3>3 DEF EndInv
  <2>5. CASE Len(history) < Cap
    <3>1. history' = Append(history, e) /\ Len(history') = Len(history) + 1
      BY <1>0, <2>1, <2>2, <2>5, TrimIs
    <3> QED
      BY <1>0, <2>1, <2>3, <2>5, <3>1 DEF EndInv
  <2> QED
    BY <1>0, <2>4, <2>5
<1>3. ASSUME UNCHANGED <<history, said, written[Host]>> PROVE EndInv'
  BY <1>3 DEF EndInv
<1>4. \/ SendAs
      \/ \E s \in Slots : OnReceive(s)
      \/ UNCHANGED <<history, said, written[Host]>>
  <2>1. \A c \in Clients : SendText(c) => UNCHANGED <<history, said, written[Host]>>
    BY <1>0, ChatAssumption DEF SendText
  <2> QED
    BY <2>1 DEF ChatNext, ChatUnderneath, chatLocal, Arrives, Hear, ClientRestarts
<1> QED
  BY <1>1, <1>2, <1>3, <1>4

(* The history of the server is what was said last.                        *)
THEOREM HistoryCorrect == ChatSpec => []HistoryIsEnd
<1>1. ChatInit => EndInv
  BY ChatAssumption DEF ChatInit, EndInv, EndOf, Senders
<1>2. EndInv /\ UNCHANGED chatVars => EndInv'
  BY DEF EndInv, chatVars, chatLocal
<1>3. ChatTypeOK /\ EndInv => HistoryIsEnd
  <2> SUFFICES ASSUME ChatTypeOK, EndInv PROVE HistoryIsEnd
    OBVIOUS
  <2>1. history \in Seq(ChatMessage) /\ said \in Seq(ChatMessage) /\ Cap \in Nat
    BY ChatAssumption DEF ChatTypeOK
  <2>2. IsSuffix(history, said)
    BY <2>1, SuffixIs DEF EndInv
  <2>3. Len(Recent(said, Cap)) = IF Len(said) <= Cap THEN Len(said) ELSE Cap
    BY <2>1, RecentIs
  <2>4. Len(history) \in Nat /\ Len(said) \in Nat /\ Len(history) <= Len(said)
    BY <2>1 DEF EndInv, EndOf
  <2> QED
    BY <2>1, <2>2, <2>3, <2>4 DEF EndInv, HistoryIsEnd
<1> QED
  BY <1>1, <1>2, <1>3, EndInvStep, ChatTypesHold, PTL DEF ChatSpec

-----------------------------------------------------------------------------
(* What the clients hear.                                                  *)

(* The last k messages of q end h, without their ids.                      *)
Ends(k, q, h) == k <= Len(h) /\ \A n \in 0 .. k - 1 : q[Len(q) - n].msg = h[Len(h) - n]

(* One more at the end of both.                                            *)
LEMMA EndsGrow ==
  ASSUME NEW q \in Seq(ChatMessage), NEW h \in Seq(Message), NEW k \in Nat, k <= Len(q),
         Ends(k, q, h), NEW e \in ChatMessage, e.msg \in Message
  PROVE  Ends(k + 1, Append(q, e), Append(h, e.msg))
<1> DEFINE a == Append(q, e)
           b == Append(h, e.msg)
<1>1. /\ Len(q) \in Nat /\ Len(a) = Len(q) + 1 /\ a[Len(q) + 1] = e
      /\ \A i \in 1 .. Len(q) : a[i] = q[i]
  OBVIOUS
<1>2. /\ Len(h) \in Nat /\ Len(b) = Len(h) + 1 /\ b[Len(h) + 1] = e.msg
      /\ \A i \in 1 .. Len(h) : b[i] = h[i]
  OBVIOUS
<1> HIDE DEF a, b
<1>3. k + 1 <= Len(b)
  BY <1>1, <1>2 DEF Ends
<1>4. ASSUME NEW n \in 0 .. (k + 1) - 1 PROVE a[Len(a) - n].msg = b[Len(b) - n]
  <2>1. CASE n = 0
    BY <1>1, <1>2, <2>1
  <2>2. CASE n # 0
    <3>1. /\ n - 1 \in 0 .. k - 1
          /\ Len(a) - n = Len(q) - (n - 1) /\ Len(b) - n = Len(h) - (n - 1)
      BY <1>1, <1>2, <2>2
    <3>2. Len(q) - (n - 1) \in 1 .. Len(q) /\ Len(h) - (n - 1) \in 1 .. Len(h)
      BY <1>1, <1>2, <3>1 DEF Ends
    <3> QED
      BY <1>1, <1>2, <3>1, <3>2 DEF Ends
  <2> QED
    BY <2>1, <2>2
<1>5. Ends(k + 1, a, b)
  BY <1>3, <1>4 DEF Ends
<1> QED
  BY <1>5 DEF a, b

(* The first one of h goes, or fewer of q are asked for.                   *)
LEMMA EndsLess ==
  ASSUME NEW q, NEW h \in Seq(Message), NEW k \in Nat, Ends(k, q, h)
  PROVE  /\ \A j \in 0 .. k : Ends(j, q, h)
         /\ k < Len(h) => Ends(k, q, Tail(h))
<1> DEFINE t == Tail(h)
<1>1. ASSUME NEW j \in 0 .. k PROVE Ends(j, q, h)
  <2>1. j <= Len(h) /\ \A n \in 0 .. j - 1 : n \in 0 .. k - 1
    BY DEF Ends
  <2> QED
    BY <2>1 DEF Ends
<1>2. ASSUME k < Len(h) PROVE Ends(k, q, t)
  <2>0. h # <<>>
    BY <1>2
  <2>1. /\ Len(h) \in Nat /\ Len(t) = Len(h) - 1 /\ \A i \in 1 .. Len(h) - 1 : t[i] = h[i + 1]
    BY <2>0
  <2> HIDE DEF t
  <2>2. ASSUME NEW n \in 0 .. k - 1 PROVE q[Len(q) - n].msg = t[Len(t) - n]
    <3>1. Len(t) - n \in 1 .. Len(h) - 1 /\ (Len(t) - n) + 1 = Len(h) - n
      BY <1>2, <2>1
    <3>2. t[Len(t) - n] = h[Len(h) - n]
      BY <2>1, <3>1
    <3> QED
      BY <3>2 DEF Ends
  <2> QED
    BY <1>2, <2>1, <2>2 DEF Ends
<1> QED
  BY <1>1, <1>2

(* Two queues, one behind the other.                                       *)
LEMMA Behind ==
  ASSUME NEW P, NEW h \in Seq(P), NEW d \in Seq(P), NEW m \in P
  PROVE  /\ h \o Append(d, m) = Append(h \o d, m)
         /\ d # <<>> => Append(h, Head(d)) \o Tail(d) = h \o d
         /\ d # <<>> /\ h # <<>> => Tail(Append(h, Head(d))) \o Tail(d) = Tail(h \o d)
<1>1. h \o Append(d, m) = Append(h \o d, m)
  OBVIOUS
<1>2. d # <<>> => Append(h, Head(d)) \o Tail(d) = h \o d
  OBVIOUS
<1>3. ASSUME d # <<>>, h # <<>> PROVE Tail(Append(h, Head(d))) \o Tail(d) = Tail(h \o d)
  <2> DEFINE a == Append(h, Head(d))
  <2>1. Head(d) \in P /\ Tail(d) \in Seq(P)
    BY <1>3
  <2>2. a \in Seq(P) /\ a # <<>>
    BY <2>1
  <2> HIDE DEF a
  <2>3. Tail(a) \o Tail(d) = Tail(a \o Tail(d))
    BY <2>1, <2>2
  <2> QED
    BY <1>2, <1>3, <2>3 DEF a
<1> QED
  BY <1>1, <1>2, <1>3

(* What a client will have heard, and how much of what was said it has to. *)
Coming(c) == heard[c] \o down[c]
Window(c) == Cap + Len(down[c])
Due(c) == IF Len(said) - joined[c] <= Window(c) THEN Len(said) - joined[c] ELSE Window(c)

HearInv == \A c \in Reached(pstate, link) : Ends(Due(c), said, Coming(c))

(* The types of what HearInv is about.                                     *)
LEMMA HearTypes ==
  ASSUME ChatTypeOK, NEW c \in Clients
  PROVE  /\ heard[c] \in Seq(Message) /\ down[c] \in Seq(Message) /\ Coming(c) \in Seq(Message)
         /\ Len(Coming(c)) = Len(heard[c]) + Len(down[c])
         /\ said \in Seq(ChatMessage) /\ Len(said) \in Nat /\ joined[c] \in 0 .. Len(said)
         /\ Cap \in Nat \ {0} /\ Window(c) \in Nat /\ Window(c) = Cap + Len(down[c])
         /\ Due(c) \in Nat /\ Due(c) <= Len(said) /\ Due(c) <= Window(c)
<1>1. /\ heard[c] \in Seq(Message) /\ down[c] \in Seq(Message)
      /\ said \in Seq(ChatMessage) /\ Len(said) \in Nat /\ joined[c] \in 0 .. Len(said)
      /\ Cap \in Nat \ {0}
  BY ChatAssumption DEF ChatTypeOK
<1>2. /\ Window(c) \in Nat /\ Window(c) = Cap + Len(down[c])
      /\ Due(c) \in Nat /\ Due(c) <= Len(said) /\ Due(c) <= Window(c)
  <2>1. Window(c) \in Nat /\ Window(c) = Cap + Len(down[c])
    BY <1>1 DEF Window
  <2> QED
    BY <1>1, <2>1 DEF Due
<1>3. Coming(c) \in Seq(Message) /\ Len(Coming(c)) = Len(heard[c]) + Len(down[c])
  BY <1>1 DEF Coming
<1> QED
  BY <1>1, <1>2, <1>3

(* What the server relays comes last with everybody it reaches.            *)
LEMMA RelayHeard ==
  ASSUME ChatTypeOK, HearInv, NEW i \in ClientID, NEW m \in Message, Relay(i, m),
         NEW c \in Reached(pstate, link), UNCHANGED <<heard, joined>>
  PROVE  Ends(Due(c)', said', Coming(c)')
<1> DEFINE e == [id |-> i, msg |-> m]
<1>0. c \in Clients
  BY DEF Reached
<1>1. /\ e \in ChatMessage /\ e.msg = m /\ said' = Append(said, e) /\ Len(said') = Len(said) + 1
      /\ down'[c] = Append(down[c], m)
  BY <1>0, RelayIs
<1> HIDE DEF e
<1>2. /\ heard[c] \in Seq(Message) /\ down[c] \in Seq(Message) /\ Coming(c) \in Seq(Message)
      /\ said \in Seq(ChatMessage) /\ Len(said) \in Nat /\ joined[c] \in 0 .. Len(said)
      /\ Cap \in Nat \ {0} /\ Due(c) \in Nat /\ Due(c) <= Len(said)
      /\ Window(c) \in Nat /\ Window(c) = Cap + Len(down[c])
  BY <1>0, HearTypes
<1>3. Coming(c)' = Append(Coming(c), m)
  <2>1. Coming(c)' = heard[c] \o Append(down[c], m)
    BY <1>1 DEF Coming
  <2> DEFINE h == heard[c]
             d == down[c]
  <2>2. h \in Seq(Message) /\ d \in Seq(Message)
    BY <1>2
  <2> HIDE DEF h, d
  <2>3. h \o Append(d, m) = Append(h \o d, m)
    BY <2>2, Behind
  <2> QED
    BY <2>1, <2>3 DEF Coming, h, d
<1>4. Ends(Due(c), said, Coming(c))
  BY DEF HearInv
<1>5. Ends(Due(c) + 1, said', Coming(c)')
  BY <1>1, <1>2, <1>3, <1>4, EndsGrow
<1>6. Due(c)' \in 0 .. Due(c) + 1
  <2>1. Len(down'[c]) = Len(down[c]) + 1 /\ Len(down[c]) \in Nat
    BY <1>1, <1>2
  <2>2. Window(c)' = Window(c) + 1
    BY <1>2, <2>1 DEF Window
  <2>3. \A l, j, w \in Nat : j <= l =>
           (IF (l + 1) - j <= w + 1 THEN (l + 1) - j ELSE w + 1)
              \in 0 .. (IF l - j <= w THEN l - j ELSE w) + 1
    OBVIOUS
  <2>4. Due(c)' = IF (Len(said) + 1) - joined[c] <= Window(c) + 1
                  THEN (Len(said) + 1) - joined[c] ELSE Window(c) + 1
    BY <1>1, <2>2 DEF Due
  <2>5. joined[c] \in Nat /\ joined[c] <= Len(said)
    BY <1>2
  <2> QED
    BY <1>2, <2>3, <2>4, <2>5 DEF Due
<1>7. Coming(c)' \in Seq(Message) /\ Due(c) + 1 \in Nat
  BY <1>2, <1>3
<1> QED
  BY <1>5, <1>6, <1>7, EndsLess

(* What a client takes out of its queue it puts into its history, which    *)
(* loses its first message for it when it is full.                         *)
LEMMA HearIs ==
  ASSUME ChatTypeOK, NEW c \in Clients, Hear(c)
  PROVE  /\ UNCHANGED <<said, joined>> /\ Len(down[c]) \in Nat /\ Len(down[c]) > 0
         /\ Len(down'[c]) = Len(down[c]) - 1 /\ Coming(c) # <<>>
         /\ \/ Coming(c)' = Coming(c)
            \/ Len(heard[c]) >= Cap /\ Coming(c)' = Tail(Coming(c))
<1> DEFINE h == heard[c]
           d == down[c]
           a == Append(h, Head(d))
<1>1. /\ h \in Seq(Message) /\ d \in Seq(Message) /\ Cap \in Nat \ {0}
      /\ Coming(c) = h \o d
  BY HearTypes DEF Coming
<1>2. /\ d # <<>> /\ down'[c] = Tail(d) /\ heard'[c] = Trim(a)
      /\ UNCHANGED <<said, joined>>
  BY DEF Hear, ClientReceive, ChatTypeOK
<1> HIDE DEF h, d
<1>3. /\ Head(d) \in Message /\ Len(h) \in Nat /\ Len(d) \in Nat /\ Len(d) > 0
      /\ Len(Tail(d)) = Len(d) - 1
  BY <1>1, <1>2
<1>4. ASSUME Len(h) < Cap PROVE Coming(c)' = Coming(c)
  <2>1. heard'[c] = a
    BY <1>1, <1>2, <1>3, <1>4, TrimIs
  <2>2. a \o Tail(d) = h \o d
    BY <1>1, <1>2
  <2> QED
    BY <1>1, <1>2, <2>1, <2>2 DEF Coming
<1>5. ASSUME Len(h) >= Cap PROVE Coming(c)' = Tail(Coming(c))
  <2>1. heard'[c] = Tail(a)
    BY <1>1, <1>2, <1>3, <1>5, TrimIs
  <2>2. h # <<>>
    BY <1>1, <1>5
  <2>3. Tail(a) \o Tail(d) = Tail(h \o d)
    BY <1>1, <1>2, <1>3, <2>2, Behind
  <2> QED
    BY <1>1, <1>2, <2>1, <2>3 DEF Coming
<1>6. Coming(c) # <<>>
  BY <1>1, <1>2
<1>7. \/ Coming(c)' = Coming(c)
      \/ Len(heard[c]) >= Cap /\ Coming(c)' = Tail(Coming(c))
  BY <1>1, <1>3, <1>4, <1>5 DEF h
<1> QED
  BY <1>2, <1>3, <1>6, <1>7 DEF d

(* What a full history loses for a message it takes is old enough.         *)
LEMMA HearHeard ==
  ASSUME ChatTypeOK, NEW c \in Clients, Hear(c), Ends(Due(c), said, Coming(c))
  PROVE  Ends(Due(c)', said', Coming(c)')
<1>1. /\ Coming(c) \in Seq(Message) /\ Len(Coming(c)) = Len(heard[c]) + Len(down[c])
      /\ heard[c] \in Seq(Message) /\ Cap \in Nat \ {0} /\ Due(c) \in Nat
      /\ Window(c) \in Nat /\ Window(c) = Cap + Len(down[c]) /\ Due(c) <= Window(c)
      /\ Len(said) \in Nat /\ joined[c] \in 0 .. Len(said)
  BY HearTypes
<1>2. /\ UNCHANGED <<said, joined>> /\ Len(down[c]) \in Nat /\ Len(down[c]) > 0
      /\ Len(down'[c]) = Len(down[c]) - 1
      /\ \/ Coming(c)' = Coming(c)
         \/ Len(heard[c]) >= Cap /\ Coming(c)' = Tail(Coming(c))
  BY HearIs
<1>3. Window(c)' = Window(c) - 1
  BY <1>1, <1>2 DEF Window
<1>4. Due(c)' \in 0 .. Due(c) /\ Due(c)' <= Window(c)'
  BY <1>1, <1>2, <1>3 DEF Due
<1>5. Ends(Due(c)', said, Coming(c))
  BY <1>1, <1>4, EndsLess
<1>6. CASE Len(heard[c]) >= Cap /\ Coming(c)' = Tail(Coming(c))
  <2>1. Len(heard[c]) \in Nat
    BY <1>1
  <2>2. Due(c)' \in Nat /\ Due(c)' < Len(Coming(c))
    <3>1. \A k, w, h, d, n \in Nat : k <= w - 1 /\ w = n + d /\ h >= n => k < h + d
      OBVIOUS
    <3>2. Due(c)' \in Nat /\ Due(c)' <= Window(c) - 1
      BY <1>1, <1>3, <1>4
    <3> QED
      BY <1>1, <1>2, <1>6, <2>1, <3>1, <3>2
  <2>3. Ends(Due(c)', said, Tail(Coming(c)))
    BY <1>1, <1>5, <2>2, EndsLess
  <2> QED
    BY <1>2, <1>6, <2>3
<1> QED
  BY <1>2, <1>5, <1>6

(* Nothing that concerns a client has changed.                             *)
LEMMA HeardKept ==
  ASSUME HearInv, NEW c \in Reached(pstate, link),
         UNCHANGED <<said, heard[c], joined[c], down[c]>>
  PROVE  Ends(Due(c)', said', Coming(c)')
<1>1. Due(c)' = Due(c) /\ Coming(c)' = Coming(c)
  BY DEF Due, Window, Coming
<1>2. Ends(Due(c), said, Coming(c))
  BY DEF HearInv
<1> QED
  BY <1>1, <1>2

(* Whatever the server relays and whatever the clients take, nobody who is *)
(* reached misses one of the last messages.                                *)
LEMMA HearInvStep ==
  ASSUME ChatTypeOK, ChatTypeOK', LinkInv, HearInv, ChatNext
  PROVE  HearInv'
<1> SUFFICES ASSUME NEW c \in Reached(pstate', link') PROVE Ends(Due(c)', said', Coming(c)')
  BY DEF HearInv
<1> DEFINE Goal == Ends(Due(c)', said', Coming(c)')
<1>0. /\ SessionTypeOK /\ c \in Clients /\ link'[c] \in Slots /\ link'[c] # NoSlot
      /\ down \in [Clients -> Seq(Message)] /\ heard \in [Clients -> Seq(Message)]
      /\ joined \in [Clients -> 0 .. Len(said)]
  BY NoSlotAssumption DEF ChatTypeOK, Reached
<1>1. ASSUME NEW s \in Slots, Arrives(s) PROVE Goal
  <2>1. UNCHANGED <<said, heard, down, link>>
    BY <1>1 DEF Arrives, ServerConnect
  <2>2. CASE link[c] = s
    <3>1. joined'[c] = Len(said')
      BY <1>0, <1>1, <2>1, <2>2 DEF Arrives
    <3>2. Len(said') \in Nat /\ Coming(c)' \in Seq(Message) /\ Window(c)' \in Nat
      <4>1. /\ Len(said') \in Nat /\ Cap \in Nat /\ Coming(c)' \in Seq(Message)
            /\ down'[c] \in Seq(Message)
        BY <1>0, ChatAssumption DEF ChatTypeOK, Coming
      <4>2. Len(down'[c]) \in Nat
        BY <4>1
      <4> QED
        BY <4>1, <4>2 DEF Window
    <3>3. Due(c)' = 0
      BY <3>1, <3>2 DEF Due
    <3>4. Len(Coming(c)') \in Nat
      BY <3>2
    <3> QED
      BY <3>3, <3>4 DEF Ends
  <2>3. CASE link[c] # s
    <3>1. joined'[c] = joined[c]
      BY <1>0, <1>1, <2>3 DEF Arrives
    <3>2. c \in Reached(pstate, link)
      BY <1>0, <1>1, <2>1, <2>3 DEF Arrives, ServerConnect, Reached, SessionTypeOK
    <3> QED
      BY <2>1, <3>1, <3>2, HeardKept
  <2> QED
    BY <2>2, <2>3
<1>2. ASSUME ButConnect PROVE c \in Reached(pstate, link)
  BY <1>0, <1>2, ReachedStep
<1>3. ASSUME ChatUnderneath PROVE Goal
  <2>1. ButConnect /\ UNCHANGED <<said, heard, joined>>
    BY <1>3 DEF ChatUnderneath, ButConnect, chatLocal
  <2>2. down'[c] = down[c]
    BY <1>0, <1>3, KeptDown DEF ChatUnderneath, ServerClose
  <2> QED
    BY <1>2, <2>1, <2>2, HeardKept
<1>4. ASSUME SendAs PROVE Goal
  <2>1. /\ ButConnect /\ Host \in Senders /\ written[Host] < TextLimit[Host] /\ 0 \in ClientID
        /\ Relay(0, NextMessage(Host)) /\ UNCHANGED <<heard, joined>>
    BY <1>4, SpanAssumption DEF SendAs, Senders, ClientID, ButConnect
  <2>2. NextMessage(Host) \in Message
    BY <2>1, NextIsMessage
  <2> QED
    BY <1>2, <2>1, <2>2, RelayHeard
<1>5. ASSUME NEW s \in Slots, OnReceive(s) PROVE Goal
  <2>1. ButConnect
    BY <1>5 DEF OnReceive, ButConnect
  <2>2. /\ Head(up[s]) \in Message /\ data[s] \in ClientID /\ Relay(data[s], Head(up[s]))
        /\ UNCHANGED <<heard, joined>>
    BY <1>5, OnReceiveIs
  <2> QED
    BY <1>2, <2>1, <2>2, RelayHeard
<1>6. ASSUME NEW d \in Clients, SendText(d) PROVE Goal
  <2>1. ButConnect /\ UNCHANGED <<said, heard, joined, down>>
    BY <1>6 DEF SendText, ClientSend, ButConnect
  <2> QED
    BY <1>2, <2>1, HeardKept
<1>7. ASSUME NEW d \in Clients, Hear(d) PROVE Goal
  <2>1. ButConnect
    BY <1>7 DEF Hear, ButConnect
  <2>2. CASE d = c
    BY <1>0, <1>2, <1>7, <2>1, <2>2, HearHeard DEF HearInv
  <2>3. CASE d # c
    <3>1. UNCHANGED <<said, heard[c], joined[c], down[c]>>
      BY <1>0, <1>7, <2>3 DEF Hear, ClientReceive
    <3> QED
      BY <1>2, <2>1, <3>1, HeardKept
  <2> QED
    BY <2>2, <2>3
<1>8. ASSUME NEW d \in Clients, ClientRestarts(d) PROVE Goal
  <2>1. ButConnect /\ d # c
    BY <1>0, <1>8 DEF ClientRestarts, Crash, ButConnect, SessionTypeOK
  <2>2. down'[c] = down[c]
    BY <1>0, <1>8, KeptDown DEF ClientRestarts
  <2>3. UNCHANGED <<said, heard[c], joined[c]>>
    BY <1>0, <1>8, <2>1 DEF ClientRestarts
  <2> QED
    BY <1>2, <2>1, <2>2, <2>3, HeardKept
<1> HIDE DEF Goal
<1>9. Goal
  BY <1>1, <1>3, <1>4, <1>5, <1>6, <1>7, <1>8 DEF ChatNext
<1> QED
  BY <1>9 DEF Goal

(* Nobody shares a link.                                                   *)
LEMMA ChatLinks == ChatSpec => [](ChatTypeOK /\ LinkInv)
<1>1. ChatInit => LinkInv
  BY LinkInit DEF ChatInit
<1>2. ChatTypeOK /\ LinkInv /\ [ChatNext]_chatVars => LinkInv'
  BY ChatIsSession, LinkStep DEF ChatTypeOK
<1> QED
  BY <1>1, <1>2, ChatTypesHold, PTL DEF ChatSpec

(* What comes behind the first j.                                          *)
LEMMA SinceIs ==
  ASSUME NEW P, NEW q \in Seq(P), NEW j \in 0 .. Len(q)
  PROVE  LET since == SubSeq(q, j + 1, Len(q))
         IN  /\ since \in Seq(P) /\ Len(since) = Len(q) - j
             /\ \A i \in 1 .. Len(q) - j : since[i] = q[j + i]
<1>1. j \in Nat /\ Len(q) \in Nat /\ j <= Len(q)
  OBVIOUS
<1> QED
  BY <1>1

(* Messages without their ids.                                             *)
LEMMA MessagesOf ==
  ASSUME NEW q \in Seq(ChatMessage)
  PROVE  LET msgs == [i \in DOMAIN q |-> q[i].msg]
         IN  /\ msgs \in Seq(Message) /\ Len(msgs) = Len(q)
             /\ \A i \in 1 .. Len(q) : msgs[i] = q[i].msg
<1>1. Len(q) \in Nat /\ DOMAIN q = 1 .. Len(q) /\ \A i \in 1 .. Len(q) : q[i] \in ChatMessage
  OBVIOUS
<1>2. \A e \in ChatMessage : e.msg \in Message
  BY DEF ChatMessage
<1>3. \A i \in 1 .. Len(q) : q[i].msg \in Message
  BY <1>1, <1>2
<1>4. [i \in 1 .. Len(q) |-> q[i].msg] \in Seq(Message)
  BY <1>1, <1>3
<1> QED
  BY <1>1, <1>4

(* What HearInv says in numbers is what the property says of sequences.    *)
LEMMA HeardIsSuffix ==
  ASSUME ChatTypeOK, NEW c \in Clients, Ends(Due(c), said, Coming(c))
  PROVE  LET since == SubSeq(said, joined[c] + 1, Len(said))
             recent == Recent(since, Cap + Len(down[c]))
         IN  IsSuffix([i \in DOMAIN recent |-> recent[i].msg], heard[c] \o down[c])
<1> DEFINE since == SubSeq(said, joined[c] + 1, Len(said))
           recent == Recent(since, Cap + Len(down[c]))
           msgs == [i \in DOMAIN recent |-> recent[i].msg]
<1>0. /\ said \in Seq(ChatMessage) /\ Len(said) \in Nat /\ joined[c] \in 0 .. Len(said)
      /\ Coming(c) \in Seq(Message) /\ Due(c) \in Nat /\ Due(c) <= Len(said)
      /\ Window(c) \in Nat /\ Window(c) = Cap + Len(down[c])
  BY HearTypes
<1>1. /\ since \in Seq(ChatMessage) /\ Len(since) = Len(said) - joined[c]
      /\ \A i \in 1 .. Len(said) - joined[c] : since[i] = said[joined[c] + i]
  BY <1>0, SinceIs
<1> HIDE DEF since
<1>2. /\ recent \in Seq(ChatMessage) /\ EndOf(recent, since) /\ Len(recent) = Due(c)
  BY <1>0, <1>1, RecentIs DEF Due
<1>3. \A n \in 0 .. Due(c) - 1 : recent[Due(c) - n] = said[Len(said) - n]
  <2> SUFFICES ASSUME NEW n \in 0 .. Due(c) - 1 PROVE recent[Due(c) - n] = said[Len(said) - n]
    OBVIOUS
  <2>1. recent[Due(c) - n] = since[Len(since) - n] /\ Due(c) <= Len(since)
    BY <1>2 DEF EndOf
  <2>2. Len(since) - n \in 1 .. Len(said) - joined[c] /\ joined[c] + (Len(since) - n) = Len(said) - n
    <3>1. \A len, k, j \in Nat : \A m \in 0 .. k - 1 :
             k <= len - j => (len - j) - m \in 1 .. len - j /\ j + ((len - j) - m) = len - m
      OBVIOUS
    <3>2. joined[c] \in Nat
      BY <1>0
    <3>3. Due(c) <= Len(said) - joined[c]
      BY <1>0, <1>1, <2>1
    <3>4. /\ (Len(said) - joined[c]) - n \in 1 .. Len(said) - joined[c]
          /\ joined[c] + ((Len(said) - joined[c]) - n) = Len(said) - n
      BY <1>0, <3>1, <3>2, <3>3
    <3> QED
      BY <1>1, <3>4
  <2> QED
    BY <1>1, <2>1, <2>2
<1> HIDE DEF recent
<1>4. /\ msgs \in Seq(Message) /\ Len(msgs) = Due(c)
      /\ \A i \in 1 .. Due(c) : msgs[i] = recent[i].msg
  BY <1>2, MessagesOf
<1> HIDE DEF msgs
<1>5. ASSUME NEW n \in 0 .. Due(c) - 1 PROVE msgs[Due(c) - n] = Coming(c)[Len(Coming(c)) - n]
  <2>1. Due(c) - n \in 1 .. Due(c)
    BY <1>0
  <2>2. msgs[Due(c) - n] = said[Len(said) - n].msg
    BY <1>3, <1>4, <2>1
  <2> QED
    BY <2>2 DEF Ends
<1>6. EndOf(msgs, Coming(c))
  BY <1>4, <1>5 DEF EndOf, Ends
<1>7. IsSuffix(msgs, Coming(c))
  BY <1>0, <1>4, <1>6, SuffixIs
<1> QED
  BY <1>7 DEF msgs, recent, since, Coming

(* Everybody who is reached hears the same, in the same order: the last    *)
(* messages since it was taken in.                                         *)
THEOREM HeardCorrect == ChatSpec => []AllHearTheSame
<1>1. ChatInit => HearInv
  BY NoSlotAssumption DEF ChatInit, Init, HearInv, Reached
<1>2. ChatTypeOK /\ LinkInv /\ HearInv /\ ChatNext => HearInv'
  BY ChatTypeStep, HearInvStep
<1>3. HearInv /\ UNCHANGED chatVars => HearInv'
  BY DEF HearInv, Due, Window, Coming, Reached, chatVars, chatLocal, sessionVars, enetVars
<1>4. ChatTypeOK /\ HearInv => AllHearTheSame
  <2> SUFFICES ASSUME ChatTypeOK, HearInv PROVE AllHearTheSame
    OBVIOUS
  <2>1. \A c \in Reached(pstate, link) : c \in Clients /\ Ends(Due(c), said, Coming(c))
    BY DEF HearInv, Reached
  <2> QED
    BY <2>1, HeardIsSuffix DEF AllHearTheSame
<1> QED
  BY <1>1, <1>2, <1>3, <1>4, ChatLinks, PTL DEF ChatSpec

-----------------------------------------------------------------------------
(* Who said what.                                                          *)

(* Written by the same sender, and before.                                 *)
Before(m, n) == m.name = n.name /\ m.text < n.text

(* Written by the sender up to now.                                        *)
From(m, n) == m.name = n /\ m.text <= written[n]

(* The positions of what was said under an id.                             *)
Under(i) == {j \in DOMAIN said : said[j].id = i}

(* What is on its way on one peer was written by one sender in this order, *)
(* and after all that was said under the id the peer has.                  *)
Stream(s) ==
    /\ \A j, k \in DOMAIN up[s] : j < k => Before(up[s][j], up[s][k])
    /\ pstate[s] = "connected" =>
          \A i \in Under(data[s]), k \in DOMAIN up[s] : Before(said[i].msg, up[s][k])

(* As long as a client is attached, that sender is the client.             *)
Author(c) == link[c] # NoSlot =>
    /\ \A k \in DOMAIN up[link[c]] : From(up[link[c]][k], c)
    /\ pstate[link[c]] = "connected" => \A i \in Under(data[link[c]]) : From(said[i].msg, c)

(* A new id has not been used, and the Host speaks under 0, which is the   *)
(* id of no player.                                                        *)
Signed ==
    /\ 0 \notin Known
    /\ \A i \in DOMAIN said : said[i].id < nextID
    /\ \A i \in Under(0) : From(said[i].msg, Host)

PendingEmpty == \A s \in Slots : pstate[s] = "pending" => up[s] = <<>>

SaidInv ==
    /\ SaidAsWritten /\ Signed /\ PendingEmpty
    /\ \A s \in Slots : Stream(s)
    /\ \A c \in Clients : Author(c)

(* One more message was said, and the others stay where they are.          *)
LEMMA SaidGrows ==
  ASSUME ChatTypeOK, NEW e \in ChatMessage, said' = Append(said, e)
  PROVE  \A j \in DOMAIN said' :
            /\ j \in Nat
            /\ \/ j \in DOMAIN said /\ said'[j] = said[j]
               \/ j = Len(said) + 1 /\ said'[j] = e /\ \A i \in DOMAIN said' : ~(j < i)
<1>1. said \in Seq(ChatMessage)
  BY DEF ChatTypeOK
<1>2. /\ Len(said) \in Nat /\ DOMAIN said = 1 .. Len(said) /\ DOMAIN said' = 1 .. Len(said) + 1
      /\ said'[Len(said) + 1] = e /\ \A j \in 1 .. Len(said) : said'[j] = said[j]
  BY <1>1
<1> QED
  BY <1>2

(* Whoever has written more has still written what he had.                 *)
LEMMA FromGrows ==
  ASSUME ChatTypeOK, NEW n \in Senders, NEW m \in Message, From(m, n),
         written'[n] \in {written[n], written[n] + 1}
  PROVE  m.name = n /\ m.text <= written'[n]
<1>1. written[n] \in Int /\ m.text \in Int
  BY TextIsInt DEF ChatTypeOK
<1> QED
  BY <1>1 DEF From

(* The messages in the two kinds of sequences.                             *)
LEMMA ElementTypes ==
  ASSUME ChatTypeOK
  PROVE  /\ \A s \in Slots : \A k \in DOMAIN up[s] : up[s][k] \in Message /\ k \in Nat
         /\ \A i \in DOMAIN said : said[i] \in ChatMessage /\ said[i].msg \in Message /\ i \in Nat
<1>1. ASSUME NEW s \in Slots, NEW k \in DOMAIN up[s] PROVE up[s][k] \in Message /\ k \in Nat
  <2>1. up[s] \in Seq(Message)
    BY DEF ChatTypeOK
  <2> QED
    BY <2>1
<1>2. ASSUME NEW i \in DOMAIN said
      PROVE  said[i] \in ChatMessage /\ said[i].msg \in Message /\ i \in Nat
  <2>1. said[i] \in ChatMessage /\ i \in Nat
    BY DEF ChatTypeOK
  <2> QED
    BY <2>1 DEF ChatMessage
<1> QED
  BY <1>1, <1>2

(* The steps in which nothing is said and nothing is written.              *)
QuietStep ==
    /\ UNCHANGED <<said, written, nextID>> /\ Known' \subseteq Known
    /\ \A s \in Slots :
          /\ up'[s] = up[s] \/ up'[s] = <<>>
          /\ pstate'[s] = "connected" => pstate[s] = "connected" /\ data'[s] = data[s]

(* All but four are of this kind.                                          *)
LEMMA ChatSteps ==
  ASSUME ChatTypeOK, ChatNext
  PROVE  \/ QuietStep
         \/ SendAs
         \/ \E s \in Slots : OnReceive(s)
         \/ \E s \in Slots : Arrives(s)
         \/ \E c \in Clients : SendText(c)
<1> USE DEF serverVars, enetVars, clientVars, chatLocal
<1>0. /\ up \in [Slots -> Seq(Message)] /\ pstate \in [Slots -> PeerState]
      /\ peers \in [ClientID -> Slots \cup {NoSlot}] /\ SessionTypeOK
  BY DEF ChatTypeOK, SessionTypeOK
<1>1. ASSUME Background, UNCHANGED chatLocal PROVE QuietStep
  <2>1. UNCHANGED <<said, written, nextID, peers, data>>
    BY <1>1 DEF Background, ServerStart, ConnectBegin, ConnectRefused, ConnectFails,
       DisconnectBegin, DisconnectEnd, Accept, ReapPending
  <2>2. ASSUME NEW s \in Slots
        PROVE  /\ up'[s] = up[s] \/ up'[s] = <<>>
               /\ pstate'[s] = "connected" => pstate[s] = "connected"
    <3>1. CASE UNCHANGED <<up, pstate>>
      BY <3>1
    <3>2. ASSUME NEW c \in Clients, NEW t \in Slots, Accept(c, t)
          PROVE  /\ up'[s] = up[s] \/ up'[s] = <<>>
                 /\ pstate'[s] = "connected" => pstate[s] = "connected"
      BY <1>0, <3>2 DEF Accept
    <3>3. ASSUME NEW t \in Slots, ReapPending(t)
          PROVE  /\ up'[s] = up[s] \/ up'[s] = <<>>
                 /\ pstate'[s] = "connected" => pstate[s] = "connected"
      BY <1>0, <3>3 DEF ReapPending
    <3>4. \/ UNCHANGED <<up, pstate>>
          \/ \E c \in Clients, t \in Slots : Accept(c, t)
          \/ \E t \in Slots : ReapPending(t)
      BY <1>1 DEF Background, ServerStart, ConnectBegin, ConnectRefused, ConnectFails,
         DisconnectBegin, DisconnectEnd
    <3> QED
      BY <3>1, <3>2, <3>3, <3>4
  <2> QED
    BY <2>1, <2>2 DEF QuietStep, Known
<1>2. ASSUME ServerClose, UNCHANGED chatLocal PROVE QuietStep
  BY <1>0, <1>2 DEF ServerClose, QuietStep, Known
<1>3. ASSUME NEW t \in Slots, ServerDisconnect(t), UNCHANGED chatLocal PROVE QuietStep
  <2>1. UNCHANGED <<said, written, nextID, data>> /\ Known' \subseteq Known
    BY <1>0, <1>3, KnownWith DEF ServerDisconnect
  <2>2. up' = [up EXCEPT ![t] = <<>>] /\ pstate' = [pstate EXCEPT ![t] = "free"]
    BY <1>3 DEF ServerDisconnect
  <2> QED
    BY <1>0, <2>1, <2>2 DEF QuietStep
<1>4. ASSUME NEW i \in ClientID, Kick(i), UNCHANGED chatLocal PROVE QuietStep
  <2>1. UNCHANGED <<said, written, nextID, data, peers>>
    BY <1>4 DEF Kick
  <2>2. /\ up' = [up EXCEPT ![peers[i]] = <<>>]
        /\ pstate' = [pstate EXCEPT ![peers[i]] = "disconnecting"]
    BY <1>4 DEF Kick
  <2> QED
    BY <1>0, <2>1, <2>2 DEF QuietStep, Known
<1>5. ASSUME NEW c \in Clients, ConnectSucceeds(c), UNCHANGED <<up, said, written>>
      PROVE  QuietStep
  <2>1. UNCHANGED <<nextID, data, peers>> /\ pstate' = [pstate EXCEPT ![link[c]] = "acknowledged"]
    BY <1>5 DEF ConnectSucceeds
  <2> QED
    BY <1>0, <1>5, <2>1 DEF QuietStep, Known
<1>6. ASSUME NEW c \in Clients, UNCHANGED <<said, written, up>>,
             ClientDisconnect(c) \/ ClientReceive(c) \/ Crash(c)
      PROVE  QuietStep
  <2>1. UNCHANGED <<nextID, data, peers, pstate>>
    BY <1>6 DEF ClientDisconnect, ClientReceive, Crash
  <2> QED
    BY <1>6, <2>1 DEF QuietStep, Known
<1>7. ChatUnderneath => QuietStep
  BY <1>1, <1>2, <1>3, <1>4, <1>5, <1>6 DEF ChatUnderneath, ClientDisconnect
<1>8. \A c \in Clients : Hear(c) \/ ClientRestarts(c) => QuietStep
  BY <1>6 DEF Hear, ClientRestarts, Crash
<1> QED
  BY <1>7, <1>8 DEF ChatNext

(* A peer whose handshake is not done is empty.                            *)
LEMMA PendingEmptyStep ==
  ASSUME ChatTypeOK, PendingEmpty, ChatNext
  PROVE  PendingEmpty'
<1> SUFFICES ASSUME NEW s \in Slots, pstate'[s] = "pending" PROVE up'[s] = <<>>
  BY DEF PendingEmpty
<1>0. up \in [Slots -> Seq(Message)] /\ SessionTypeOK
  BY DEF ChatTypeOK
<1>1. CASE pstate[s] # "pending"
  BY <1>0, <1>1, AcceptStep, ChatIsSession
<1>2. CASE pstate[s] = "pending"
  <2>1. up[s] = <<>>
    BY <1>2 DEF PendingEmpty
  <2>2. CASE QuietStep
    BY <2>1, <2>2 DEF QuietStep
  <2>3. CASE SendAs \/ \E t \in Slots : Arrives(t)
    BY <2>1, <2>3 DEF SendAs, Arrives, ServerConnect
  <2>4. ASSUME NEW t \in Slots, OnReceive(t) PROVE up'[s] = <<>>
    BY <1>0, <1>2, <2>1, <2>4 DEF OnReceive, ServerReceive
  <2>5. ASSUME NEW c \in Clients, SendText(c) PROVE up'[s] = <<>>
    <3> DEFINE open == {t \in Slots : link[c] = t /\ pstate[t] \in {"acknowledged", "connected"}}
    <3>1. up' = AppendTo(up, open, NextMessage(c))
      BY <2>5 DEF SendText, ClientSend
    <3>2. s \notin open
      BY <1>2
    <3> HIDE DEF open
    <3> QED
      BY <1>0, <2>1, <3>1, <3>2 DEF AppendTo
  <2> QED
    BY <2>2, <2>3, <2>4, <2>5, ChatSteps
<1> QED
  BY <1>1, <1>2

(* What SaidInv says of a state, without PendingEmpty.                     *)
SaidLocal == SaidAsWritten /\ Signed /\ (\A s \in Slots : Stream(s)) /\ \A c \in Clients : Author(c)

(* Nothing is said: packets vanish, peers are freed and handed out.        *)
LEMMA QuietSaid ==
  ASSUME ChatTypeOK, SaidInv, PendingEmpty', ChatNext, QuietStep
  PROVE  SaidLocal'
<1>0. /\ UNCHANGED <<said, written, nextID>> /\ Known' \subseteq Known
      /\ \A s \in Slots :
            /\ up'[s] = up[s] \/ up'[s] = <<>>
            /\ pstate'[s] = "connected" => pstate[s] = "connected" /\ data'[s] = data[s]
  BY DEF QuietStep
<1>1. SaidAsWritten'
  BY <1>0 DEF SaidInv, SaidAsWritten
<1>2. Signed'
  BY <1>0 DEF SaidInv, Signed, Under, From
<1>3. ASSUME NEW s \in Slots PROVE Stream(s)'
  <2>1. Stream(s)
    BY DEF SaidInv
  <2>2. CASE up'[s] = up[s]
    BY <1>0, <2>1, <2>2 DEF Stream, Under
  <2>3. CASE up'[s] = <<>>
    BY <2>3 DEF Stream
  <2> QED
    BY <1>0, <2>2, <2>3
<1>4. ASSUME NEW c \in Clients PROVE Author(c)'
  <2> SUFFICES ASSUME link'[c] # NoSlot PROVE Author(c)'
    BY DEF Author
  <2>1. Author(c) /\ link'[c] \in Slots
    <3>1. SessionTypeOK'
      BY ChatTypeStep DEF ChatTypeOK
    <3> QED
      BY <3>1 DEF SaidInv, SessionTypeOK
  <2>2. CASE link'[c] # link[c]
    <3>1. pstate'[link'[c]] = "pending"
      <4>1. SessionTypeOK /\ SessionStep /\ up \in [Slots -> Seq(Message)]
        BY ChatIsSession DEF ChatTypeOK
      <4> QED
        BY <2>2, <4>1, AcceptStep
    <3>2. up'[link'[c]] = <<>>
      BY <2>1, <3>1 DEF PendingEmpty
    <3> QED
      BY <3>1, <3>2 DEF Author
  <2>3. CASE link'[c] = link[c]
    <3>1. up'[link'[c]] = up[link[c]] \/ up'[link'[c]] = <<>>
      BY <1>0, <2>1, <2>3
    <3>2. pstate'[link'[c]] = "connected" =>
             pstate[link[c]] = "connected" /\ data'[link'[c]] = data[link[c]]
      BY <1>0, <2>1, <2>3
    <3> QED
      BY <1>0, <2>1, <2>3, <3>1, <3>2 DEF Author, From, Under
  <2> QED
    BY <2>2, <2>3
<1> QED
  BY <1>1, <1>2, <1>3, <1>4 DEF SaidLocal

(* The Host speaks under an id that no player has.                         *)
LEMMA SendAsSaid ==
  ASSUME NoWrap, ChatTypeOK, MatchInv, SaidInv, SendAs
  PROVE  SaidLocal'
<1> DEFINE e == [id |-> 0, msg |-> NextMessage(Host)]
<1>0. /\ UNCHANGED <<serverVars, enetVars, up, clientVars>> /\ SessionTypeOK
      /\ written' = [written EXCEPT ![Host] = written[Host] + 1] /\ Host \in Senders
      /\ written[Host] < TextLimit[Host] /\ Relay(0, NextMessage(Host)) /\ 0 \in ClientID
      /\ written \in [Senders -> Nat] /\ Clients \subseteq Senders /\ Host \notin Clients
  BY ChatAssumption, SpanAssumption DEF SendAs, Senders, ClientID, ChatTypeOK
<1>1. /\ NextMessage(Host) \in Message /\ NextMessage(Host).name = Host
      /\ NextMessage(Host).text = written[Host] + 1 /\ written[Host] \in Nat
  BY <1>0, NextIsMessage
<1>2. e \in ChatMessage /\ said' = Append(said, e) /\ e.id = 0 /\ e.msg = NextMessage(Host)
  BY <1>0, <1>1, RelayIs
<1> HIDE DEF e
<1>3. \A j \in DOMAIN said' :
         \/ j \in DOMAIN said /\ said'[j] = said[j]
         \/ j = Len(said) + 1 /\ said'[j] = e /\ \A i \in DOMAIN said' : ~(j < i)
  BY <1>2, SaidGrows
<1>4. \A j \in Under(0) : /\ said[j].msg.name = Host /\ said[j].msg.text <= written[Host]
                          /\ said[j].msg.text < written[Host] + 1
  <2> SUFFICES ASSUME NEW j \in Under(0)
               PROVE  /\ said[j].msg.name = Host /\ said[j].msg.text <= written[Host]
                      /\ said[j].msg.text < written[Host] + 1
    OBVIOUS
  <2>1. said[j].msg.name = Host /\ said[j].msg.text <= written[Host]
    BY DEF SaidInv, Signed, From
  <2>2. said[j].msg.text \in Int
    BY ElementTypes, TextIsInt DEF Under
  <2> QED
    BY <1>1, <2>1, <2>2
<1>5. SaidAsWritten'
  <2> SUFFICES ASSUME NEW i \in DOMAIN said', NEW j \in DOMAIN said', i < j, said'[i].id = said'[j].id
               PROVE  Before(said'[i].msg, said'[j].msg)
    BY DEF SaidAsWritten, Before
  <2>1. i \in DOMAIN said /\ said'[i] = said[i]
    BY <1>3
  <2>2. CASE j \in DOMAIN said /\ said'[j] = said[j]
    BY <2>1, <2>2 DEF SaidInv, SaidAsWritten, Before
  <2>3. CASE said'[j] = e
    BY <1>1, <1>2, <1>4, <2>1, <2>3 DEF Under, Before
  <2> QED
    BY <1>3, <2>2, <2>3
<1>6. Signed'
  <2>1. 0 \notin Known' /\ nextID' = nextID
    BY <1>0 DEF SaidInv, Signed, Known, serverVars
  <2>2. \A i \in DOMAIN said' : said'[i].id < nextID'
    BY <1>2, <1>3, <2>1 DEF SaidInv, Signed, MatchInv, Fresh
  <2>3. ASSUME NEW i \in DOMAIN said', said'[i].id = 0
        PROVE  said'[i].msg.name = Host /\ said'[i].msg.text <= written'[Host]
    <3>1. written'[Host] = written[Host] + 1
      BY <1>0
    <3>2. CASE said'[i] = e
      BY <1>1, <1>2, <3>1, <3>2
    <3>3. CASE i \in DOMAIN said /\ said'[i] = said[i]
      <4>1. i \in Under(0)
        BY <2>3, <3>3 DEF Under
      <4>2. said[i].msg.text \in Int /\ said[i].msg.text <= written[Host] /\ said[i].msg.name = Host
        BY <1>4, <4>1, ElementTypes, TextIsInt DEF Under
      <4> QED
        BY <1>1, <3>1, <3>3, <4>2
    <3> QED
      BY <1>3, <3>2, <3>3
  <2> QED
    BY <2>1, <2>2, <2>3 DEF Signed, Under, From
<1>7. \A s \in Slots : pstate[s] = "connected" =>
         \A j \in DOMAIN said' : said'[j].id = data[s] => j \in Under(data[s]) /\ said'[j] = said[j]
  <2> SUFFICES ASSUME NEW s \in Slots, pstate[s] = "connected",
                      NEW j \in DOMAIN said', said'[j].id = data[s]
               PROVE  j \in Under(data[s]) /\ said'[j] = said[j]
    OBVIOUS
  <2>1. data[s] # 0
    BY <1>0, HeldIsKnown DEF Held, SaidInv, Signed
  <2> QED
    BY <1>2, <1>3, <2>1 DEF Under
<1>8. ASSUME NEW s \in Slots PROVE Stream(s)'
  BY <1>0, <1>7 DEF SaidInv, Stream, Under, enetVars
<1>9. ASSUME NEW c \in Clients PROVE Author(c)'
  <2>1. Author(c) /\ written'[c] = written[c] /\ link[c] \in Slots \cup {NoSlot}
    BY <1>0 DEF SaidInv, SessionTypeOK
  <2> QED
    BY <1>0, <1>7, <2>1 DEF Author, From, Under, enetVars
<1> QED
  BY <1>5, <1>6, <1>8, <1>9 DEF SaidLocal

(* The server takes an id under which nothing was said.                    *)
LEMMA ArrivesSaid ==
  ASSUME NoWrap, ChatTypeOK, MatchInv, SaidInv, NEW t \in Slots, Arrives(t)
  PROVE  SaidLocal'
<1>0. /\ UNCHANGED <<said, written, up, link>> /\ ServerConnect(t) /\ SessionTypeOK
      /\ pstate \in [Slots -> PeerState] /\ data \in [Slots -> ClientID]
      /\ link \in [Clients -> Slots \cup {NoSlot}] /\ nextID \in ClientID
  BY DEF Arrives, ServerConnect, ChatTypeOK, SessionTypeOK
<1>1. /\ nextID' = nextID + 1 /\ Known' = Known \cup {nextID} /\ nextID \in Int /\ 0 < nextID
      /\ \A i \in DOMAIN said : said[i].id \in Int /\ said[i].id < nextID
  <2>1. nextID' = nextID + 1
    BY <1>0, NextIDGrows DEF ServerConnect
  <2>2. \A i \in DOMAIN said : said[i].id \in ClientID
    BY ElementTypes DEF ChatMessage
  <2>3. ClientID \subseteq Int
    BY SpanAssumption DEF ClientID
  <2> QED
    BY <1>0, <2>1, <2>2, <2>3, KnownWith DEF SaidInv, Signed, MatchInv, Fresh
<1>2. \A s \in Slots : pstate'[s] = "connected" =>
         \/ s = t /\ data'[s] = nextID
         \/ pstate[s] = "connected" /\ data'[s] = data[s]
  BY <1>0 DEF ServerConnect
<1>3. SaidAsWritten'
  BY <1>0 DEF SaidInv, SaidAsWritten
<1>4. Signed'
  <2>1. \A i \in DOMAIN said : said[i].id < nextID'
    BY <1>1
  <2>2. 0 \notin Known'
    BY <1>1 DEF SaidInv, Signed
  <2> QED
    BY <1>0, <2>1, <2>2 DEF SaidInv, Signed, Under, From
<1>5. \A i \in DOMAIN said : said[i].id # nextID
  BY <1>1
<1>6. ASSUME NEW s \in Slots PROVE Stream(s)'
  BY <1>0, <1>2, <1>5 DEF SaidInv, Stream, Under
<1>7. ASSUME NEW c \in Clients PROVE Author(c)'
  BY <1>0, <1>2, <1>5 DEF SaidInv, Author, Under, From
<1> QED
  BY <1>3, <1>4, <1>6, <1>7 DEF SaidLocal

(* The server says what comes first on a peer, after all it said under the *)
(* peer's id and before all that is still on its way there.                *)
LEMMA OnReceiveSaid ==
  ASSUME NoWrap, ChatTypeOK, MatchInv, SaidInv, NEW t \in Slots, OnReceive(t)
  PROVE  SaidLocal'
<1> DEFINE m == Head(up[t])
           e == [id |-> data[t], msg |-> m]
<1>0. /\ m \in Message /\ data[t] \in ClientID /\ Relay(data[t], m)
      /\ up[t] # <<>> /\ up' = [up EXCEPT ![t] = Tail(up[t])]
      /\ pstate[t] = "connected" /\ Held(t) /\ SessionTypeOK
      /\ UNCHANGED <<serverVars, enetVars, clientVars, written>>
      /\ up \in [Slots -> Seq(Message)]
  BY OnReceiveIs DEF Held, ChatTypeOK
<1>1. e \in ChatMessage /\ said' = Append(said, e) /\ e.id = data[t] /\ e.msg = m
  BY <1>0, RelayIs
<1>2. /\ 1 \in DOMAIN up[t] /\ m = up[t][1]
      /\ \A k \in DOMAIN up'[t] : k + 1 \in DOMAIN up[t] /\ 1 < k + 1 /\ up'[t][k] = up[t][k + 1]
      /\ \A j, k \in DOMAIN up'[t] : j < k => j + 1 < k + 1
  <2> DEFINE q == up[t]
  <2>1. q \in Seq(Message) /\ q # <<>> /\ up'[t] = Tail(q)
    BY <1>0
  <2> HIDE DEF q
  <2>2. /\ 1 \in DOMAIN q /\ Head(q) = q[1] /\ DOMAIN Tail(q) = 1 .. Len(q) - 1
        /\ \A k \in 1 .. Len(q) - 1 : k + 1 \in DOMAIN q /\ 1 < k + 1 /\ Tail(q)[k] = q[k + 1]
        /\ \A j, k \in 1 .. Len(q) - 1 : j < k => j + 1 < k + 1
    BY <2>1
  <2> QED
    BY <2>1, <2>2 DEF q
<1> HIDE DEF m, e
<1>3. \A j \in DOMAIN said' :
         \/ j \in DOMAIN said /\ said'[j] = said[j]
         \/ j = Len(said) + 1 /\ said'[j] = e /\ \A i \in DOMAIN said' : ~(j < i)
  BY <1>1, SaidGrows
<1>4. /\ Stream(t) /\ data[t] \in Known /\ data[t] < nextID /\ data[t] # 0
      /\ \A s \in Slots : s # t /\ pstate[s] = "connected" => data[s] # data[t]
  BY <1>0, HeldIsKnown DEF SaidInv, Signed, Held
<1>5. SaidAsWritten'
  <2> SUFFICES ASSUME NEW i \in DOMAIN said', NEW j \in DOMAIN said', i < j, said'[i].id = said'[j].id
               PROVE  Before(said'[i].msg, said'[j].msg)
    BY DEF SaidAsWritten, Before
  <2>1. i \in DOMAIN said /\ said'[i] = said[i]
    BY <1>3
  <2>2. CASE j \in DOMAIN said /\ said'[j] = said[j]
    BY <2>1, <2>2 DEF SaidInv, SaidAsWritten, Before
  <2>3. CASE said'[j] = e
    <3>1. i \in Under(data[t])
      BY <1>1, <2>1, <2>3 DEF Under
    <3>2. Before(said[i].msg, up[t][1])
      BY <1>0, <1>2, <1>4, <3>1 DEF Stream
    <3> QED
      BY <1>1, <1>2, <2>1, <2>3, <3>2
  <2> QED
    BY <1>3, <2>2, <2>3
<1>6. Signed'
  <2>1. 0 \notin Known' /\ nextID' = nextID /\ written' = written
    BY <1>0 DEF SaidInv, Signed, Known, serverVars
  <2>2. \A i \in DOMAIN said' : said'[i].id < nextID'
    BY <1>1, <1>3, <1>4, <2>1 DEF SaidInv, Signed
  <2>3. \A i \in DOMAIN said' : said'[i].id = 0 => i \in Under(0) /\ said'[i] = said[i]
    BY <1>1, <1>3, <1>4 DEF Under
  <2> QED
    BY <2>1, <2>2, <2>3 DEF SaidInv, Signed, Under, From
<1>7. \A s \in Slots : pstate[s] = "connected" =>
         \A j \in DOMAIN said' : said'[j].id = data[s] =>
            \/ j \in Under(data[s]) /\ said'[j] = said[j]
            \/ s = t /\ said'[j] = e
  BY <1>1, <1>3, <1>4 DEF Under
<1>8. ASSUME NEW s \in Slots PROVE Stream(s)'
  <2>1. CASE s = t
    <3>1. ASSUME NEW j \in DOMAIN up'[t], NEW k \in DOMAIN up'[t], j < k
          PROVE  Before(up'[t][j], up'[t][k])
      BY <1>2, <1>4, <3>1 DEF Stream
    <3>2. ASSUME NEW j \in DOMAIN said', said'[j].id = data[t], NEW k \in DOMAIN up'[t]
          PROVE  Before(said'[j].msg, up'[t][k])
      <4>1. CASE said'[j] = e
        BY <1>1, <1>2, <1>4, <4>1 DEF Stream
      <4>2. CASE j \in Under(data[t]) /\ said'[j] = said[j]
        BY <1>0, <1>2, <1>4, <4>2 DEF Stream
      <4> QED
        BY <1>0, <1>7, <3>2, <4>1, <4>2
    <3> QED
      BY <1>0, <2>1, <3>1, <3>2 DEF Stream, Under, Before, enetVars
  <2>2. CASE s # t
    <3>1. up'[s] = up[s] /\ Stream(s)
      BY <1>0, <2>2 DEF SaidInv
    <3> QED
      BY <1>0, <1>7, <2>2, <3>1 DEF Stream, Under, enetVars
  <2> QED
    BY <2>1, <2>2
<1>9. ASSUME NEW c \in Clients PROVE Author(c)'
  <2> SUFFICES ASSUME link[c] # NoSlot PROVE Author(c)'
    BY <1>0 DEF Author, enetVars
  <2>1. Author(c) /\ link[c] \in Slots
    BY <1>0 DEF SaidInv, SessionTypeOK
  <2>2. CASE link[c] = t
    <3>1. \A k \in DOMAIN up'[t] : From(up'[t][k], c)
      BY <1>2, <2>1, <2>2 DEF Author
    <3>2. From(e.msg, c)
      BY <1>1, <1>2, <2>1, <2>2 DEF Author
    <3>3. \A j \in DOMAIN said' : said'[j].id = data[t] => From(said'[j].msg, c)
      BY <1>0, <1>7, <2>1, <2>2, <3>2 DEF Author
    <3> QED
      BY <1>0, <2>2, <3>1, <3>3 DEF Author, From, Under, enetVars
  <2>3. CASE link[c] # t
    <3>1. up'[link[c]] = up[link[c]]
      BY <1>0, <2>1, <2>3
    <3> QED
      BY <1>0, <1>7, <2>1, <2>3, <3>1 DEF Author, From, Under, enetVars
  <2> QED
    BY <2>2, <2>3
<1> QED
  BY <1>5, <1>6, <1>8, <1>9 DEF SaidLocal

(* A client puts its next message behind those it wrote before, on its own *)
(* peer.                                                                   *)
LEMMA SendTextSaid ==
  ASSUME ChatTypeOK, LinkInv, SaidInv, NEW c \in Clients, SendText(c)
  PROVE  SaidLocal'
<1> DEFINE open == {s \in Slots : link[c] = s /\ pstate[s] \in {"acknowledged", "connected"}}
           m == NextMessage(c)
<1>0. /\ UNCHANGED <<serverVars, enetVars, down, clientVars, said>> /\ SessionTypeOK
      /\ c \in Senders /\ written[c] < TextLimit[c] /\ c # Host /\ Host \in Senders
      /\ written' = [written EXCEPT ![c] = written[c] + 1]
      /\ up' = AppendTo(up, open, m) /\ written \in [Senders -> Nat]
      /\ up \in [Slots -> Seq(Message)] /\ link \in [Clients -> Slots \cup {NoSlot}]
  BY ChatAssumption DEF SendText, ClientSend, ChatTypeOK, SessionTypeOK, Senders
<1>1. m \in Message /\ m.name = c /\ m.text = written[c] + 1 /\ written[c] \in Nat
  BY <1>0, NextIsMessage
<1> HIDE DEF m
<1>2. \A s \in Slots : up'[s] = up[s] \/ (s \in open /\ up'[s] = Append(up[s], m))
  BY <1>0 DEF AppendTo
<1>3. \A s \in open : link[c] = s /\ link[c] # NoSlot /\ Author(c)
  BY NoSlotAssumption DEF SaidInv
<1> HIDE DEF open
<1>4. \A n \in Senders : written'[n] \in {written[n], written[n] + 1}
  BY <1>0
<1>5. \A n \in Senders, x \in Message : From(x, n) => x.name = n /\ x.text <= written'[n]
  BY <1>4, FromGrows
<1>6. \A x \in Message : From(x, c) => Before(x, m)
  <2> SUFFICES ASSUME NEW x \in Message, From(x, c) PROVE Before(x, m)
    OBVIOUS
  <2>1. x.text \in Int
    BY TextIsInt
  <2> QED
    BY <1>1, <2>1 DEF From, Before
<1>7. \A s \in Slots : up'[s] = Append(up[s], m) =>
         \A k \in DOMAIN up'[s] :
            \/ k \in DOMAIN up[s] /\ up'[s][k] = up[s][k]
            \/ up'[s][k] = m /\ \A j \in DOMAIN up'[s] : ~(k < j)
  <2> SUFFICES ASSUME NEW s \in Slots, up'[s] = Append(up[s], m)
               PROVE  \A k \in DOMAIN up'[s] :
                         \/ k \in DOMAIN up[s] /\ up'[s][k] = up[s][k]
                         \/ up'[s][k] = m /\ \A j \in DOMAIN up'[s] : ~(k < j)
    OBVIOUS
  <2> DEFINE q == up[s]
             r == Append(q, m)
  <2>1. q \in Seq(Message) /\ up'[s] = r
    BY <1>0
  <2> HIDE DEF q
  <2>2. /\ Len(q) \in Nat /\ DOMAIN q = 1 .. Len(q) /\ DOMAIN r = 1 .. Len(q) + 1
        /\ r[Len(q) + 1] = m /\ \A k \in 1 .. Len(q) : r[k] = q[k]
    BY <1>1, <2>1
  <2> HIDE DEF r
  <2>3. \A k \in DOMAIN r : \/ k \in DOMAIN q /\ r[k] = q[k]
                            \/ r[k] = m /\ \A j \in DOMAIN r : ~(k < j)
    BY <2>2
  <2> QED
    BY <2>1, <2>3 DEF q
<1>8. SaidAsWritten'
  BY <1>0 DEF SaidInv, SaidAsWritten
<1>9. Signed'
  <2>1. \A i \in Under(0) : said[i].msg.name = Host /\ said[i].msg.text <= written'[Host]
    BY <1>0, <1>5, ElementTypes DEF SaidInv, Signed, Under
  <2> QED
    BY <1>0, <2>1 DEF SaidInv, Signed, Under, From, Known, serverVars
<1>10. ASSUME NEW s \in Slots PROVE Stream(s)'
  <2>1. Stream(s)
    BY DEF SaidInv
  <2>2. CASE up'[s] = up[s]
    BY <1>0, <2>1, <2>2 DEF Stream, Under, enetVars
  <2>3. CASE s \in open /\ up'[s] = Append(up[s], m)
    <3>1. \A k \in DOMAIN up[s] : Before(up[s][k], m)
      BY <1>3, <1>6, <2>3, ElementTypes DEF Author
    <3>2. pstate[s] = "connected" => \A i \in Under(data[s]) : Before(said[i].msg, m)
      BY <1>3, <1>6, <2>3, ElementTypes DEF Author, Under
    <3>3. ASSUME NEW j \in DOMAIN up'[s], NEW k \in DOMAIN up'[s], j < k
          PROVE  Before(up'[s][j], up'[s][k])
      BY <1>7, <2>1, <2>3, <3>1, <3>3 DEF Stream
    <3>4. ASSUME pstate[s] = "connected", NEW i \in Under(data[s]), NEW k \in DOMAIN up'[s]
          PROVE  Before(said[i].msg, up'[s][k])
      BY <1>7, <2>1, <2>3, <3>2, <3>4 DEF Stream
    <3> QED
      BY <1>0, <3>3, <3>4 DEF Stream, Under, Before, enetVars
  <2> QED
    BY <1>2, <2>2, <2>3
<1>11. ASSUME NEW d \in Clients PROVE Author(d)'
  <2> SUFFICES ASSUME link[d] # NoSlot PROVE Author(d)'
    BY <1>0 DEF Author, enetVars
  <2> DEFINE s == link[d]
  <2>1. Author(d) /\ s \in Slots /\ d \in Senders
    BY <1>0 DEF SaidInv, Senders
  <2>2. pstate[s] = "connected" =>
           \A i \in Under(data[s]) : said[i].msg.name = d /\ said[i].msg.text <= written'[d]
    BY <1>5, <2>1, ElementTypes DEF Author, Under
  <2>3. \A k \in DOMAIN up[s] : up[s][k].name = d /\ up[s][k].text <= written'[d]
    BY <1>5, <2>1, ElementTypes DEF Author
  <2>4. ASSUME NEW k \in DOMAIN up'[s]
        PROVE  up'[s][k].name = d /\ up'[s][k].text <= written'[d]
    <3>1. CASE up'[s] = up[s]
      BY <2>3, <2>4, <3>1
    <3>2. CASE s \in open /\ up'[s] = Append(up[s], m)
      <4>1. d = c
        BY <1>3, <3>2 DEF LinkInv, LinksAgree
      <4>2. written'[c] = written[c] + 1 /\ m.text <= written'[c]
        BY <1>0, <1>1
      <4> QED
        BY <1>1, <1>7, <2>1, <2>3, <3>2, <4>1, <4>2
    <3> QED
      BY <1>2, <2>1, <3>1, <3>2
  <2> QED
    BY <1>0, <2>2, <2>4 DEF Author, From, Under, enetVars
<1> QED
  BY <1>8, <1>9, <1>10, <1>11 DEF SaidLocal

(* Whatever is said under one id comes from one player, in the order in    *)
(* which he wrote it and once, even when his ENet peer served another one  *)
(* before, as long as no id is used twice.                                 *)
THEOREM SaidCorrect == NoWrap => (ChatSpec => []SaidAsWritten)
<1> SUFFICES ASSUME NoWrap PROVE ChatSpec => []SaidAsWritten
  OBVIOUS
<1>1. ChatInit => MatchInv /\ SaidInv
  <2> SUFFICES ASSUME ChatInit PROVE MatchInv /\ SaidInv
    OBVIOUS
  <2>1. MatchInv
    BY MatchInit DEF ChatInit
  <2>2. SaidInv
    BY NoSlotAssumption DEF ChatInit, Init, SaidInv, SaidAsWritten, Signed, Under, Known,
       PendingEmpty, Stream, Author
  <2> QED
    BY <2>1, <2>2
<1>2. ChatTypeOK /\ LinkInv /\ MatchInv /\ [ChatNext]_chatVars => MatchInv'
  BY ChatIsSession, MatchStep DEF ChatTypeOK
<1>3. ChatTypeOK /\ LinkInv /\ MatchInv /\ SaidInv /\ ChatNext => SaidInv'
  <2> SUFFICES ASSUME ChatTypeOK, LinkInv, MatchInv, SaidInv, ChatNext PROVE SaidInv'
    OBVIOUS
  <2>1. PendingEmpty'
    BY PendingEmptyStep DEF SaidInv
  <2>2. SaidLocal'
    BY <2>1, ChatSteps, QuietSaid, SendAsSaid, OnReceiveSaid, ArrivesSaid, SendTextSaid
  <2> QED
    BY <2>1, <2>2 DEF SaidInv, SaidLocal
<1>4. SaidInv /\ UNCHANGED chatVars => SaidInv'
  BY DEF SaidInv, SaidAsWritten, Signed, Under, From, Known, PendingEmpty, Stream, Author, Before,
     chatVars, chatLocal, sessionVars, serverVars, enetVars, clientVars
<1>5. SaidInv => SaidAsWritten
  BY DEF SaidInv
<1> QED
  BY <1>1, <1>2, <1>3, <1>4, <1>5, ChatLinks, PTL DEF ChatSpec

-----------------------------------------------------------------------------
(* Nobody hears a message twice.                                           *)

Wrote(m) == m.text <= written[m.name]

(* Every message is on its way to the server in one place only, and is not *)
(* yet said there.                                                         *)
UpOnce ==
    /\ \A s \in Slots : \A k \in DOMAIN up[s] : Wrote(up[s][k])
    /\ \A s, t \in Slots : \A j \in DOMAIN up[s], k \in DOMAIN up[t] :
          up[s][j] = up[t][k] => s = t /\ j = k
    /\ \A s \in Slots : \A k \in DOMAIN up[s] : \A i \in DOMAIN said : said[i].msg # up[s][k]

SaidWrote == \A i \in DOMAIN said : Wrote(said[i].msg)

(* A sequence of messages, each of them said, none of them twice.          *)
Told(q) ==
    /\ IsInjective(q)
    /\ \A k \in DOMAIN q : \E i \in DOMAIN said : said[i].msg = q[k]

OnceInv == UpOnce /\ SaidWrote /\ \A c \in Clients : Told(Coming(c))

(* A part of what was told.                                                *)
LEMMA ToldPart ==
  ASSUME NEW q, Told(q), NEW r, NEW n \in Nat,
         \A k \in DOMAIN r : k \in Int /\ k + n \in DOMAIN q /\ r[k] = q[k + n]
  PROVE  Told(r)
<1>1. ASSUME NEW j \in DOMAIN r, NEW k \in DOMAIN r, r[j] = r[k] PROVE j = k
  <2>1. j + n \in DOMAIN q /\ k + n \in DOMAIN q /\ q[j + n] = q[k + n]
    BY <1>1
  <2>2. j + n = k + n
    BY <2>1 DEF Told, IsInjective
  <2> QED
    BY <2>2
<1>2. \A k \in DOMAIN r : \E i \in DOMAIN said : said[i].msg = r[k]
  BY DEF Told
<1> QED
  BY <1>1, <1>2 DEF Told, IsInjective

(* Fewer of them: the first one is gone, or only the first ones are left.  *)
LEMMA ToldLess ==
  ASSUME NEW q \in Seq(Message), NEW d \in Seq(Message), Told(q \o d)
  PROVE  Told(q) /\ Told(<<>>) /\ (q \o d # <<>> => Told(Tail(q \o d)))
<1> DEFINE all == q \o d
<1>1. /\ all \in Seq(Message) /\ Len(q) \in Nat /\ DOMAIN q = 1 .. Len(q)
      /\ \A k \in 1 .. Len(q) : k + 0 \in DOMAIN all /\ q[k] = all[k + 0]
  OBVIOUS
<1> HIDE DEF all
<1>2. Told(q)
  <2>1. Told(all) /\ \A k \in DOMAIN q : k \in Int /\ k + 0 \in DOMAIN all /\ q[k] = all[k + 0]
    BY <1>1 DEF all
  <2>2. 0 \in Nat
    OBVIOUS
  <2> QED
    BY <2>1, <2>2, ToldPart
<1>3. Told(<<>>)
  BY DEF Told, IsInjective
<1>4. ASSUME all # <<>> PROVE Told(Tail(all))
  <2>1. \A k \in DOMAIN Tail(all) : k \in Int /\ k + 1 \in DOMAIN all /\ Tail(all)[k] = all[k + 1]
    BY <1>1, <1>4
  <2> QED
    BY <2>1, ToldPart DEF all
<1> QED
  BY <1>2, <1>3, <1>4 DEF all

(* A message that was not said before may be told to anybody.              *)
LEMMA ToldMore ==
  ASSUME ChatTypeOK, NEW q \in Seq(Message), Told(q), NEW e \in ChatMessage,
         said' = Append(said, e), \A i \in DOMAIN said : said[i].msg # e.msg
  PROVE  Told(q)' /\ Told(Append(q, e.msg))'
<1> DEFINE r == Append(q, e.msg)
<1>1. /\ \A i \in DOMAIN said : i \in DOMAIN said' /\ said'[i] = said[i]
      /\ \E i \in DOMAIN said' : said'[i] = e
  <2>1. said \in Seq(ChatMessage)
    BY DEF ChatTypeOK
  <2>2. Len(said) + 1 \in DOMAIN said' /\ said'[Len(said) + 1] = e
    BY <2>1
  <2> QED
    BY <2>1, <2>2
<1>2. e.msg \in Message
  BY DEF ChatMessage
<1>3. /\ \A k \in DOMAIN r : \/ k \in DOMAIN q /\ r[k] = q[k]
                             \/ k = Len(q) + 1 /\ r[k] = e.msg
      /\ \A k \in DOMAIN q : k # Len(q) + 1
  BY <1>2
<1> HIDE DEF r
<1>4. \A k \in DOMAIN q : q[k] # e.msg
  BY DEF Told
<1>5. \A k \in DOMAIN r : \E i \in DOMAIN said' : said'[i].msg = r[k]
  BY <1>1, <1>3 DEF Told
<1>6. \A k \in DOMAIN q : \E i \in DOMAIN said' : said'[i].msg = q[k]
  BY <1>1 DEF Told
<1>7. IsInjective(r)
  BY <1>3, <1>4 DEF Told, IsInjective
<1> QED
  BY <1>5, <1>6, <1>7 DEF Told, r

(* What is on its way to a client stays, or goes with its connection.      *)
LEMMA DownKept ==
  ASSUME ChatTypeOK, ChatUnderneath, NEW c \in Clients
  PROVE  UNCHANGED <<said, heard>> /\ (down'[c] = down[c] \/ down'[c] = <<>>)
<1>0. down \in [Clients -> Seq(Message)] /\ UNCHANGED <<said, heard>>
  BY DEF ChatTypeOK, ChatUnderneath, chatLocal
<1>1. ASSUME NEW d \in Clients, down' = [down EXCEPT ![d] = <<>>]
      PROVE  down'[c] = down[c] \/ down'[c] = <<>>
  BY <1>0, <1>1
<1>2. \/ down' = down
      \/ \E d \in Clients : down' = [down EXCEPT ![d] = <<>>]
  BY DEF ChatUnderneath, Background, ServerStart, ConnectBegin, ConnectRefused, ConnectFails,
     DisconnectBegin, DisconnectEnd, Accept, ReapPending, ServerClose, ConnectSucceeds,
     ClientDisconnect
<1> QED
  BY <1>0, <1>1, <1>2

(* The two parts of OnceInv about the server's side.                       *)
ServerOnce == UpOnce /\ SaidWrote

(* Nothing is said or written: packets only vanish.                        *)
LEMMA QuietOnce == ASSUME ServerOnce, QuietStep PROVE ServerOnce'
<1>1. /\ UNCHANGED <<said, written>>
      /\ \A s \in Slots : \A k \in DOMAIN up'[s] : k \in DOMAIN up[s] /\ up'[s][k] = up[s][k]
  BY DEF QuietStep
<1>2. UpOnce'
  BY <1>1 DEF ServerOnce, UpOnce, Wrote
<1>3. SaidWrote'
  BY <1>1 DEF ServerOnce, SaidWrote, Wrote
<1> QED
  BY <1>2, <1>3 DEF ServerOnce

(* A sender's next message is on its way nowhere and was not said.         *)
LEMMA NextIsNew ==
  ASSUME ChatTypeOK, ServerOnce, NEW n \in Senders, written[n] < TextLimit[n]
  PROVE  /\ \A s \in Slots : \A k \in DOMAIN up[s] : up[s][k] # NextMessage(n)
         /\ \A i \in DOMAIN said : said[i].msg # NextMessage(n)
<1>1. NextMessage(n).name = n /\ NextMessage(n).text = written[n] + 1 /\ written[n] \in Nat
  BY NextIsMessage
<1>2. ~ Wrote(NextMessage(n))
  BY <1>1 DEF Wrote
<1> QED
  BY <1>2 DEF ServerOnce, UpOnce, SaidWrote

(* Whoever has written more has still written what he had.                 *)
LEMMA WroteGrows ==
  ASSUME ChatTypeOK, NEW n \in Senders, written' = [written EXCEPT ![n] = written[n] + 1]
  PROVE  \A m \in Message : Wrote(m) => m.text <= written'[m.name]
<1> SUFFICES ASSUME NEW m \in Message, m.text <= written[m.name] PROVE m.text <= written'[m.name]
  BY DEF Wrote
<1>1. m.text \in Int /\ m.name \in Senders
  BY TextIsInt DEF Message
<1>2. written \in [Senders -> Nat]
  BY DEF ChatTypeOK
<1>3. written'[m.name] \in {written[m.name], written[m.name] + 1} /\ written[m.name] \in Nat
  BY <1>1, <1>2
<1> QED
  BY <1>1, <1>3

(* What the server says of a message becomes true when it is said: it is   *)
(* told to those who are reached, behind the others.                       *)
LEMMA RelayTold ==
  ASSUME ChatTypeOK, OnceInv, NEW i \in ClientID, NEW m \in Message, Relay(i, m),
         \A j \in DOMAIN said : said[j].msg # m, UNCHANGED heard
  PROVE  \A c \in Clients : Told(Coming(c))'
<1> DEFINE e == [id |-> i, msg |-> m]
<1>1. /\ e \in ChatMessage /\ e.msg = m /\ said' = Append(said, e)
      /\ \A c \in Clients :
            down'[c] = IF c \in Reached(pstate, link) THEN Append(down[c], m) ELSE down[c]
  BY RelayIs
<1> HIDE DEF e
<1> SUFFICES ASSUME NEW c \in Clients PROVE Told(Coming(c))'
  OBVIOUS
<1>2. heard[c] \in Seq(Message) /\ down[c] \in Seq(Message) /\ Coming(c) \in Seq(Message)
  BY HearTypes
<1> DEFINE q == heard[c]
           d == down[c]
<1>3. PICK all : all = q \o d
  OBVIOUS
<1>4. all \in Seq(Message) /\ Told(all)
  BY <1>2, <1>3 DEF OnceInv, Coming
<1>5. IsInjective(all) /\ IsInjective(Append(all, m))
      /\ (\A k \in DOMAIN all : \E j \in DOMAIN said' : said'[j].msg = all[k])
      /\ (\A k \in DOMAIN Append(all, m) : \E j \in DOMAIN said' : said'[j].msg = Append(all, m)[k])
  <2>1. Told(all)' /\ Told(Append(all, e.msg))'
    BY <1>1, <1>4, ToldMore
  <2> QED
    BY <1>1, <1>4, <2>1 DEF Told
<1>6. q \in Seq(Message) /\ d \in Seq(Message)
  BY <1>2
<1>7. Coming(c)' = all \/ Coming(c)' = Append(all, m)
  <2> HIDE DEF q, d
  <2>1. q \o Append(d, m) = Append(q \o d, m)
    BY <1>6, Behind
  <2> QED
    BY <1>1, <1>3, <2>1 DEF Coming, q, d
<1> QED
  BY <1>5, <1>7 DEF Told

(* The host says its next message.                                         *)
LEMMA SendAsOnce == ASSUME ChatTypeOK, OnceInv, SendAs PROVE OnceInv'
<1>0. /\ UNCHANGED <<up, heard>> /\ Host \in Senders /\ written[Host] < TextLimit[Host]
      /\ written' = [written EXCEPT ![Host] = written[Host] + 1] /\ 0 \in ClientID
      /\ Relay(0, NextMessage(Host)) /\ written \in [Senders -> Nat] /\ ServerOnce
  BY SpanAssumption DEF SendAs, Senders, ClientID, ChatTypeOK, OnceInv, ServerOnce
<1>1. /\ NextMessage(Host) \in Message /\ NextMessage(Host).name = Host
      /\ NextMessage(Host).text = written[Host] + 1 /\ written[Host] + 1 \in Nat
  BY <1>0, NextIsMessage
<1>2. PICK m : m = NextMessage(Host)
  OBVIOUS
<1>3. PICK e : e = [id |-> 0, msg |-> m]
  OBVIOUS
<1>4. e \in ChatMessage /\ said' = Append(said, e) /\ e.msg = m
  BY <1>0, <1>1, <1>2, <1>3, RelayIs
<1>5. /\ \A s \in Slots : \A k \in DOMAIN up[s] : up[s][k] # m
      /\ \A i \in DOMAIN said : said[i].msg # m
  BY <1>0, <1>2, NextIsNew
<1>6. \A j \in DOMAIN said' : (j \in DOMAIN said /\ said'[j] = said[j]) \/ said'[j] = e
  BY <1>4, SaidGrows
<1>7. \A x \in Message : Wrote(x) => x.text <= written'[x.name]
  BY <1>0, WroteGrows
<1>8. m.text <= written'[m.name]
  BY <1>0, <1>1, <1>2
<1>9. UpOnce'
  BY <1>0, <1>4, <1>5, <1>6, <1>7, ElementTypes DEF ServerOnce, UpOnce, Wrote
<1>10. SaidWrote'
  BY <1>0, <1>4, <1>6, <1>7, <1>8, ElementTypes DEF ServerOnce, SaidWrote, Wrote
<1>11. \A c \in Clients : Told(Coming(c))'
  BY <1>0, <1>1, <1>2, <1>5, RelayTold
<1> QED
  BY <1>9, <1>10, <1>11 DEF OnceInv

(* The server says what comes first on a peer, and has it there no longer. *)
LEMMA OnReceiveOnce ==
  ASSUME ChatTypeOK, OnceInv, NEW t \in Slots, OnReceive(t) PROVE OnceInv'
<1>1. PICK m : m = Head(up[t])
  OBVIOUS
<1>2. PICK e : e = [id |-> data[t], msg |-> m]
  OBVIOUS
<1>3. /\ m \in Message /\ data[t] \in ClientID /\ Relay(data[t], m)
      /\ up[t] # <<>> /\ up' = [up EXCEPT ![t] = Tail(up[t])] /\ up[t] \in Seq(Message)
      /\ UNCHANGED <<heard, written>> /\ up \in [Slots -> Seq(Message)] /\ ServerOnce
  BY <1>1, OnReceiveIs DEF ChatTypeOK, OnceInv, ServerOnce
<1>4. e \in ChatMessage /\ said' = Append(said, e) /\ e.msg = m
  BY <1>2, <1>3, RelayIs
<1>5. /\ 1 \in DOMAIN up[t] /\ up[t][1] = m
      /\ \A k \in DOMAIN Tail(up[t]) :
            /\ k \in Nat /\ k + 1 \in DOMAIN up[t] /\ k + 1 # 1
            /\ Tail(up[t])[k] = up[t][k + 1]
  <2> DEFINE q == up[t]
  <2>1. q \in Seq(Message) /\ q # <<>>
    BY <1>3
  <2> HIDE DEF q
  <2>2. /\ 1 \in DOMAIN q /\ Head(q) = q[1]
        /\ \A k \in DOMAIN Tail(q) :
              k \in Nat /\ k + 1 \in DOMAIN q /\ k + 1 # 1 /\ Tail(q)[k] = q[k + 1]
    BY <2>1
  <2> QED
    BY <1>1, <2>2 DEF q
<1>6. \A s \in Slots : \A k \in DOMAIN up'[s] :
         \/ s # t /\ k \in DOMAIN up[s] /\ up'[s][k] = up[s][k]
         \/ s = t /\ k \in Nat /\ k + 1 \in DOMAIN up[t] /\ k + 1 # 1 /\ up'[s][k] = up[t][k + 1]
  BY <1>3, <1>5
<1>7. \A j \in DOMAIN said' : (j \in DOMAIN said /\ said'[j] = said[j]) \/ said'[j] = e
  BY <1>4, SaidGrows
<1>8. UpOnce'
  <2>1. \A s \in Slots : \A k \in DOMAIN up'[s] : Wrote(up'[s][k]) /\ up'[s][k] # m
    BY <1>3, <1>5, <1>6 DEF ServerOnce, UpOnce
  <2>2. ASSUME NEW s \in Slots, NEW u \in Slots, NEW j \in DOMAIN up'[s], NEW k \in DOMAIN up'[u],
               up'[s][j] = up'[u][k]
        PROVE  s = u /\ j = k
    <3>1. CASE s # t /\ u # t
      BY <1>3, <1>6, <2>2, <3>1 DEF ServerOnce, UpOnce
    <3>2. CASE s = t /\ u = t
      <4>1. /\ j + 1 \in DOMAIN up[t] /\ k + 1 \in DOMAIN up[t] /\ up[t][j + 1] = up[t][k + 1]
            /\ j \in Nat /\ k \in Nat
        BY <1>6, <2>2, <3>2
      <4>2. j + 1 = k + 1
        BY <1>3, <4>1 DEF ServerOnce, UpOnce
      <4> QED
        BY <3>2, <4>1, <4>2
    <3>3. CASE s # t /\ u = t
      BY <1>3, <1>6, <2>2, <3>3 DEF ServerOnce, UpOnce
    <3>4. CASE s = t /\ u # t
      BY <1>3, <1>6, <2>2, <3>4 DEF ServerOnce, UpOnce
    <3> QED
      BY <3>1, <3>2, <3>3, <3>4
  <2>3. \A s \in Slots : \A k \in DOMAIN up'[s] : \A i \in DOMAIN said' : said'[i].msg # up'[s][k]
    BY <1>3, <1>4, <1>6, <1>7, <2>1 DEF ServerOnce, UpOnce
  <2>4. \A s \in Slots : \A k \in DOMAIN up'[s] : up'[s][k].text <= written'[up'[s][k].name]
    BY <1>3, <2>1 DEF Wrote
  <2> QED
    BY <2>2, <2>3, <2>4 DEF UpOnce, Wrote
<1>9. SaidWrote'
  <2>1. Wrote(m)
    BY <1>3, <1>5 DEF ServerOnce, UpOnce
  <2> QED
    BY <1>3, <1>4, <1>7, <2>1 DEF ServerOnce, SaidWrote, Wrote
<1>10. \A c \in Clients : Told(Coming(c))'
  <2>1. \A i \in DOMAIN said : said[i].msg # m
    BY <1>3, <1>5 DEF ServerOnce, UpOnce
  <2> QED
    BY <1>3, <2>1, RelayTold
<1> QED
  BY <1>8, <1>9, <1>10 DEF OnceInv

(* A client sends its next message, on its own peer at most.               *)
LEMMA SendTextOnce ==
  ASSUME ChatTypeOK, OnceInv, NEW c \in Clients, SendText(c) PROVE OnceInv'
<1> DEFINE open == {s \in Slots : link[c] = s /\ pstate[s] \in {"acknowledged", "connected"}}
<1>1. PICK m : m = NextMessage(c)
  OBVIOUS
<1>2. /\ UNCHANGED <<said, heard, down>> /\ c \in Senders /\ written[c] < TextLimit[c]
      /\ written' = [written EXCEPT ![c] = written[c] + 1] /\ up' = AppendTo(up, open, m)
      /\ up \in [Slots -> Seq(Message)] /\ written \in [Senders -> Nat] /\ ServerOnce
  BY <1>1 DEF SendText, ClientSend, ChatTypeOK, Senders, OnceInv, ServerOnce
<1>3. m \in Message /\ m.name = c /\ m.text = written[c] + 1 /\ written[c] + 1 \in Nat
  BY <1>1, <1>2, NextIsMessage
<1>4. \A s \in Slots : up'[s] = up[s] \/ (link[c] = s /\ up'[s] = Append(up[s], m))
  BY <1>2 DEF AppendTo
<1> HIDE DEF open
<1>5. \A s \in Slots : \A k \in DOMAIN up'[s] :
         \/ k \in DOMAIN up[s] /\ up'[s][k] = up[s][k]
         \/ link[c] = s /\ k = Len(up[s]) + 1 /\ up'[s][k] = m
  <2> SUFFICES ASSUME NEW s \in Slots, NEW k \in DOMAIN up'[s]
               PROVE  \/ k \in DOMAIN up[s] /\ up'[s][k] = up[s][k]
                      \/ link[c] = s /\ k = Len(up[s]) + 1 /\ up'[s][k] = m
    OBVIOUS
  <2> DEFINE q == up[s]
             r == Append(q, m)
  <2>1. q \in Seq(Message) /\ (up'[s] = q \/ (link[c] = s /\ up'[s] = r))
    BY <1>2, <1>4
  <2> HIDE DEF q
  <2>2. \A j \in DOMAIN r : (j \in DOMAIN q /\ r[j] = q[j]) \/ (j = Len(q) + 1 /\ r[j] = m)
    BY <1>3, <2>1
  <2> HIDE DEF r
  <2> QED
    BY <2>1, <2>2 DEF q
<1>6. /\ \A s \in Slots : \A k \in DOMAIN up[s] : up[s][k] # m
      /\ \A i \in DOMAIN said : said[i].msg # m
  BY <1>1, <1>2, NextIsNew
<1>7. \A x \in Message : Wrote(x) => x.text <= written'[x.name]
  BY <1>2, WroteGrows
<1>8. m.text <= written'[m.name]
  BY <1>2, <1>3
<1>9. UpOnce'
  <2>1. \A s \in Slots : \A k \in DOMAIN up'[s] : up'[s][k].text <= written'[up'[s][k].name]
    BY <1>2, <1>5, <1>7, <1>8, ElementTypes DEF ServerOnce, UpOnce
  <2>2. \A s, u \in Slots : \A j \in DOMAIN up'[s], k \in DOMAIN up'[u] :
           up'[s][j] = up'[u][k] => s = u /\ j = k
    <3> SUFFICES ASSUME NEW s \in Slots, NEW u \in Slots, NEW j \in DOMAIN up'[s],
                        NEW k \in DOMAIN up'[u], up'[s][j] = up'[u][k]
                 PROVE  s = u /\ j = k
      OBVIOUS
    <3>1. CASE j \in DOMAIN up[s] /\ up'[s][j] = up[s][j]
      <4>0. up[s][j] # m
        BY <1>6, <3>1
      <4>2. up'[u][k] # m
        BY <3>1, <4>0
      <4>1. k \in DOMAIN up[u] /\ up'[u][k] = up[u][k]
        BY <1>5, <4>2
      <4> QED
        BY <1>2, <3>1, <4>1 DEF ServerOnce, UpOnce
    <3>2. CASE link[c] = s /\ j = Len(up[s]) + 1 /\ up'[s][j] = m
      <4>1. link[c] = u /\ k = Len(up[u]) + 1
        BY <1>5, <1>6, <3>2
      <4> QED
        BY <3>2, <4>1
    <3> QED
      BY <1>5, <3>1, <3>2
  <2>3. \A s \in Slots : \A k \in DOMAIN up'[s] : \A i \in DOMAIN said : said[i].msg # up'[s][k]
    BY <1>2, <1>5, <1>6 DEF ServerOnce, UpOnce
  <2> QED
    BY <1>2, <2>1, <2>2, <2>3 DEF UpOnce, Wrote
<1>10. SaidWrote'
  BY <1>2, <1>7, ElementTypes DEF ServerOnce, SaidWrote, Wrote
<1>11. \A d \in Clients : Told(Coming(d))'
  BY <1>2 DEF OnceInv, Told, Coming
<1> QED
  BY <1>9, <1>10, <1>11 DEF OnceInv

(* What the clients have heard and will hear only gets shorter in the      *)
(* other steps.                                                            *)
LEMMA OthersTold ==
  ASSUME ChatTypeOK, OnceInv, ChatNext, ~ SendAs,
         ~ \E s \in Slots : OnReceive(s), ~ \E d \in Clients : SendText(d), NEW c \in Clients
  PROVE  Told(Coming(c))'
<1>0. /\ heard[c] \in Seq(Message) /\ down[c] \in Seq(Message) /\ Coming(c) \in Seq(Message)
      /\ heard \in [Clients -> Seq(Message)] /\ down \in [Clients -> Seq(Message)]
      /\ Coming(c) = heard[c] \o down[c] /\ Told(Coming(c))
  BY HearTypes DEF ChatTypeOK, OnceInv, Coming
<1>1. Told(heard[c]) /\ Told(<<>>) /\ (Coming(c) # <<>> => Told(Tail(Coming(c))))
  BY <1>0, ToldLess
<1> DEFINE Less == Coming(c)' \in {Coming(c), heard[c], <<>>}
                   \/ (Coming(c) # <<>> /\ Coming(c)' = Tail(Coming(c)))
<1>2. heard'[c] = heard[c] /\ down'[c] = <<>> => Coming(c)' = heard[c]
  <2> DEFINE q == heard[c]
  <2>1. q \in Seq(Message)
    BY <1>0
  <2> HIDE DEF q
  <2>2. q \o <<>> = q
    BY <2>1
  <2> QED
    BY <2>2 DEF Coming, q
<1>3. ASSUME ChatUnderneath PROVE said' = said /\ Less
  <2>1. UNCHANGED <<said, heard>> /\ (down'[c] = down[c] \/ down'[c] = <<>>)
    BY <1>3, DownKept
  <2>2. down'[c] = down[c] => Coming(c)' = Coming(c)
    BY <2>1 DEF Coming
  <2> QED
    BY <1>2, <2>1, <2>2
<1>4. ASSUME NEW s \in Slots, Arrives(s) PROVE said' = said /\ Less
  BY <1>4 DEF Arrives, Coming
<1>5. ASSUME NEW d \in Clients, Hear(d) PROVE said' = said /\ Less
  <2>1. CASE d = c
    BY <1>5, <2>1, HearIs
  <2>2. CASE d # c
    BY <1>0, <1>5, <2>2 DEF Hear, ClientReceive, Coming
  <2> QED
    BY <2>1, <2>2
<1>6. ASSUME NEW d \in Clients, ClientRestarts(d) PROVE said' = said /\ Less
  <2>1. CASE d = c
    <3>1. heard'[c] = <<>> /\ down'[c] = <<>> /\ said' = said
      BY <1>0, <1>6, <2>1 DEF ClientRestarts, Crash
    <3>2. <<>> \o <<>> = <<>>
      OBVIOUS
    <3> QED
      BY <3>1, <3>2 DEF Coming
  <2>2. CASE d # c
    BY <1>0, <1>6, <2>2 DEF ClientRestarts, Crash, Coming
  <2> QED
    BY <2>1, <2>2
<1>7. said' = said /\ Less
  BY <1>3, <1>4, <1>5, <1>6 DEF ChatNext
<1>8. \E q : Coming(c)' = q /\ Told(q)
  BY <1>0, <1>1, <1>7
<1> QED
  BY <1>7, <1>8 DEF Told

(* Every message reaches everybody once, whoever leaves, comes back or is  *)
(* given the ENet peer of another one, and whether ids are used twice or   *)
(* not.                                                                    *)
THEOREM OnceCorrect == ChatSpec => []NobodyHearsTwice
<1>1. ChatInit => OnceInv
  <2> SUFFICES ASSUME ChatInit PROVE OnceInv
    OBVIOUS
  <2>1. said = <<>> /\ \A s \in Slots : up[s] = <<>>
    BY DEF ChatInit, Init
  <2>2. \A c \in Clients : Coming(c) = <<>>
    <3>1. \A c \in Clients : heard[c] = <<>> /\ down[c] = <<>>
      BY DEF ChatInit, Init
    <3>2. <<>> \o <<>> = <<>>
      OBVIOUS
    <3> QED
      BY <3>1, <3>2 DEF Coming
  <2> QED
    BY <2>1, <2>2 DEF OnceInv, UpOnce, SaidWrote, Told, IsInjective
<1>2. ASSUME ChatTypeOK, OnceInv, ChatNext PROVE OnceInv'
  <2>1. CASE SendAs \/ (\E s \in Slots : OnReceive(s)) \/ \E c \in Clients : SendText(c)
    BY <1>2, <2>1, SendAsOnce, OnReceiveOnce, SendTextOnce
  <2>2. CASE ~ SendAs /\ ~ (\E s \in Slots : OnReceive(s)) /\ ~ \E c \in Clients : SendText(c)
    <3>1. QuietStep \/ \E s \in Slots : Arrives(s)
      BY <1>2, <2>2, ChatSteps
    <3>2. ServerOnce'
      <4>1. ASSUME NEW s \in Slots, Arrives(s) PROVE ServerOnce'
        BY <1>2, <4>1 DEF Arrives, ServerConnect, OnceInv, ServerOnce, UpOnce, SaidWrote, Wrote
      <4> QED
        BY <1>2, <3>1, <4>1, QuietOnce DEF OnceInv, ServerOnce
    <3>3. \A c \in Clients : Told(Coming(c))'
      BY <1>2, <2>2, OthersTold
    <3> QED
      BY <3>2, <3>3 DEF OnceInv, ServerOnce
  <2> QED
    BY <2>1, <2>2
<1>3. OnceInv /\ UNCHANGED chatVars => OnceInv'
  <2> SUFFICES ASSUME OnceInv, UNCHANGED chatVars PROVE OnceInv'
    OBVIOUS
  <2>1. UNCHANGED <<up, down, said, heard, written>>
    BY DEF chatVars, chatLocal, sessionVars
  <2>2. UpOnce' /\ SaidWrote'
    BY <2>1 DEF OnceInv, UpOnce, SaidWrote, Wrote
  <2>3. \A c \in Clients : Told(Coming(c))'
    BY <2>1 DEF OnceInv, Told, Coming
  <2> QED
    BY <2>2, <2>3 DEF OnceInv
<1>4. OnceInv => NobodyHearsTwice
  BY DEF OnceInv, Told, Coming, NobodyHearsTwice
<1> QED
  BY <1>1, <1>2, <1>3, <1>4, ChatTypesHold, PTL DEF ChatSpec
=============================================================================
