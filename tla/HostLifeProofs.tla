---------------------------- MODULE HostLifeProofs ----------------------------
(***************************************************************************)
(* Proofs about HostLife, for any number of Client objects in the process, *)
(* any number of hosts created, and calls nested to any depth.             *)
(***************************************************************************)
EXTENDS HostLife, FiniteSetTheorems, SequenceTheorems, TLAPS

Frame == [of : Objects, at : Loops \cup Callbacks]

(* connect() and disconnect() service their hosts without running a        *)
(* callback, so nothing is called from there: they are innermost.          *)
WaitsOnTop ==
    \A i \in DOMAIN stack : stack[i].at \in {"connecting", "disconnecting"} => i = Len(stack)

(* No host has two owners, be it through m_host or through a peer.         *)
Apart ==
    /\ \A o, p \in Objects : host[o] # Null /\ host[o] = host[p] => o = p
    /\ \A c \in Clients, o \in Objects : peer[c] # Null /\ peer[c] = host[o] => o = c
    /\ \A c \in Clients : host[c] \notin peers

(* What the loops of connect() and disconnect() rely on.                   *)
TopInv ==
    /\ Top.at \in {"connecting", "disconnecting"} => Top.of \in Clients
    /\ \A c \in Clients : In(c, "connecting") => peer[c] # Null /\ peer[c] = host[c]
    /\ \A c \in Clients : In(c, "disconnecting") =>
          /\ state[c] # "Disconnected"
          /\ Polled(c) => "endedInPoll" \in upsets

(* What the loop of poll() relies on, whatever its callbacks do.           *)
PollInv ==
    \A o \in Objects :
        Polled(o) /\ upsets \cap {"endedInPoll", "noHostInPoll"} = {} => host[o] # Null

(* Without the cases the code is not prepared for, a client without a peer *)
(* has no host, so connect() has none to forget.                           *)
HostsHavePeers ==
    upsets \subseteq {"endedInPoll", "noHostInPoll"} =>
        \A c \in Clients : host[c] # Null => peer[c] # Null

StackInv == WaitsOnTop /\ TopInv /\ PollInv

-----------------------------------------------------------------------------
(* The thread's stack.                                                     *)

(* Top is the last frame when the thread is in any.                        *)
LEMMA TopIsFrame ==
  ASSUME HostTypeOK
  PROVE  /\ Top.at = "main" => stack = <<>>
         /\ Top.at # "main" => stack # <<>> /\ Top = stack[Len(stack)] /\ Top \in Frame
         /\ Top.at = "polling" => Top.of \in Objects /\ Polled(Top.of)
<1>1. stack \in Seq(Frame)
  BY DEF HostTypeOK, Frame
<1>2. CASE stack = <<>>
  BY <1>2 DEF Top
<1>3. CASE stack # <<>>
  <2>1. Len(stack) \in DOMAIN stack /\ Top = stack[Len(stack)] /\ stack[Len(stack)] \in Frame
    BY <1>1, <1>3 DEF Top, Last
  <2>2. Top.at \in Loops \cup Callbacks /\ Top.of \in Objects /\ Top = [of |-> Top.of, at |-> Top.at]
    BY <2>1 DEF Frame
  <2>3. Top.at # "main"
    BY <2>2 DEF Loops, Callbacks
  <2>4. Top.at = "polling" => Polled(Top.of)
    BY <2>1, <2>2 DEF Polled
  <2> QED
    BY <1>3, <2>1, <2>2, <2>3, <2>4
<1> QED
  BY <1>2, <1>3

(* A frame pushed is the top, and the waits below stay where they are only *)
(* if the old top was none.                                                *)
LEMMA EnterStack ==
  ASSUME HostTypeOK, WaitsOnTop, Top.at \notin {"connecting", "disconnecting"},
         NEW o \in Objects, NEW at \in Loops \cup Callbacks, Enter(o, at)
  PROVE  /\ stack' \in Seq(Frame) /\ WaitsOnTop'
         /\ Top' = [of |-> o, at |-> at]
         /\ \A p \in Objects : Polled(p)' => Polled(p) \/ (p = o /\ at = "polling")
<1> DEFINE f == [of |-> o, at |-> at]
<1>1. stack \in Seq(Frame) /\ f \in Frame /\ stack' = Append(stack, f)
  BY DEF HostTypeOK, Frame, Enter
<1>2. /\ stack' \in Seq(Frame) /\ Len(stack') = Len(stack) + 1
      /\ \A i \in 1 .. Len(stack) : stack'[i] = stack[i]
      /\ stack'[Len(stack) + 1] = f
      /\ DOMAIN stack' = 1 .. Len(stack) + 1
  BY <1>1
<1>3. Top' = f
  BY <1>1, <1>2 DEF Top, Last
<1>4. \A i \in 1 .. Len(stack) : stack[i].at \notin {"connecting", "disconnecting"}
  <2> SUFFICES ASSUME NEW i \in 1 .. Len(stack), stack[i].at \in {"connecting", "disconnecting"}
               PROVE  FALSE
    OBVIOUS
  <2>1. i = Len(stack) /\ stack # <<>>
    BY <1>1 DEF WaitsOnTop
  <2> QED
    BY <2>1 DEF Top, Last
<1>5. WaitsOnTop'
  BY <1>2, <1>4 DEF WaitsOnTop
<1>6. \A p \in Objects : Polled(p)' => Polled(p) \/ (p = o /\ at = "polling")
  <2> SUFFICES ASSUME NEW p \in Objects, Polled(p)' PROVE Polled(p) \/ (p = o /\ at = "polling")
    OBVIOUS
  <2>1. PICK i \in 1 .. Len(stack) + 1 : stack'[i] = [of |-> p, at |-> "polling"]
    BY <1>2 DEF Polled
  <2>2. CASE i = Len(stack) + 1
    BY <2>1, <2>2, <1>2
  <2>3. CASE i # Len(stack) + 1
    BY <2>1, <2>3, <1>1, <1>2 DEF Polled
  <2> QED
    BY <2>2, <2>3
<1> QED
  BY <1>2, <1>3, <1>5, <1>6

(* Front takes off the last element.                                       *)
LEMMA FrontFacts ==
  ASSUME NEW F, NEW s \in Seq(F), s # <<>>
  PROVE  /\ Front(s) \in Seq(F)
         /\ Len(s) \in Nat \ {0} /\ Len(Front(s)) = Len(s) - 1
         /\ \A i \in 1 .. Len(s) - 1 : Front(s)[i] = s[i]
<1>1. Len(s) \in Nat \ {0} /\ \A i \in 1 .. Len(s) - 1 : s[i] \in F
  OBVIOUS
<1> DEFINE n == Len(s) - 1
<1>2. n \in Nat /\ n - 1 + 1 = n
  BY <1>1
<1>3. \A i \in 1 .. n : s[1 + i - 1] = s[i]
  BY <1>1
<1> HIDE DEF n
<1>4. /\ SubSeq(s, 1, n) \in Seq(F)
      /\ Len(SubSeq(s, 1, n)) = (IF 1 <= n THEN n - 1 + 1 ELSE 0)
      /\ \A i \in 1 .. n - 1 + 1 : SubSeq(s, 1, n)[i] = s[1 + i - 1]
  <2>1. \A i \in 1 .. n : s[i] \in F
    BY <1>1 DEF n
  <2> QED
    BY <1>2, <2>1, SubSeqProperties
<1>5. /\ SubSeq(s, 1, n) \in Seq(F) /\ Len(SubSeq(s, 1, n)) = n
      /\ \A i \in 1 .. n : SubSeq(s, 1, n)[i] = s[i]
  BY <1>2, <1>3, <1>4
<1> QED
  BY <1>1, <1>5 DEF Front, n

(* What remains when a frame is left: no wait, and no object more is       *)
(* polled.                                                                 *)
LEMMA ReturnStack ==
  ASSUME HostTypeOK, WaitsOnTop, stack # <<>>, Return
  PROVE  /\ stack' \in Seq(Frame) /\ WaitsOnTop'
         /\ Top'.at \notin {"connecting", "disconnecting"}
         /\ \A p \in Objects : Polled(p)' => Polled(p)
<1>1. stack \in Seq(Frame) /\ stack' = Front(stack) /\ Len(stack) \in Nat \ {0}
  BY DEF HostTypeOK, Frame, Return
<1>2. /\ stack' \in Seq(Frame) /\ Len(stack') = Len(stack) - 1
      /\ \A i \in 1 .. Len(stack) - 1 : stack'[i] = stack[i]
      /\ DOMAIN stack' = 1 .. Len(stack) - 1 /\ DOMAIN stack = 1 .. Len(stack)
  BY <1>1, FrontFacts
<1>3. \A i \in 1 .. Len(stack) - 1 : stack[i].at \notin {"connecting", "disconnecting"}
  BY <1>1, <1>2 DEF WaitsOnTop
<1>4. WaitsOnTop'
  BY <1>2, <1>3 DEF WaitsOnTop
<1>5. Top'.at \notin {"connecting", "disconnecting"}
  <2>1. CASE stack' = <<>>
    BY <2>1 DEF Top
  <2>2. CASE stack' # <<>>
    <3>1. Top' = stack'[Len(stack) - 1] /\ Len(stack) - 1 \in 1 .. Len(stack) - 1
      BY <2>2, <1>1, <1>2 DEF Top, Last
    <3> QED
      BY <3>1, <1>2, <1>3
  <2> QED
    BY <2>1, <2>2
<1>6. \A p \in Objects : Polled(p)' => Polled(p)
  BY <1>1, <1>2 DEF Polled
<1> QED
  BY <1>2, <1>4, <1>5, <1>6

(* The last frame is replaced.                                             *)
LEMMA BecomesStack ==
  ASSUME HostTypeOK, WaitsOnTop, stack # <<>>, NEW o \in Objects, Becomes(o, "onConnect")
  PROVE  /\ stack' \in Seq(Frame) /\ WaitsOnTop'
         /\ Top' = [of |-> o, at |-> "onConnect"]
         /\ \A p \in Objects : Polled(p)' => Polled(p)
<1> DEFINE f == [of |-> o, at |-> "onConnect"]
<1>1. /\ stack \in Seq(Frame) /\ stack' = Append(Front(stack), f)
      /\ Len(stack) \in Nat \ {0} /\ f \in Frame
  BY DEF HostTypeOK, Frame, Becomes, Loops, Callbacks
<1>2. /\ Front(stack) \in Seq(Frame) /\ Len(Front(stack)) = Len(stack) - 1
      /\ \A i \in 1 .. Len(stack) - 1 : Front(stack)[i] = stack[i]
  BY <1>1, FrontFacts
<1>3. /\ stack' \in Seq(Frame) /\ Len(stack') = Len(stack)
      /\ \A i \in 1 .. Len(stack) - 1 : stack'[i] = stack[i]
      /\ stack'[Len(stack)] = f
      /\ DOMAIN stack' = 1 .. Len(stack) /\ DOMAIN stack = 1 .. Len(stack)
  BY <1>1, <1>2
<1>4. Top' = f
  BY <1>1, <1>3 DEF Top, Last
<1>5. WaitsOnTop'
  BY <1>1, <1>3 DEF WaitsOnTop
<1>6. \A p \in Objects : Polled(p)' => Polled(p)
  <2> SUFFICES ASSUME NEW p \in Objects, Polled(p)' PROVE Polled(p)
    OBVIOUS
  <2>1. PICK i \in 1 .. Len(stack) : stack'[i] = [of |-> p, at |-> "polling"]
    BY <1>3 DEF Polled
  <2>2. i # Len(stack)
    <3>1. stack'[i].at = "polling" /\ f.at = "onConnect"
      BY <2>1
    <3> QED
      BY <3>1, <1>3
  <2> QED
    BY <2>1, <2>2, <1>1, <1>3 DEF Polled
<1> QED
  BY <1>3, <1>4, <1>5, <1>6

-----------------------------------------------------------------------------
(* Hosts.                                                                  *)

(* A new host is the number of the call, which nothing can point to yet.   *)
LEMMA CreateFacts ==
  ASSUME HostTypeOK, PointersLive, NEW o \in Objects, NEW S \in SUBSET Upset, Create(o, S)
  PROVE  /\ born' = born + 1 /\ born' \in 0 .. HostLimit /\ inits' = inits + 1
         /\ host' \in [Objects -> Hosts \cup {Null}]
         /\ \A p \in Objects : p # o => host'[p] = host[p]
         /\ alive' \subseteq 1 .. born'
         /\ \/ host'[o] = Null /\ alive' = alive
            \/ host'[o] = born' /\ alive' = alive \cup {born'}
         /\ born' # Null /\ born' \notin alive /\ born' \notin peers
         /\ \A p \in Objects : host[p] # born'
         /\ \A c \in Clients : peer[c] # born'
         /\ upsets' = upsets \cup S \cup When(host'[o] = Null /\ Polled(o), "noHostInPoll")
         /\ upsets' \subseteq Upset
<1>0. /\ born \in 0 .. HostLimit /\ alive \subseteq 1 .. born /\ upsets \subseteq Upset
      /\ host \in [Objects -> Hosts \cup {Null}]
  BY DEF HostTypeOK
<1> USE HostAssumption DEF Hosts
<1>1. /\ born < HostLimit /\ born' = born + 1 /\ inits' = inits + 1
      /\ upsets' = upsets \cup S \cup When(host'[o] = Null /\ Polled(o), "noHostInPoll")
  BY DEF Create, Note
<1>2. born' \in 1 .. HostLimit /\ born' # Null /\ born' \notin alive
  <2>1. born' \in 1 .. HostLimit
    BY <1>0, <1>1
  <2>2. born' # Null
    BY <2>1
  <2>3. born' \notin 1 .. born
    BY <1>0, <1>1
  <2> QED
    BY <1>0, <2>1, <2>2, <2>3
<1>3. \/ host' = [host EXCEPT ![o] = born'] /\ alive' = alive \cup {born'}
      \/ host' = [host EXCEPT ![o] = Null] /\ alive' = alive
  BY DEF Create
<1>4. /\ host' \in [Objects -> Hosts \cup {Null}]
      /\ \A p \in Objects : p # o => host'[p] = host[p]
      /\ \/ host'[o] = Null /\ alive' = alive
         \/ host'[o] = born' /\ alive' = alive \cup {born'}
  BY <1>0, <1>2, <1>3
<1>5. alive' \subseteq 1 .. born' /\ born' \in 0 .. HostLimit
  <2>1. born' \in 0 .. HostLimit /\ born' \in 1 .. born' /\ 1 .. born \subseteq 1 .. born'
    BY <1>0, <1>1, <1>2
  <2> QED
    BY <1>0, <1>4, <2>1
<1>6. /\ born' \notin peers
      /\ \A p \in Objects : host[p] # born'
      /\ \A c \in Clients : peer[c] # born'
  BY <1>2 DEF PointersLive
<1>7. upsets' \subseteq Upset
  BY <1>0, <1>1 DEF When, Upset
<1> QED
  BY <1>1, <1>2, <1>4, <1>5, <1>6, <1>7

(* Hosts are numbers and Null is none.                                     *)
LEMMA NullIsNoHost == HostTypeOK => Null \notin peers /\ Null \notin alive
<1>1. Null \notin 1 .. HostLimit /\ Null \notin 1 .. born
  BY HostAssumption
<1>2. HostTypeOK => peers \subseteq 1 .. HostLimit /\ alive \subseteq 1 .. born
  BY DEF HostTypeOK, Hosts
<1> QED
  BY <1>1, <1>2

(* Only the object's own host goes.                                        *)
LEMMA DestroyFacts ==
  ASSUME HostTypeOK, NEW o \in Objects, Destroy(o)
  PROVE  /\ born' = born /\ inits' = inits - 1 /\ alive' = alive \ {host[o]}
         /\ host' \in [Objects -> Hosts \cup {Null}] /\ host'[o] = Null
         /\ \A p \in Objects : p # o => host'[p] = host[p]
BY DEF HostTypeOK, Destroy

-----------------------------------------------------------------------------
(* The inductive invariant.                                                *)

HostInv == HostTypeOK /\ StackInv /\ PointersLive /\ Apart /\ StateTells /\ HostsHavePeers

(* At first there is no host and no call.                                  *)
LEMMA HostInit_Inv == HostInit => HostInv
<1> SUFFICES ASSUME HostInit PROVE HostInv
  OBVIOUS
<1> USE HostAssumption DEF HostInit
<1>1. HostTypeOK
  <2>1. /\ born \in 0 .. HostLimit /\ alive \subseteq 1 .. born /\ inits \in Int
        /\ peers \subseteq Hosts /\ upsets \subseteq Upset
    OBVIOUS
  <2>2. /\ host \in [Objects -> Hosts \cup {Null}]
        /\ peer \in [Clients -> Hosts \cup {Null}]
        /\ state \in [Clients -> {"Disconnected", "Disconnecting", "Connected"}]
    OBVIOUS
  <2>3. running \in BOOLEAN
    OBVIOUS
  <2>4. stack \in Seq([of : Objects, at : Loops \cup Callbacks])
    OBVIOUS
  <2> QED
    BY <2>1, <2>2, <2>3, <2>4 DEF HostTypeOK
<1>2. Top.at = "main" /\ \A o \in Objects : ~Polled(o)
  BY DEF Top, Polled
<1>3. StackInv
  BY <1>2 DEF StackInv, WaitsOnTop, TopInv, PollInv, In
<1>4. PointersLive /\ Apart /\ StateTells /\ HostsHavePeers
  BY DEF PointersLive, Apart, StateTells, HostsHavePeers, Objects
<1> QED
  BY <1>1, <1>3, <1>4 DEF HostInv

(* The frame in which the application calls is no loop.                    *)
LEMMA CallerFacts ==
  ASSUME MayCall
  PROVE  Top.at \notin Loops /\ \A c \in Clients : ~In(c, "connecting") /\ ~In(c, "disconnecting")
BY DEF MayCall, Callbacks, Loops, In

(* start(): the server's new host has no peer yet; the old one, if any,    *)
(* stays alive.                                                            *)
LEMMA StartStep == ASSUME HostInv, Start PROVE HostInv'
<1> USE DEF Objects
<1>1. MayCall /\ Create(Server, When(running, "startedTwice"))
  BY DEF Start
<1>2. When(running, "startedTwice") \in SUBSET Upset
  BY DEF When, Upset
<1>3. /\ born' \in 0 .. HostLimit /\ inits' = inits + 1
      /\ host' \in [Objects -> Hosts \cup {Null}]
      /\ \A c \in Clients : host'[c] = host[c]
      /\ alive' \subseteq 1 .. born'
      /\ \/ host'[Server] = Null /\ alive' = alive
         \/ host'[Server] = born' /\ alive' = alive \cup {born'}
      /\ born' # Null /\ born' \notin alive /\ born' \notin peers
      /\ \A p \in Objects : host[p] # born'
      /\ \A c \in Clients : peer[c] # born'
      /\ upsets' = upsets \cup When(running, "startedTwice")
                     \cup When(host'[Server] = Null /\ Polled(Server), "noHostInPoll")
      /\ upsets' \subseteq Upset
  BY <1>1, <1>2, CreateFacts, HostAssumption DEF HostInv
<1>4. UNCHANGED <<peers, peer, state, stack>> /\ running' = (running \/ host'[Server] # Null)
  BY DEF Start
<1>5. HostTypeOK'
  BY <1>3, <1>4 DEF HostInv, HostTypeOK
<1>6. Top' = Top /\ \A o \in Objects : Polled(o)' = Polled(o)
  BY <1>4 DEF Top, Polled
<1>7. StackInv'
  <2>1. WaitsOnTop'
    BY <1>4 DEF HostInv, StackInv, WaitsOnTop
  <2>2. TopInv'
    BY <1>1, <1>6, CallerFacts DEF TopInv, In, Loops
  <2>3. PollInv'
    <3> SUFFICES ASSUME NEW o \in Objects, Polled(o),
                        upsets' \cap {"endedInPoll", "noHostInPoll"} = {}
                 PROVE  host'[o] # Null
      BY <1>6 DEF PollInv
    <3>1. CASE o = Server
      BY <3>1, <1>3 DEF When
    <3>2. CASE o # Server
      BY <3>2, <1>3 DEF HostInv, StackInv, PollInv
    <3> QED
      BY <3>1, <3>2
  <2> QED
    BY <2>1, <2>2, <2>3 DEF StackInv
<1>8. PointersLive' /\ Apart'
  BY <1>3, <1>4, HostAssumption DEF HostInv, PointersLive, Apart
<1>9. StateTells'
  BY <1>3, <1>4, HostAssumption DEF HostInv, StateTells, When
<1>10. HostsHavePeers'
  BY <1>3, <1>4 DEF HostInv, HostsHavePeers
<1> QED
  BY <1>5, <1>7, <1>8, <1>9, <1>10 DEF HostInv

(* close(): Apart says that the host destroyed is not behind another       *)
(* object's pointers.                                                      *)
LEMMA CloseStep == ASSUME HostInv, Close PROVE HostInv'
<1> USE DEF Objects
<1>1. MayCall /\ host[Server] # Null /\ Destroy(Server) /\ peers' = {} /\ running' = FALSE
      /\ upsets' = upsets \cup When(Polled(Server), "endedInPoll")
      /\ UNCHANGED <<peer, state, stack>>
  BY DEF Close, Note
<1>2. /\ born' = born /\ inits' = inits - 1 /\ alive' = alive \ {host[Server]}
      /\ host' \in [Objects -> Hosts \cup {Null}] /\ host'[Server] = Null
      /\ \A c \in Clients : host'[c] = host[c]
  BY <1>1, DestroyFacts, HostAssumption DEF HostInv
<1>3. HostTypeOK'
  <2>1. /\ born \in 0 .. HostLimit /\ alive \subseteq 1 .. born /\ inits \in Int /\ upsets \subseteq Upset
    BY DEF HostInv, HostTypeOK
  <2>2. born' \in 0 .. HostLimit /\ alive' \subseteq 1 .. born' /\ inits' \in Int
    <3>1. born' \in 0 .. HostLimit
      BY <2>1, <1>2
    <3>2. alive' \subseteq 1 .. born'
      BY <2>1, <1>2
    <3>3. inits' \in Int
      BY <2>1, <1>2
    <3> QED
      BY <3>1, <3>2, <3>3
  <2>3. upsets' \subseteq Upset
    BY <2>1, <1>1 DEF When, Upset
  <2> QED
    BY <1>1, <1>2, <2>2, <2>3 DEF HostInv, HostTypeOK
<1>4. Top' = Top /\ \A o \in Objects : Polled(o)' = Polled(o)
  BY <1>1 DEF Top, Polled
<1>5. StackInv'
  <2>1. WaitsOnTop'
    BY <1>1 DEF HostInv, StackInv, WaitsOnTop
  <2>2. TopInv'
    BY <1>1, <1>4, CallerFacts DEF TopInv, In, Loops
  <2>3. PollInv'
    BY <1>1, <1>2, <1>4 DEF HostInv, StackInv, PollInv, When
  <2> QED
    BY <2>1, <2>2, <2>3 DEF StackInv
<1>6. PointersLive'
  BY <1>1, <1>2, HostAssumption DEF HostInv, PointersLive, Apart
<1>7. Apart'
  BY <1>1, <1>2, HostAssumption DEF HostInv, Apart
<1>8. StateTells'
  BY <1>1, <1>2 DEF HostInv, StateTells
<1>9. HostsHavePeers'
  BY <1>1, <1>2 DEF HostInv, HostsHavePeers
<1> QED
  BY <1>3, <1>5, <1>6, <1>7, <1>8, <1>9 DEF HostInv

(* A call that fails, or enters the wait with host and peer.               *)
LEMMA ConnectStep == ASSUME HostInv, NEW c \in Clients, Connect(c) PROVE HostInv'
<1> USE DEF Objects
<1>1. PICK refused \in BOOLEAN :
          /\ Create(c, When(peer[c] # Null, "connectedTwice") \cup When(refused, "connectFailed"))
          /\ \/ host'[c] = Null /\ refused /\ peer' = peer /\ stack' = stack
             \/ host'[c] # Null /\ refused /\ peer' = [peer EXCEPT ![c] = Null] /\ stack' = stack
             \/ host'[c] # Null /\ peer' = [peer EXCEPT ![c] = host'[c]] /\ Enter(c, "connecting")
  BY DEF Connect
<1> DEFINE S == When(peer[c] # Null, "connectedTwice") \cup When(refused, "connectFailed")
<1>2. S \in SUBSET Upset /\ MayCall /\ UNCHANGED <<peers, running, state>>
  BY DEF When, Upset, Connect
<1>3. /\ born' \in 0 .. HostLimit /\ inits' = inits + 1
      /\ host' \in [Objects -> Hosts \cup {Null}]
      /\ \A p \in Objects : p # c => host'[p] = host[p]
      /\ alive' \subseteq 1 .. born'
      /\ \/ host'[c] = Null /\ alive' = alive
         \/ host'[c] = born' /\ alive' = alive \cup {born'}
      /\ born' # Null /\ born' \notin alive /\ born' \notin peers
      /\ \A p \in Objects : host[p] # born'
      /\ \A d \in Clients : peer[d] # born'
      /\ upsets' = upsets \cup S \cup When(host'[c] = Null /\ Polled(c), "noHostInPoll")
      /\ upsets' \subseteq Upset
  BY <1>1, <1>2, CreateFacts DEF HostInv
<1>4. /\ peer' \in [Clients -> Hosts \cup {Null}]
      /\ \A d \in Clients : d # c => peer'[d] = peer[d]
      /\ \/ host'[c] = Null /\ peer'[c] = peer[c]
         \/ peer'[c] = Null
         \/ host'[c] # Null /\ peer'[c] = host'[c]
  BY <1>1, <1>3 DEF HostInv, HostTypeOK
<1>5. Top.at \notin Loops /\ \A d \in Clients : ~In(d, "connecting") /\ ~In(d, "disconnecting")
  BY <1>2, CallerFacts
<1>6. \/ stack' = stack /\ Top' = Top /\ \A o \in Objects : Polled(o)' = Polled(o)
      \/ /\ stack' \in Seq(Frame) /\ WaitsOnTop'
         /\ Top' = [of |-> c, at |-> "connecting"]
         /\ \A o \in Objects : Polled(o)' => Polled(o)
         /\ host'[c] # Null /\ peer'[c] = host'[c]
  <2>1. CASE stack' = stack
    BY <2>1 DEF Top, Polled
  <2>2. CASE Enter(c, "connecting") /\ host'[c] # Null /\ peer' = [peer EXCEPT ![c] = host'[c]]
    <3>1. "connecting" \in Loops \cup Callbacks /\ Top.at \notin {"connecting", "disconnecting"}
      BY <1>5 DEF Loops
    <3>2. /\ stack' \in Seq(Frame) /\ WaitsOnTop'
          /\ Top' = [of |-> c, at |-> "connecting"]
          /\ \A p \in Objects : Polled(p)' => Polled(p)
      BY <2>2, <3>1, EnterStack DEF HostInv, StackInv
    <3> QED
      BY <2>2, <3>2 DEF HostInv, HostTypeOK
  <2> QED
    BY <1>1, <2>1, <2>2
<1>7. HostTypeOK'
  <2>1. stack' \in Seq(Frame)
    BY <1>6 DEF HostInv, HostTypeOK, Frame
  <2>2. inits' \in Int
    BY <1>3 DEF HostInv, HostTypeOK
  <2> QED
    BY <1>2, <1>3, <1>4, <2>1, <2>2 DEF HostInv, HostTypeOK, Frame
<1>8. StackInv'
  <2>1. WaitsOnTop'
    BY <1>6 DEF HostInv, StackInv, WaitsOnTop
  <2>2. TopInv'
    BY <1>5, <1>6 DEF TopInv, In, Loops
  <2>3. PollInv'
    <3> SUFFICES ASSUME NEW o \in Objects, Polled(o),
                        upsets' \cap {"endedInPoll", "noHostInPoll"} = {}
                 PROVE  host'[o] # Null
      BY <1>6 DEF PollInv
    <3>1. CASE o = c
      BY <3>1, <1>3 DEF When
    <3>2. CASE o # c
      BY <3>2, <1>3 DEF HostInv, StackInv, PollInv
    <3> QED
      BY <3>1, <3>2
  <2> QED
    BY <2>1, <2>2, <2>3 DEF StackInv
<1>9. PointersLive'
  BY <1>2, <1>3, <1>4 DEF HostInv, PointersLive
<1>10. Apart'
  <2>1. ASSUME NEW o \in Objects, NEW p \in Objects, host'[o] # Null, host'[o] = host'[p]
        PROVE  o = p
    BY <2>1, <1>3 DEF HostInv, Apart
  <2>2. ASSUME NEW d \in Clients, NEW o \in Objects, peer'[d] # Null, peer'[d] = host'[o]
        PROVE  o = d
    <3>1. CASE d = c
      <4>1. o # c => host'[o] = host[o] /\ host[o] # born'
        BY <1>3
      <4>2. CASE host'[c] = Null /\ peer'[c] = peer[c]
        BY <2>2, <3>1, <4>1, <4>2 DEF HostInv, Apart
      <4>3. CASE host'[c] # Null /\ peer'[c] = host'[c]
        BY <2>2, <3>1, <4>1, <4>3, <1>3
      <4> QED
        BY <2>2, <3>1, <4>2, <4>3, <1>4
    <3>2. CASE d # c
      BY <2>2, <3>2, <1>3, <1>4 DEF HostInv, Apart
    <3> QED
      BY <3>1, <3>2
  <2>3. ASSUME NEW d \in Clients PROVE host'[d] \notin peers
    <3>1. Null \notin peers
      BY NullIsNoHost DEF HostInv
    <3> QED
      BY <3>1, <1>3 DEF HostInv, Apart
  <2> QED
    BY <1>2, <2>1, <2>2, <2>3 DEF Apart
<1>11. StateTells'
  <2>1. host'[Server] = host[Server]
    BY <1>3, HostAssumption
  <2>2. ASSUME "connectedTwice" \notin upsets', NEW d \in Clients, state[d] # "Disconnected"
        PROVE  peer'[d] # Null /\ peer'[d] = host'[d]
    <3>1. peer[c] = Null /\ "connectedTwice" \notin upsets
      BY <2>2, <1>3 DEF When
    <3>2. d # c
      BY <2>2, <3>1 DEF HostInv, StateTells
    <3> QED
      BY <2>2, <3>1, <3>2, <1>3, <1>4 DEF HostInv, StateTells
  <2> QED
    BY <1>2, <1>3, <2>1, <2>2 DEF HostInv, StateTells
<1>12. HostsHavePeers'
  <2> SUFFICES ASSUME upsets' \subseteq {"endedInPoll", "noHostInPoll"}, NEW d \in Clients, host'[d] # Null
               PROVE  peer'[d] # Null
    BY DEF HostsHavePeers
  <2>1. upsets \subseteq {"endedInPoll", "noHostInPoll"} /\ ~refused
    BY <1>3 DEF When
  <2>2. peer' = [peer EXCEPT ![c] = host'[c]] /\ host'[c] # Null
    BY <1>1, <2>1
  <2> QED
    BY <2>1, <2>2, <1>3, <1>4 DEF HostInv, HostsHavePeers, HostTypeOK
<1> QED
  BY <1>7, <1>8, <1>9, <1>10, <1>11, <1>12 DEF HostInv

(* The wait ends with a connection and its callback, or without a peer.    *)
LEMMA ConnectTurnStep == ASSUME HostInv, NEW c \in Clients, ConnectTurn(c) PROVE HostInv'
<1> USE DEF Objects
<1>1. /\ In(c, "connecting") /\ UNCHANGED <<born, alive, inits, host, peers, running>>
      /\ \/ /\ state' = [state EXCEPT ![c] = "Connected"]
            /\ Becomes(c, "onConnect") /\ peer' = peer /\ upsets' = upsets
         \/ /\ state' = [state EXCEPT ![c] = "Disconnected"]
            /\ peer' = [peer EXCEPT ![c] = Null]
            /\ Return /\ upsets' = upsets \cup {"connectFailed"}
  BY DEF ConnectTurn, Note
<1>2. Top.at = "connecting" /\ stack # <<>>
  BY <1>1 DEF In, Top
<1>3. /\ stack' \in Seq(Frame) /\ WaitsOnTop'
      /\ Top'.at \notin {"connecting", "disconnecting"}
      /\ \A p \in Objects : Polled(p)' => Polled(p)
  BY <1>1, <1>2, ReturnStack, BecomesStack DEF HostInv, StackInv
<1>4. upsets \subseteq upsets' /\ upsets' \subseteq upsets \cup {"connectFailed"}
  BY <1>1
<1>5. HostTypeOK'
  BY <1>1, <1>3, <1>4 DEF HostInv, HostTypeOK, Frame, Upset
<1>6. StackInv'
  BY <1>1, <1>3, <1>4 DEF HostInv, StackInv, TopInv, PollInv, In
<1>7. PointersLive' /\ Apart'
  BY <1>1 DEF HostInv, HostTypeOK, PointersLive, Apart
<1>8. StateTells'
  <2>1. peer[c] # Null /\ peer[c] = host[c]
    BY <1>1 DEF HostInv, StackInv, TopInv
  <2> QED
    BY <1>1, <1>4, <2>1 DEF HostInv, HostTypeOK, StateTells
<1>9. HostsHavePeers'
  <2> SUFFICES ASSUME upsets' \subseteq {"endedInPoll", "noHostInPoll"}
               PROVE  \A d \in Clients : host'[d] # Null => peer'[d] # Null
    BY DEF HostsHavePeers
  <2>1. upsets' = upsets /\ peer' = peer
    BY <1>1
  <2> QED
    BY <1>1, <2>1 DEF HostInv, HostsHavePeers
<1> QED
  BY <1>5, <1>6, <1>7, <1>8, <1>9 DEF HostInv

(* disconnect() up to its loop: it is entered with a peer, thus with a     *)
(* host.                                                                   *)
LEMMA DisconnectStep == ASSUME HostInv, NEW c \in Clients, Disconnect(c) PROVE HostInv'
<1> USE DEF Objects
<1>1. /\ MayCall /\ peer[c] # Null /\ state[c] # "Disconnected"
      /\ state' = [state EXCEPT ![c] = "Disconnecting"]
      /\ Enter(c, "disconnecting")
      /\ upsets' = upsets \cup When(Polled(c), "endedInPoll")
      /\ UNCHANGED <<born, alive, inits, host, peers, peer, running>>
  BY DEF Disconnect, Note
<1>2. "disconnecting" \in Loops \cup Callbacks /\ Top.at \notin {"connecting", "disconnecting"}
  BY <1>1, CallerFacts DEF Loops
<1>3. /\ stack' \in Seq(Frame) /\ WaitsOnTop'
      /\ Top' = [of |-> c, at |-> "disconnecting"]
      /\ \A p \in Objects : Polled(p)' => Polled(p)
  BY <1>1, <1>2, EnterStack DEF HostInv, StackInv
<1>4. HostTypeOK'
  BY <1>1, <1>3 DEF HostInv, HostTypeOK, Frame, When, Upset
<1>5. TopInv'
  <2>1. state'[c] # "Disconnected" /\ (Polled(c)' => "endedInPoll" \in upsets')
    BY <1>1, <1>3 DEF HostInv, HostTypeOK, When
  <2> QED
    BY <1>3, <2>1 DEF TopInv, In
<1>6. PollInv'
  BY <1>1, <1>3 DEF HostInv, StackInv, PollInv
<1>7. PointersLive' /\ Apart'
  BY <1>1 DEF HostInv, PointersLive, Apart
<1>8. StateTells'
  BY <1>1 DEF HostInv, HostTypeOK, StateTells, When
<1>9. HostsHavePeers'
  BY <1>1 DEF HostInv, HostsHavePeers
<1> QED
  BY <1>3, <1>4, <1>5, <1>6, <1>7, <1>8, <1>9 DEF HostInv, StackInv

(* The end of disconnect(): the host is destroyed, and its peer forgotten. *)
LEMMA DisconnectTurnStep == ASSUME HostInv, NEW c \in Clients, DisconnectTurn(c) PROVE HostInv'
<1> USE DEF Objects
<1>1. /\ In(c, "disconnecting") /\ host[c] \in alive /\ Destroy(c)
      /\ peer' = [peer EXCEPT ![c] = Null]
      /\ state' = [state EXCEPT ![c] = "Disconnected"]
      /\ Return /\ UNCHANGED <<peers, running, upsets>>
  BY DEF DisconnectTurn, Serviceable
<1>2. /\ born' = born /\ inits' = inits - 1 /\ alive' = alive \ {host[c]}
      /\ host' \in [Objects -> Hosts \cup {Null}] /\ host'[c] = Null
      /\ \A p \in Objects : p # c => host'[p] = host[p]
  BY <1>1, DestroyFacts DEF HostInv
<1>3. stack # <<>> /\ (Polled(c) => "endedInPoll" \in upsets)
  BY <1>1 DEF In, Top, HostInv, StackInv, TopInv
<1>4. /\ stack' \in Seq(Frame) /\ WaitsOnTop'
      /\ Top'.at \notin {"connecting", "disconnecting"}
      /\ \A p \in Objects : Polled(p)' => Polled(p)
  BY <1>1, <1>3, ReturnStack DEF HostInv, StackInv
<1>5. HostTypeOK'
  <2>1. inits \in Int /\ alive \subseteq 1 .. born
    BY DEF HostInv, HostTypeOK
  <2>2. inits' \in Int
    BY <1>2, <2>1
  <2>3. alive' \subseteq 1 .. born'
    BY <1>2, <2>1
  <2> QED
    BY <1>1, <1>2, <1>4, <2>2, <2>3 DEF HostInv, HostTypeOK, Frame
<1>6. TopInv'
  BY <1>4 DEF TopInv, In
<1>7. PollInv'
  BY <1>1, <1>2, <1>3, <1>4 DEF HostInv, StackInv, PollInv
<1>8. PointersLive'
  BY <1>1, <1>2, HostAssumption DEF HostInv, HostTypeOK, PointersLive, Apart
<1>9. Apart'
  <2>1. peer'[c] = Null /\ \A d \in Clients : d # c => peer'[d] = peer[d]
    BY <1>1 DEF HostInv, HostTypeOK
  <2>2. Null \notin peers
    BY NullIsNoHost DEF HostInv
  <2>3. /\ \A o, p \in Objects : host'[o] # Null /\ host'[o] = host'[p] => o = p
        /\ \A d \in Clients : host'[d] \notin peers
    BY <1>2, <2>2 DEF HostInv, Apart
  <2>4. \A d \in Clients, o \in Objects : peer'[d] # Null /\ peer'[d] = host'[o] => o = d
    BY <1>2, <2>1 DEF HostInv, Apart
  <2> QED
    BY <1>1, <2>3, <2>4 DEF Apart
<1>10. StateTells'
  BY <1>1, <1>2, HostAssumption DEF HostInv, HostTypeOK, StateTells
<1>11. HostsHavePeers'
  BY <1>1, <1>2 DEF HostInv, HostTypeOK, HostsHavePeers
<1> QED
  BY <1>4, <1>5, <1>6, <1>7, <1>8, <1>9, <1>10, <1>11 DEF HostInv, StackInv

(* A turn of a poll() runs a callback, or is the last one.                 *)
LEMMA ServerTurnStep == ASSUME HostInv, ServerTurn PROVE HostInv'
<1> USE DEF Objects
<1>1. /\ In(Server, "polling") /\ host[Server] \in alive
      /\ peers' \subseteq peers \cup {host[Server]}
      /\ UNCHANGED <<born, alive, inits, host, peer, running, state, upsets>>
      /\ Return \/ \E at \in Callbacks : Enter(Server, at)
  BY DEF ServerTurn, Serviceable, Callbacks
<1>2. Top.at = "polling" /\ stack # <<>>
  BY <1>1 DEF In, Top
<1>3. /\ stack' \in Seq(Frame) /\ WaitsOnTop'
      /\ Top'.at \notin {"connecting", "disconnecting"}
      /\ \A p \in Objects : Polled(p)' => Polled(p)
  <2>1. CASE Return
    BY <2>1, <1>2, ReturnStack DEF HostInv, StackInv
  <2>2. ASSUME NEW at \in Callbacks, Enter(Server, at)
        PROVE  /\ stack' \in Seq(Frame) /\ WaitsOnTop'
               /\ Top' = [of |-> Server, at |-> at]
               /\ at \notin {"connecting", "disconnecting", "polling"}
               /\ \A p \in Objects : Polled(p)' => Polled(p) \/ at = "polling"
    BY <2>2, <1>2, EnterStack DEF HostInv, StackInv, Callbacks
  <2> QED
    BY <1>1, <2>1, <2>2
<1>4. HostTypeOK'
  <2>1. host[Server] # Null
    BY <1>1, NullIsNoHost DEF HostInv
  <2>2. peers' \subseteq Hosts
    BY <1>1, <2>1 DEF HostInv, HostTypeOK
  <2> QED
    BY <1>1, <1>3, <2>2 DEF HostInv, HostTypeOK, Frame
<1>5. StackInv'
  BY <1>1, <1>3 DEF HostInv, StackInv, TopInv, PollInv, In
<1>6. PointersLive'
  BY <1>1 DEF HostInv, PointersLive
<1>7. Apart'
  <2>1. host[Server] # Null
    BY <1>1, NullIsNoHost DEF HostInv
  <2>2. \A d \in Clients : host[d] # host[Server]
    BY <2>1, HostAssumption DEF HostInv, Apart
  <2> QED
    BY <1>1, <2>2 DEF HostInv, Apart
<1>8. StateTells' /\ HostsHavePeers'
  BY <1>1 DEF HostInv, StateTells, HostsHavePeers
<1> QED
  BY <1>4, <1>5, <1>6, <1>7, <1>8 DEF HostInv

(* The same of a client, which loses its peer with the connection.         *)
LEMMA ClientTurnStep == ASSUME HostInv, NEW c \in Clients, ClientTurn(c) PROVE HostInv'
<1> USE DEF Objects
<1>1. /\ In(c, "polling")
      /\ UNCHANGED <<born, alive, inits, host, peers, running>>
      /\ Return \/ \E at \in Callbacks : Enter(c, at)
      /\ \/ UNCHANGED <<peer, state, upsets>>
         \/ /\ peer' = [peer EXCEPT ![c] = Null]
            /\ state' = [state EXCEPT ![c] = "Disconnected"]
            /\ upsets' = upsets \cup {"serverLost"}
  BY DEF ClientTurn, Note, Callbacks
<1>2. Top.at = "polling" /\ stack # <<>>
  BY <1>1 DEF In, Top
<1>3. /\ stack' \in Seq(Frame) /\ WaitsOnTop'
      /\ Top'.at \notin {"connecting", "disconnecting"}
      /\ \A p \in Objects : Polled(p)' => Polled(p)
  <2>1. CASE Return
    BY <2>1, <1>2, ReturnStack DEF HostInv, StackInv
  <2>2. ASSUME NEW at \in Callbacks, Enter(c, at)
        PROVE  /\ stack' \in Seq(Frame) /\ WaitsOnTop'
               /\ Top' = [of |-> c, at |-> at]
               /\ at \notin {"connecting", "disconnecting", "polling"}
               /\ \A p \in Objects : Polled(p)' => Polled(p) \/ at = "polling"
    BY <2>2, <1>2, EnterStack DEF HostInv, StackInv, Callbacks
  <2> QED
    BY <1>1, <2>1, <2>2
<1>4. HostTypeOK'
  BY <1>1, <1>3 DEF HostInv, HostTypeOK, Frame, Upset
<1>5. StackInv'
  BY <1>1, <1>3 DEF HostInv, StackInv, TopInv, PollInv, In
<1>6. PointersLive' /\ Apart'
  BY <1>1 DEF HostInv, HostTypeOK, PointersLive, Apart
<1>7. StateTells'
  BY <1>1 DEF HostInv, HostTypeOK, StateTells
<1>8. HostsHavePeers'
  <2> SUFFICES ASSUME upsets' \subseteq {"endedInPoll", "noHostInPoll"}
               PROVE  \A d \in Clients : host'[d] # Null => peer'[d] # Null
    BY DEF HostsHavePeers
  <2>1. upsets' = upsets /\ peer' = peer
    BY <1>1
  <2> QED
    BY <1>1, <2>1 DEF HostInv, HostsHavePeers
<1> QED
  BY <1>4, <1>5, <1>6, <1>7, <1>8 DEF HostInv

(* poll() starts only with a host, from the main loop.                     *)
LEMMA PollStep == ASSUME HostInv, NEW o \in Objects, Poll(o) PROVE HostInv'
<1>1. /\ stack = <<>> /\ host[o] # Null /\ Enter(o, "polling")
      /\ UNCHANGED <<born, alive, inits, host, peers, peer, running, state, upsets>>
  BY DEF Poll
<1>2. "polling" \in Loops \cup Callbacks /\ Top.at \notin {"connecting", "disconnecting"}
  BY <1>1 DEF Loops, Top
<1>3. /\ stack' \in Seq(Frame) /\ WaitsOnTop'
      /\ Top' = [of |-> o, at |-> "polling"]
      /\ \A p \in Objects : Polled(p)' => Polled(p) \/ p = o
  BY <1>1, <1>2, EnterStack DEF HostInv, StackInv
<1>4. HostTypeOK'
  BY <1>1, <1>3 DEF HostInv, HostTypeOK, Frame
<1>5. StackInv'
  BY <1>1, <1>3 DEF HostInv, StackInv, TopInv, PollInv, In
<1>6. PointersLive' /\ Apart' /\ StateTells' /\ HostsHavePeers'
  BY <1>1 DEF HostInv, PointersLive, Apart, StateTells, HostsHavePeers
<1> QED
  BY <1>4, <1>5, <1>6 DEF HostInv

(* The thread returns from a callback to the loop that ran it.             *)
LEMMA CallbackStep == ASSUME HostInv, CallbackReturns PROVE HostInv'
<1>1. /\ Top.at \in Callbacks /\ Return
      /\ UNCHANGED <<born, alive, inits, host, peers, peer, running, state, upsets>>
  BY DEF CallbackReturns
<1>2. stack # <<>>
  BY <1>1 DEF Top, Callbacks
<1>3. /\ stack' \in Seq(Frame) /\ WaitsOnTop'
      /\ Top'.at \notin {"connecting", "disconnecting"}
      /\ \A p \in Objects : Polled(p)' => Polled(p)
  BY <1>1, <1>2, ReturnStack DEF HostInv, StackInv
<1>4. HostTypeOK'
  BY <1>1, <1>3 DEF HostInv, HostTypeOK, Frame
<1>5. StackInv'
  BY <1>1, <1>3 DEF HostInv, StackInv, TopInv, PollInv, In
<1>6. PointersLive' /\ Apart' /\ StateTells' /\ HostsHavePeers'
  BY <1>1 DEF HostInv, PointersLive, Apart, StateTells, HostsHavePeers
<1> QED
  BY <1>4, <1>5, <1>6 DEF HostInv

(* One lemma for each operation makes the invariant inductive.             *)
LEMMA HostStep == HostInv /\ [HostNext]_hostVars => HostInv'
<1> SUFFICES ASSUME HostInv, [HostNext]_hostVars PROVE HostInv'
  OBVIOUS
<1>1. CASE Start
  BY <1>1, StartStep
<1>2. CASE Close
  BY <1>2, CloseStep
<1>3. CASE ServerTurn
  BY <1>3, ServerTurnStep
<1>4. ASSUME NEW c \in Clients,
             Connect(c) \/ ConnectTurn(c) \/ Disconnect(c) \/ DisconnectTurn(c) \/ ClientTurn(c)
      PROVE  HostInv'
  BY <1>4, ConnectStep, ConnectTurnStep, DisconnectStep, DisconnectTurnStep, ClientTurnStep
<1>5. ASSUME NEW o \in Objects, Poll(o) PROVE HostInv'
  BY <1>5, PollStep
<1>6. CASE CallbackReturns
  BY <1>6, CallbackStep
<1>7. CASE UNCHANGED hostVars
  BY <1>7 DEF hostVars, HostInv, HostTypeOK, StackInv, WaitsOnTop, TopInv, PollInv, In, Polled,
              Top, PointersLive, Apart, StateTells, HostsHavePeers
<1> QED
  BY <1>1, <1>2, <1>3, <1>4, <1>5, <1>6, <1>7 DEF HostNext

(* The invariant holds in every reachable state.                           *)
LEMMA HostInvariant == HostSpec => []HostInv
BY HostInit_Inv, HostStep, PTL DEF HostSpec

-----------------------------------------------------------------------------
(* A loop has a host to service, except in the named cases.                *)
LEMMA LoopsHaveHosts == HostInv => ServicesExist
<1> SUFFICES ASSUME HostInv, Top.at \in Loops,
                    upsets \cap {"endedInPoll", "noHostInPoll", "connectedTwice"} = {}
             PROVE  Serviceable(Top.of)
  BY DEF ServicesExist
<1> USE DEF Objects
<1>1. Top \in Frame /\ Top.of \in Objects /\ Top = [of |-> Top.of, at |-> Top.at]
  BY TopIsFrame DEF HostInv, Loops, Frame
<1>2. host[Top.of] # Null
  <2>1. CASE Top.at = "polling"
    BY <2>1, TopIsFrame DEF HostInv, StackInv, PollInv
  <2>2. CASE Top.at = "connecting"
    BY <2>2, <1>1 DEF HostInv, StackInv, TopInv, In
  <2>3. CASE Top.at = "disconnecting"
    <3>1. Top.of \in Clients /\ In(Top.of, "disconnecting")
      BY <2>3, <1>1 DEF HostInv, StackInv, TopInv, In
    <3>2. state[Top.of] # "Disconnected"
      BY <3>1 DEF HostInv, StackInv, TopInv
    <3> QED
      BY <3>1, <3>2 DEF HostInv, StateTells
  <2> QED
    BY <2>1, <2>2, <2>3 DEF Loops
<1> QED
  BY <1>1, <1>2 DEF HostInv, PointersLive, Serviceable

(* Calls nested to any depth leave every variable with its type.           *)
THEOREM HostTypesCorrect == HostSpec => []HostTypeOK
<1>1. HostInv => HostTypeOK
  BY DEF HostInv
<1> QED
  BY <1>1, HostInvariant, PTL

(* No pointer to a host ever dangles, whatever callbacks call.             *)
THEOREM HostPointersCorrect == HostSpec => []PointersLive
<1>1. HostInv => PointersLive
  BY DEF HostInv
<1> QED
  BY <1>1, HostInvariant, PTL

(* isRunning() and isConnected() can be trusted, but for the cases the     *)
(* property names.                                                         *)
THEOREM HostStatesCorrect == HostSpec => []StateTells
<1>1. HostInv => StateTells
  BY DEF HostInv
<1> QED
  BY <1>1, HostInvariant, PTL

(* poll(), connect() and disconnect() service hosts that exist, but for    *)
(* the cases the property names.                                           *)
THEOREM HostsCorrect == HostSpec => []ServicesExist
<1>1. HostInv => ServicesExist
  BY LoopsHaveHosts
<1> QED
  BY <1>1, HostInvariant, PTL

(* enet_initialize and enet_deinitialize are paired: as many calls of the  *)
(* first one as there are hosts are outstanding, so no object ends the     *)
(* library under another one.                                              *)
THEOREM LibraryCorrect == HostSpec => []InitialisedWhileUsed
<1> DEFINE Count == IsFiniteSet(alive) /\ InitialisedWhileUsed
<1>1. HostInit => Count
  BY FS_EmptySet DEF HostInit, InitialisedWhileUsed
<1>2. ASSUME HostInv, Count, [HostNext]_hostVars PROVE Count'
  <2>1. inits \in Int /\ IsFiniteSet(alive) /\ Cardinality(alive) \in Nat /\ Cardinality(alive) <= inits
    BY <1>2, FS_CardinalityType DEF HostInv, HostTypeOK, InitialisedWhileUsed
  <2>2. ASSUME NEW o \in Objects, NEW S, Create(o, S) PROVE Count'
    <3>1. inits' = inits + 1 /\ (alive' = alive \/ \E h : alive' = alive \cup {h})
      BY <2>2 DEF Create
    <3>2. IsFiniteSet(alive') /\ Cardinality(alive') \in Nat /\ Cardinality(alive') <= Cardinality(alive) + 1
      BY <2>1, <3>1, FS_AddElement, FS_CardinalityType
    <3> QED
      BY <2>1, <3>1, <3>2 DEF InitialisedWhileUsed
  <2>3. ASSUME NEW o \in Objects, Destroy(o), host[o] \in alive PROVE Count'
    <3>1. inits' = inits - 1 /\ alive' = alive \ {host[o]}
      BY <2>3 DEF Destroy
    <3>2. IsFiniteSet(alive') /\ Cardinality(alive') = Cardinality(alive) - 1
      BY <2>1, <2>3, <3>1, FS_RemoveElement
    <3> QED
      BY <2>1, <3>1, <3>2 DEF InitialisedWhileUsed
  <2>4. CASE Start
    BY <2>2, <2>4 DEF Start, Objects
  <2>5. CASE Close
    BY <1>2, <2>3, <2>5 DEF Close, Objects, HostInv, PointersLive
  <2>6. ASSUME NEW c \in Clients, Connect(c) PROVE Count'
    BY <2>2, <2>6 DEF Connect, Objects
  <2>7. ASSUME NEW c \in Clients, DisconnectTurn(c) PROVE Count'
    BY <2>3, <2>7 DEF DisconnectTurn, Serviceable, Objects
  <2>8. CASE UNCHANGED <<alive, inits>>
    BY <1>2, <2>8 DEF InitialisedWhileUsed
  <2> QED
    BY <1>2, <2>4, <2>5, <2>6, <2>7, <2>8
       DEF HostNext, hostVars, ServerTurn, ConnectTurn, Disconnect, ClientTurn, Poll, CallbackReturns
<1>3. Count => InitialisedWhileUsed
  OBVIOUS
<1> HIDE DEF Count
<1> QED
  BY <1>1, <1>2, <1>3, HostInvariant, PTL DEF HostSpec

(* No host is left behind in any order of calls, as long as connections    *)
(* come about and are ended by disconnect() and start() is called once.    *)
THEOREM NothingLeft == HostSpec => []NothingLeftBehind
<1>1. HostInit => NothingLeftBehind
  BY DEF HostInit, NothingLeftBehind
<1>2. ASSUME HostInv, NothingLeftBehind, [HostNext]_hostVars PROVE NothingLeftBehind'
  <2> SUFFICES ASSUME upsets' \subseteq {"endedInPoll", "noHostInPoll"}, NEW h \in alive'
               PROVE  \E o \in Objects : host'[o] = h
    BY DEF NothingLeftBehind
  <2>1. upsets \subseteq upsets'
    BY <1>2 DEF HostNext, hostVars, Start, Close, ServerTurn, Connect, ConnectTurn, Disconnect,
                DisconnectTurn, ClientTurn, Poll, CallbackReturns, Create, Note
  <2>2. /\ \A g \in alive : \E o \in Objects : host[o] = g
        /\ "startedTwice" \notin upsets'
        /\ "connectedTwice" \notin upsets'
    BY <1>2, <2>1 DEF NothingLeftBehind
  <2>3. ASSUME NEW o \in Objects, NEW S \in SUBSET Upset, Create(o, S), host[o] = Null
        PROVE  \E p \in Objects : host'[p] = h
    <3>1. /\ \A p \in Objects : p # o => host'[p] = host[p]
          /\ \/ host'[o] = Null /\ alive' = alive
             \/ host'[o] = born' /\ alive' = alive \cup {born'}
      BY <1>2, <2>3, CreateFacts DEF HostInv
    <3>2. Null \notin alive
      BY <1>2, NullIsNoHost DEF HostInv
    <3> QED
      BY <2>2, <2>3, <3>1, <3>2
  <2>4. ASSUME NEW o \in Objects, Destroy(o) PROVE \E p \in Objects : host'[p] = h
    <3>1. alive' = alive \ {host[o]} /\ \A p \in Objects : p # o => host'[p] = host[p]
      BY <1>2, <2>4, DestroyFacts DEF HostInv
    <3> QED
      BY <2>2, <3>1
  <2>5. CASE Start
    <3>1. Create(Server, When(running, "startedTwice")) /\ When(running, "startedTwice") \in SUBSET Upset
      BY <2>5 DEF Start, When, Upset
    <3>2. ~running /\ "startedTwice" \notin upsets
      BY <2>1, <2>2, <3>1 DEF Create, Note, When
    <3> QED
      BY <1>2, <2>3, <3>1, <3>2 DEF HostInv, StateTells, Objects
  <2>6. ASSUME NEW c \in Clients, Connect(c) PROVE \E p \in Objects : host'[p] = h
    <3>1. PICK refused \in BOOLEAN :
              Create(c, When(peer[c] # Null, "connectedTwice") \cup When(refused, "connectFailed"))
      BY <2>6 DEF Connect
    <3>2. peer[c] = Null
      BY <2>2, <3>1 DEF Create, Note, When
    <3>3. host[c] = Null
      BY <1>2, <2>1, <3>2 DEF HostInv, HostsHavePeers
    <3>4. When(peer[c] # Null, "connectedTwice") \cup When(refused, "connectFailed") \in SUBSET Upset
      BY DEF When, Upset
    <3> QED
      BY <2>3, <3>1, <3>3, <3>4 DEF Objects
  <2>7. CASE Close
    BY <2>4, <2>7 DEF Close, Objects
  <2>8. ASSUME NEW c \in Clients, DisconnectTurn(c) PROVE \E p \in Objects : host'[p] = h
    BY <2>4, <2>8 DEF DisconnectTurn, Objects
  <2>9. CASE UNCHANGED <<alive, host>>
    BY <2>2, <2>9
  <2> QED
    BY <1>2, <2>5, <2>6, <2>7, <2>8, <2>9
       DEF HostNext, hostVars, ServerTurn, ConnectTurn, Disconnect, ClientTurn, Poll, CallbackReturns
<1> QED
  BY <1>1, <1>2, HostInvariant, PTL DEF HostSpec

=============================================================================
