----------------------------- MODULE BufferProofs -----------------------------
(***************************************************************************)
(* Proofs about the two components that keep data in order in memory: the  *)
(* log of Tools/Logger.h (Logger) and the bytes of a packet (Framing).     *)
(***************************************************************************)
EXTENDS Logger, Framing, SequenceTheorems, TLAPS

-----------------------------------------------------------------------------
(* Logger: the last Cap messages, for every Cap.                           *)

(* The code's capacity is 200; all that matters is that there is room.     *)
HasRoom == Cap \in Nat \ {0}

(* What passed the level is well typed and the log never exceeds the cap:  *)
(* the invariant of Tools/Logger.h for every capacity and any calls.       *)
LogInv == LogTypeOK /\ KeepsTheLast

(* An empty log keeps the last messages of an empty history, and a message *)
(* stored by log() becomes the last of both, the oldest making room.       *)
LEMMA StoreKeeps ==
    ASSUME HasRoom, LogInv, NEW e \in LogEntry, Store(e), kept' = Append(kept, e)
    PROVE  /\ entries' \in Seq(LogEntry)
           /\ kept' \in Seq(LogEntry)
           /\ KeepsTheLast'
<1> USE DEF HasRoom, LogInv, LogTypeOK
<1>1. kept' \in Seq(LogEntry) /\ Len(kept') = Len(kept) + 1
    OBVIOUS
<1>2. /\ \A j \in 1 .. Len(kept) : kept'[j] = kept[j]
      /\ kept'[Len(kept) + 1] = e
    OBVIOUS
<1>3. CASE Len(entries) >= Cap
  <2>1. Len(entries) = Cap /\ Len(kept) >= Cap
      BY <1>3 DEF KeepsTheLast
  <2>2. Tail(entries) \in Seq(LogEntry) /\ Len(Tail(entries)) = Cap - 1
      BY <2>1
  <2>3. \A i \in 1 .. Cap - 1 : Tail(entries)[i] = entries[i + 1]
      BY <2>1
  <2>4. entries' = Append(Tail(entries), e)
      BY <1>3 DEF Store
  <2>5. entries' \in Seq(LogEntry) /\ Len(entries') = Cap
      BY <2>2, <2>4
  <2>6. entries'[Cap] = e /\ \A i \in 1 .. Cap - 1 : entries'[i] = entries[i + 1]
      BY <2>2, <2>3, <2>4
  <2>7. \A i \in 1 .. Cap : entries'[i] = kept'[Len(kept) + 1 - Cap + i]
    <3> SUFFICES ASSUME NEW i \in 1 .. Cap
                 PROVE  entries'[i] = kept'[Len(kept) + 1 - Cap + i]
        OBVIOUS
    <3>1. CASE i = Cap
        BY <3>1, <1>2, <2>6
    <3>2. CASE i # Cap
      <4>1. entries'[i] = entries[i + 1]
          BY <3>2, <2>6
      <4>2. entries[i + 1] = kept[Len(kept) - Cap + (i + 1)]
        <5> DEFINE j == i + 1
        <5>1. j \in 1 .. Len(entries)
            BY <3>2, <2>1
        <5> HIDE DEF j
        <5>2. entries[j] = kept[Len(kept) - Len(entries) + j]
            BY <5>1 DEF KeepsTheLast
        <5>3. entries[j] = kept[Len(kept) - Cap + j]
            BY <5>2, <2>1
        <5> QED  BY <5>3 DEF j
      <4>3. Len(kept) - Cap + (i + 1) \in 1 .. Len(kept)
          BY <3>2, <2>1
      <4> QED  BY <4>1, <4>2, <4>3, <1>2
    <3> QED  BY <3>1, <3>2
  <2>8. Len(kept') >= Cap /\ Len(kept') - Len(entries') = Len(kept) + 1 - Cap
      BY <1>1, <2>1, <2>5
  <2>9. Len(entries') = IF Len(kept') < Cap THEN Len(kept') ELSE Cap
      BY <1>1, <2>5, <2>8
  <2>10. \A i \in 1 .. Len(entries') : entries'[i] = kept'[Len(kept') - Len(entries') + i]
      BY <2>5, <2>7, <2>8
  <2> QED  BY <1>1, <2>5, <2>9, <2>10 DEF KeepsTheLast
<1>4. CASE Len(entries) < Cap
  <2>1. Len(entries) = Len(kept) /\ Len(kept) < Cap
      BY <1>4 DEF KeepsTheLast
  <2>2. entries' = Append(entries, e)
      BY <1>4 DEF Store
  <2>3. /\ entries' \in Seq(LogEntry) /\ Len(entries') = Len(kept')
        /\ entries'[Len(kept) + 1] = e
        /\ \A i \in 1 .. Len(kept) : entries'[i] = entries[i]
      BY <2>1, <2>2, <1>1
  <2>4. \A i \in 1 .. Len(kept) : entries[i] = kept[i]
      BY <2>1 DEF KeepsTheLast
  <2>5. \A i \in 1 .. Len(entries') : entries'[i] = kept'[i]
      BY <1>1, <1>2, <2>3, <2>4
  <2> QED  BY <1>1, <2>1, <2>3, <2>5 DEF KeepsTheLast
<1> QED  BY <1>3, <1>4

(* Every call of the logger keeps the invariant: one step for each call.   *)
LEMMA LogStep == HasRoom /\ LogInv /\ [LogNext]_loggerVars => LogInv'
<1> SUFFICES ASSUME HasRoom, LogInv, [LogNext]_loggerVars PROVE LogInv'
    OBVIOUS
<1>1. ASSUME NEW l \in LogLevel \ {None}, Log(l) PROVE LogInv'
  <2> DEFINE e == [level |-> l, call |-> calls]
  <2>1. calls' \in Nat /\ level' \in LogLevel
      BY <1>1 DEF Log, LogInv, LogTypeOK
  <2>2. CASE l < level
      BY <1>1, <2>1, <2>2 DEF Log, LogInv, LogTypeOK, KeepsTheLast
  <2>3. CASE ~(l < level)
    <3>1. e \in LogEntry
        BY DEF LogInv, LogTypeOK, LogEntry
    <3>2. Store(e) /\ kept' = Append(kept, e)
        BY <1>1, <2>3 DEF Log
    <3> HIDE DEF e
    <3> QED  BY <2>1, <3>1, <3>2, StoreKeeps DEF LogInv, LogTypeOK
  <2> QED  BY <2>2, <2>3
<1>2. ASSUME NEW l \in LogLevel, SetLevel(l) PROVE LogInv'
    BY <1>2 DEF SetLevel, LogInv, LogTypeOK, KeepsTheLast
<1>3. CASE Clear
    BY <1>3 DEF HasRoom, Clear, LogInv, LogTypeOK, KeepsTheLast
<1>4. CASE UNCHANGED loggerVars
    BY <1>4 DEF loggerVars, LogInv, LogTypeOK, KeepsTheLast
<1> QED  BY <1>1, <1>2, <1>3, <1>4 DEF LogNext

(* It holds always.                                                        *)
LEMMA LogInvariant == HasRoom => (LogSpec => []LogInv)
<1> SUFFICES ASSUME HasRoom PROVE LogSpec => []LogInv
    OBVIOUS
<1>1. LogInit => LogInv
    BY DEF HasRoom, LogInit, LogInv, LogTypeOK, KeepsTheLast, LogLevel, Info
<1> QED  BY <1>1, LogStep, PTL DEF LogSpec

(* The log holds exactly the last messages that passed the level, at most  *)
(* Cap of them, for every Cap that is not zero.                            *)
THEOREM LogCorrect == Cap \in Nat \ {0} => (LogSpec => []KeepsTheLast)
<1> SUFFICES ASSUME HasRoom PROVE LogSpec => []KeepsTheLast
    BY DEF HasRoom
<1>1. LogInv => KeepsTheLast
    BY DEF LogInv
<1> QED  BY <1>1, LogInvariant, PTL

-----------------------------------------------------------------------------
(* Framing: bytes, wherever they are in a packet.                          *)

(* A byte of a packet.                                                     *)
Byte == [of : Nat \cup {Garbage}, width : Nat, byte : Nat]

-----------------------------------------------------------------------------
(* Bytes: one value, read back.                                            *)

(* What the bytes of a value are.                                          *)
LEMMA BytesAre ==
  ASSUME NEW v \in Nat \cup {Garbage}, NEW w \in Nat
  PROVE  /\ Bytes(v, w) \in Seq(Byte) /\ Len(Bytes(v, w)) = w
         /\ \A i \in 1 .. w : Bytes(v, w)[i] = [of |-> v, width |-> w, byte |-> i]
<1>1. Bytes(v, w) \in [1 .. w -> Byte]
  BY DEF Bytes, Byte
<1> QED
  BY <1>1 DEF Bytes

(* The bytes of a value make that value.                                   *)
LEMMA ValueOf ==
  ASSUME NEW v \in Nat \cup {Garbage}, NEW w \in Nat \ {0}
  PROVE  Value(Bytes(v, w)) = v
<1>1. Len(Bytes(v, w)) = w /\ Head(Bytes(v, w)) = Bytes(v, w)[1]
  BY BytesAre
<1>2. Head(Bytes(v, w)).of = v
  <2>1. 1 \in 1 .. w
    OBVIOUS
  <2>2. Bytes(v, w)[1] = [of |-> v, width |-> w, byte |-> 1]
    BY <2>1, BytesAre
  <2> QED
    BY <1>1, <2>2
<1> QED
  BY <1>1, <1>2 DEF Value

(* What is held at the position from onwards.                              *)
Holds(d, from, s) ==
    /\ from \in Nat /\ from + Len(s) <= Len(d)
    /\ \A j \in 1 .. Len(s) : d[from + j] = s[j]

(* What is held is what is cut out.                                        *)
LEMMA SliceIs ==
  ASSUME NEW d \in Seq(Byte), NEW from, NEW s \in Seq(Byte), Holds(d, from, s)
  PROVE  SubSeq(d, from + 1, from + Len(s)) = s
<1>1. from \in Nat /\ from + Len(s) <= Len(d)
  BY DEF Holds
<1>2. /\ SubSeq(d, from + 1, from + Len(s)) \in Seq(Byte)
      /\ Len(SubSeq(d, from + 1, from + Len(s))) = Len(s)
  BY <1>1
<1>3. \A j \in 1 .. Len(s) : SubSeq(d, from + 1, from + Len(s))[j] = s[j]
  BY <1>1 DEF Holds
<1> QED
  BY <1>2, <1>3, SeqEqual

(* The bytes of a number read back as it, wherever they are.               *)
LEMMA ScalarReads ==
  ASSUME data \in Seq(Byte), NEW from, NEW v \in Nat, NEW w \in Nat \ {0},
         Holds(data, from, Bytes(v, w))
  PROVE  ReadScalar(from, w) = Ok(v, w) /\ Value(Slice(from, w)) = v
<1>1. Slice(from, w) = Bytes(v, w)
  BY BytesAre, SliceIs DEF Slice
<1>2. ~ from + w > Len(data)
  BY BytesAre DEF Holds
<1> QED
  BY <1>1, <1>2, ValueOf DEF ReadScalar

-----------------------------------------------------------------------------
(* Several values of one width.                                            *)

(* What the bytes of several values are.                                   *)
LEMMA SpreadAre ==
  ASSUME NEW vs \in Seq(Nat), NEW w \in {1, 4}
  PROVE  /\ Spread(vs, w) \in Seq(Byte) /\ Len(Spread(vs, w)) = w * Len(vs)
         /\ \A i \in 1 .. Len(vs), b \in 1 .. w :
               Spread(vs, w)[w * (i - 1) + b] = Bytes(vs[i], w)[b]
<1>1. \A i \in 1 .. w * Len(vs) :
         ((i - 1) \div w) + 1 \in 1 .. Len(vs) /\ ((i - 1) % w) + 1 \in 1 .. w
  <2>1. CASE w = 1
    BY <2>1
  <2>2. CASE w = 4
    BY <2>2
  <2> QED
    BY <2>1, <2>2
<1>0. Len(vs) \in Nat /\ w * Len(vs) \in Nat
  OBVIOUS
<1>2. Spread(vs, w) \in [1 .. w * Len(vs) -> Byte]
  <2>1. ASSUME NEW i \in 1 .. w * Len(vs)
        PROVE  Bytes(vs[((i - 1) \div w) + 1], w)[((i - 1) % w) + 1] \in Byte
    <3> DEFINE n == ((i - 1) \div w) + 1
               b == ((i - 1) % w) + 1
    <3>1. n \in 1 .. Len(vs) /\ b \in 1 .. w /\ w \in Nat
      BY <1>1
    <3> HIDE DEF n, b
    <3>2. vs[n] \in Nat
      BY <3>1, ElementOfSeq
    <3>3. Bytes(vs[n], w)[b] \in Byte
      BY <3>1, <3>2, BytesAre, ElementOfSeq
    <3> QED
      BY <3>3 DEF n, b
  <2> QED
    BY <2>1 DEF Spread
<1>4. Spread(vs, w) \in Seq(Byte) /\ Len(Spread(vs, w)) = w * Len(vs)
  BY <1>0, <1>2
<1>3. ASSUME NEW i \in 1 .. Len(vs), NEW b \in 1 .. w
      PROVE  /\ w * (i - 1) + b \in 1 .. w * Len(vs)
             /\ (((w * (i - 1) + b) - 1) \div w) + 1 = i
             /\ (((w * (i - 1) + b) - 1) % w) + 1 = b
  <2>1. CASE w = 1
    BY <2>1
  <2>2. CASE w = 4
    BY <2>2
  <2> QED
    BY <2>1, <2>2
<1>5. ASSUME NEW i \in 1 .. Len(vs), NEW b \in 1 .. w
      PROVE  Spread(vs, w)[w * (i - 1) + b] = Bytes(vs[i], w)[b]
  BY <1>3 DEF Spread
<1> QED
  BY <1>4, <1>5

(* A value among them reads back.                                          *)
LEMMA SpreadReads ==
  ASSUME data \in Seq(Byte), NEW from, NEW vs \in Seq(Nat), NEW w \in {1, 4},
         Holds(data, from, Spread(vs, w)), NEW i \in 1 .. Len(vs)
  PROVE  Value(Slice(from + w * (i - 1), w)) = vs[i]
<1> DEFINE at == from + w * (i - 1)
<1>0. Len(vs) \in Nat /\ i \in 1 .. Len(vs) /\ from \in Nat /\ Len(data) \in Nat
  BY DEF Holds
<1>1. /\ from + w * Len(vs) <= Len(data)
      /\ \A j \in 1 .. w * Len(vs) : data[from + j] = Spread(vs, w)[j]
  BY SpreadAre DEF Holds
<1>2. /\ at \in Nat /\ at + w <= from + w * Len(vs) /\ w * Len(vs) \in Nat
      /\ \A b \in 1 .. w : /\ at + b = from + (w * (i - 1) + b)
                            /\ w * (i - 1) + b \in 1 .. w * Len(vs)
  <2>1. CASE w = 1
    BY <1>0, <2>1
  <2>2. CASE w = 4
    BY <1>0, <2>2
  <2> QED
    BY <2>1, <2>2
<1>3. ASSUME NEW b \in 1 .. w PROVE data[at + b] = Bytes(vs[i], w)[b]
  <2>1. at + b = from + (w * (i - 1) + b) /\ w * (i - 1) + b \in 1 .. w * Len(vs)
    BY <1>2
  <2> QED
    BY <1>1, <2>1, SpreadAre
<1>4. vs[i] \in Nat /\ w \in Nat \ {0}
  BY ElementOfSeq
<1>5. at + w <= Len(data)
  <2> HIDE DEF at
  <2> QED
    BY <1>0, <1>1, <1>2, <1>4
<1> HIDE DEF at
<1>6. Holds(data, at, Bytes(vs[i], w))
  BY <1>2, <1>3, <1>4, <1>5, BytesAre DEF Holds
<1> QED
  BY <1>4, <1>6, ScalarReads DEF at

-----------------------------------------------------------------------------
(* Sequences of bytes behind each other.                                   *)

(* Their lengths add up.                                                   *)
LEMMA Joined ==
  ASSUME NEW s \in Seq(Byte), NEW t \in Seq(Byte)
  PROVE  s \o t \in Seq(Byte) /\ Len(s \o t) = Len(s) + Len(t)
OBVIOUS

(* Both are held, the second one behind the first.                         *)
LEMMA HoldsParts ==
  ASSUME NEW d \in Seq(Byte), NEW from, NEW s \in Seq(Byte), NEW t \in Seq(Byte),
         Holds(d, from, s \o t)
  PROVE  Holds(d, from, s) /\ Holds(d, from + Len(s), t)
<1>1. /\ Len(s \o t) = Len(s) + Len(t) /\ Len(s) \in Nat /\ Len(t) \in Nat
      /\ from \in Nat /\ from + Len(s \o t) <= Len(d) /\ Len(d) \in Nat
  BY DEF Holds
<1>2. ASSUME NEW j \in 1 .. Len(s) PROVE d[from + j] = s[j]
  <2>1. j \in 1 .. Len(s \o t) /\ (s \o t)[j] = s[j]
    BY <1>1
  <2> QED
    BY <2>1 DEF Holds
<1>3. ASSUME NEW j \in 1 .. Len(t) PROVE d[(from + Len(s)) + j] = t[j]
  <2>1. Len(s) + j \in 1 .. Len(s \o t) /\ (s \o t)[Len(s) + j] = t[j]
    BY <1>1
  <2>2. d[from + (Len(s) + j)] = (s \o t)[Len(s) + j]
    BY <2>1 DEF Holds
  <2>3. from + (Len(s) + j) = (from + Len(s)) + j
    BY <1>1
  <2> QED
    BY <2>1, <2>2, <2>3
<1> QED
  BY <1>1, <1>2, <1>3 DEF Holds

(* More bytes in front or behind move what is held, or leave it.           *)
LEMMA HoldsMore ==
  ASSUME NEW d \in Seq(Byte), NEW e \in Seq(Byte), NEW from, NEW s \in Seq(Byte), Holds(d, from, s)
  PROVE  Holds(d \o e, from, s) /\ Holds(e \o d, Len(e) + from, s)
<1>1. /\ Len(d \o e) = Len(d) + Len(e) /\ Len(e \o d) = Len(d) + Len(e)
      /\ Len(d) \in Nat /\ Len(e) \in Nat /\ Len(s) \in Nat
      /\ from \in Nat /\ from + Len(s) <= Len(d)
  BY DEF Holds
<1>2. ASSUME NEW j \in 1 .. Len(s)
      PROVE  (d \o e)[from + j] = s[j] /\ (e \o d)[(Len(e) + from) + j] = s[j]
  <2>0. d[from + j] = s[j]
    BY DEF Holds
  <2>1. from + j \in 1 .. Len(d) /\ d[from + j] = s[j]
    BY <1>1, <2>0
  <2>2. (d \o e)[from + j] = d[from + j]
    BY <2>1
  <2>3. (e \o d)[Len(e) + (from + j)] = d[from + j]
    BY <1>1, <2>1
  <2>4. Len(e) + (from + j) = (Len(e) + from) + j
    BY <1>1
  <2> QED
    BY <2>1, <2>2, <2>3, <2>4
<1> QED
  BY <1>1, <1>2 DEF Holds

(* A sequence holds itself.                                                *)
LEMMA HoldsItself == ASSUME NEW s \in Seq(Byte) PROVE Holds(s, 0, s)
BY DEF Holds

-----------------------------------------------------------------------------
(* A PacketHeader has eight bytes, and the size is the last four of them.  *)
LEMMA HeaderIs ==
  ASSUME NEW id \in Nat, NEW size \in Nat
  PROVE  /\ Header(id, size) \in Seq(Byte) /\ Len(Header(id, size)) = HeaderSize
         /\ \A d \in Seq(Byte), from \in Nat :
               Holds(d, from, Header(id, size)) => Holds(d, from + 4, Bytes(size, 4))
<1> DEFINE a == Bytes(id, 2)
           b == Bytes(Garbage, 2)
           c == Bytes(size, 4)
<1>1. /\ a \in Seq(Byte) /\ Len(a) = 2
      /\ b \in Seq(Byte) /\ Len(b) = 2
      /\ c \in Seq(Byte) /\ Len(c) = 4
  BY BytesAre
<1>2. Header(id, size) = (a \o b) \o c
  BY DEF Header, Width
<1> HIDE DEF a, b, c
<1>3. a \o b \in Seq(Byte) /\ Len(a \o b) = 4
  <2>1. a \o b \in Seq(Byte) /\ Len(a \o b) = Len(a) + Len(b)
    BY <1>1, Joined
  <2> QED
    BY <1>1, <2>1
<1>4. (a \o b) \o c \in Seq(Byte) /\ Len((a \o b) \o c) = 8
  <2>1. (a \o b) \o c \in Seq(Byte) /\ Len((a \o b) \o c) = Len(a \o b) + Len(c)
    BY <1>1, <1>3, Joined
  <2> QED
    BY <1>1, <1>3, <2>1
<1>5. ASSUME NEW d \in Seq(Byte), NEW from \in Nat, Holds(d, from, (a \o b) \o c)
      PROVE  Holds(d, from + 4, c)
  BY <1>1, <1>3, <1>5, HoldsParts
<1> QED
  BY <1>2, <1>4, <1>5 DEF HeaderSize, c

(* What is serialized is what the other side gets.                         *)
LEMMA DeserializeIsInverse ==
  ASSUME NEW id \in Nat, NEW d \in Seq(Byte)
  PROVE  /\ Deserialize(Serialize(id, d)) = d
         /\ Serialize(id, d) = Header(id, Len(d)) \o d /\ Serialize(id, d) \in Seq(Byte)
<1> DEFINE h == Header(id, Len(d))
           buf == Serialize(id, d)
<1>1. h \in Seq(Byte) /\ Len(h) = 8 /\ buf = h \o d /\ Len(d) \in Nat
  BY HeaderIs DEF Serialize, HeaderSize
<1>2. buf \in Seq(Byte)
  BY <1>1
<1>3. Holds(buf, 0, h) /\ Holds(buf, 8, d)
  <2>1. Holds(h \o d, 0, h \o d)
    BY <1>1, <1>2, HoldsItself
  <2>2. Holds(buf, 0, h) /\ Holds(buf, 0 + Len(h), d)
    BY <1>1, <1>2, <2>1, HoldsParts
  <2> QED
    BY <1>1, <2>2
<1>4. Holds(buf, 4, Bytes(Len(d), 4))
  <2>1. Holds(buf, 0 + 4, Bytes(Len(d), 4))
    BY <1>1, <1>2, <1>3, HeaderIs
  <2> QED
    BY <2>1
<1> HIDE DEF buf, h
<1>5. /\ Bytes(Len(d), 4) \in Seq(Byte) /\ Len(Bytes(Len(d), 4)) = 4
      /\ Value(Bytes(Len(d), 4)) = Len(d)
  <2>1. Len(d) \in Nat \cup {Garbage}
    BY <1>1
  <2>2. Bytes(Len(d), 4) \in Seq(Byte) /\ Len(Bytes(Len(d), 4)) = 4
    BY <2>1, BytesAre
  <2>3. Value(Bytes(Len(d), 4)) = Len(d)
    BY <2>1, ValueOf
  <2> QED
    BY <2>2, <2>3
<1>6. SubSeq(buf, 5, 8) = Bytes(Len(d), 4)
  <2>1. SubSeq(buf, 4 + 1, 4 + 4) = Bytes(Len(d), 4)
    BY <1>2, <1>4, <1>5, SliceIs
  <2> QED
    BY <2>1
<1>7. SubSeq(buf, 8 + 1, 8 + Len(d)) = d
  BY <1>2, <1>3, SliceIs
<1>8. Deserialize(buf) = SubSeq(buf, 8 + 1, 8 + Value(SubSeq(buf, 5, 8)))
  BY DEF Deserialize, HeaderSize
<1> QED
  BY <1>1, <1>2, <1>5, <1>6, <1>7, <1>8 DEF buf, h

-----------------------------------------------------------------------------
(* The values that are read back, and their bytes.                         *)
ShortString == {f \in String : Len(f.value) < LenSpan}
Field == Scalar \cup ShortString \cup Struct \cup [type : {"header"}, value : Nat]

Image(f) == IF f.type = "header" THEN Header(0, f.value) ELSE Encode(f)

(* The raylib types of Core/Serialization.h.                               *)
LEMMA StructsAre ==
  Structs = {"Vector2", "Vector3", "Vector4", "Rectangle", "Color", "Matrix"}
BY DEF Structs, WriteOrder

(* The bytes of a string: its length, which no cut changes, and its text.  *)
LEMMA StringIs ==
  ASSUME NEW f \in ShortString
  PROVE  /\ f.value \in Seq(Nat) /\ Len(f.value) \in Nat
         /\ Encode(f) = Bytes(Len(f.value), 2) \o Spread(f.value, 1)
         /\ Encode(f) \in Seq(Byte) /\ Len(Encode(f)) = 2 + Len(f.value)
<1>1. /\ f.type \in {"string", "loop"} /\ f.value \in BoundedSeq(Chars, TextLimit)
      /\ Len(f.value) < LenSpan
  BY DEF ShortString, String
<1>2. PICK n \in 0 .. TextLimit : f.value \in [1 .. n -> Chars]
  BY <1>1 DEF BoundedSeq, SeqOf
<1>3. f.value \in Seq(Nat) /\ Len(f.value) = n /\ n \in Nat /\ n < LenSpan /\ LenSpan \in Nat
  <2>1. n \in Nat /\ LenSpan \in Nat
    BY FramingAssumption
  <2>2. f.value \in [1 .. n -> Nat]
    BY <1>2, FramingAssumption
  <2>3. f.value \in Seq(Nat) /\ Len(f.value) = n
    BY <2>1, <2>2
  <2> QED
    BY <1>1, <2>1, <2>3
<1>4. n % LenSpan = n
  BY <1>3
<1>5. /\ Bytes(n, 2) \in Seq(Byte) /\ Len(Bytes(n, 2)) = 2
      /\ Spread(f.value, 1) \in Seq(Byte) /\ Len(Spread(f.value, 1)) = n
  <2>1. Bytes(n, 2) \in Seq(Byte) /\ Len(Bytes(n, 2)) = 2
    BY <1>3, BytesAre
  <2>2. Spread(f.value, 1) \in Seq(Byte) /\ Len(Spread(f.value, 1)) = 1 * Len(f.value)
    BY <1>3, SpreadAre
  <2> QED
    BY <1>3, <2>1, <2>2
<1>6. SubSeq(Spread(f.value, 1), 1, n) = Spread(f.value, 1)
  BY <1>5, SubSeqFull
<1>7. Encode(f) = Bytes(n, 2) \o Spread(f.value, 1)
  <2>1. CASE f.type = "string"
    BY <1>3, <1>4, <1>6, <2>1, StructsAre DEF Encode, Text, Width
  <2>2. CASE f.type = "loop"
    BY <1>3, <1>4, <2>2, StructsAre DEF Encode, Text, Width
  <2> QED
    BY <1>1, <2>1, <2>2
<1> DEFINE h == Bytes(n, 2)
           b == Spread(f.value, 1)
<1>8. Len(h) = 2 /\ Len(b) = n /\ h \o b \in Seq(Byte) /\ Len(h \o b) = Len(h) + Len(b)
  BY <1>5, Joined
<1> QED
  BY <1>3, <1>7, <1>8

(* They read back as the string.                                           *)
LEMMA StringReads ==
  ASSUME data \in Seq(Byte), NEW f \in ShortString, NEW from, Holds(data, from, Encode(f))
  PROVE  ReadString(from) = Ok(f.value, Len(Encode(f)))
<1> DEFINE n == Len(f.value)
           cs == f.value
<1>1. /\ cs \in Seq(Nat) /\ n \in Nat /\ Len(cs) = n /\ Len(Encode(f)) = 2 + n
      /\ Bytes(n, 2) \in Seq(Byte) /\ Len(Bytes(n, 2)) = 2
      /\ Spread(cs, 1) \in Seq(Byte)
      /\ Holds(data, from, Bytes(n, 2) \o Spread(cs, 1))
  <2>1. /\ cs \in Seq(Nat) /\ n \in Nat /\ Len(cs) = n /\ Len(Encode(f)) = 2 + n
        /\ Encode(f) = Bytes(n, 2) \o Spread(cs, 1)
    BY StringIs
  <2> HIDE DEF n, cs
  <2>2. Bytes(n, 2) \in Seq(Byte) /\ Len(Bytes(n, 2)) = 2
    BY <2>1, BytesAre
  <2>3. Spread(cs, 1) \in Seq(Byte)
    BY <2>1, SpreadAre
  <2> QED
    BY <2>1, <2>2, <2>3
<1> HIDE DEF n, cs
<1>2. from \in Nat /\ from + (2 + n) <= Len(data) /\ Len(data) \in Nat
  BY <1>1 DEF Holds
<1>3. Holds(data, from, Bytes(n, 2)) /\ Holds(data, from + 2, Spread(cs, 1))
  BY <1>1, HoldsParts
<1>4. ReadScalar(from, 2) = Ok(n, 2)
  BY <1>1, <1>3, ScalarReads
<1>5. cs = [i \in 1 .. n |-> Value(Slice(from + 2 + i - 1, 1))]
  <2>1. ASSUME NEW i \in 1 .. n PROVE Value(Slice(from + 2 + i - 1, 1)) = cs[i]
    <3>1. Value(Slice((from + 2) + 1 * (i - 1), 1)) = cs[i]
      BY <1>1, <1>3, SpreadReads
    <3>2. (from + 2) + 1 * (i - 1) = from + 2 + i - 1
      BY <1>2
    <3> QED
      BY <3>1, <3>2
  <2>2. cs = [i \in 1 .. n |-> cs[i]]
    BY <1>1, LenProperties
  <2> QED
    BY <2>1, <2>2
<1>6. n # Garbage /\ ~ (from + 2 + n > Len(data))
  BY <1>1, <1>2, FramingAssumption
<1>7. ReadString(from) = Ok(cs, 2 + n)
  <2>1. /\ ReadScalar(from, Width.u16).ok /\ ReadScalar(from, Width.u16).value = n /\ Width.u16 = 2
    BY <1>4 DEF Ok, Width
  <2> QED
    BY <1>5, <1>6, <2>1 DEF ReadString
<1> QED
  BY <1>1, <1>7 DEF cs

(* The members of a type: they are read in the order they are written in.  *)
LEMMA OrderIs ==
  ASSUME NEW t \in Structs
  PROVE  /\ ReadOrder[t] = WriteOrder[t]
         /\ Len(WriteOrder[t]) \in Nat /\ DOMAIN WriteOrder[t] = 1 .. Len(WriteOrder[t])
         /\ MemberWidth(t) \in {1, 4}
<1>1. WriteOrder = ReadOrder
  BY DEF WriteOrder, ReadOrder
<1>2. Len(WriteOrder[t]) \in Nat /\ DOMAIN WriteOrder[t] = 1 .. Len(WriteOrder[t])
  <2>1. CASE t = "Vector2"
    BY <2>1 DEF WriteOrder
  <2>2. CASE t = "Vector3"
    BY <2>2 DEF WriteOrder
  <2>3. CASE t \in {"Vector4", "Rectangle", "Color"}
    BY <2>3 DEF WriteOrder
  <2>4. CASE t = "Matrix"
    BY <2>4 DEF WriteOrder, MatrixMembers
  <2> QED
    BY <2>1, <2>2, <2>3, <2>4, StructsAre
<1> QED
  BY <1>1, <1>2 DEF MemberWidth, Width

(* The values of the members, in that order.                               *)
Members(f) == [i \in 1 .. Len(WriteOrder[f.type]) |-> f.value[WriteOrder[f.type][i]]]

(* The bytes of a value of such a type: its members, in the written order. *)
LEMMA StructIs ==
  ASSUME NEW f \in Struct
  PROVE  /\ f.type \in Structs /\ f.value = Sample(f.type)
         /\ Members(f) \in Seq(Nat) /\ Len(Members(f)) = Len(WriteOrder[f.type])
         /\ Encode(f) = Spread(Members(f), MemberWidth(f.type))
         /\ Encode(f) \in Seq(Byte)
         /\ Len(Encode(f)) = MemberWidth(f.type) * Len(WriteOrder[f.type])
<1> DEFINE t == f.type
           order == WriteOrder[t]
<1>1. t \in Structs /\ f.value = Sample(t)
  BY DEF Struct
<1>2. Len(order) \in Nat /\ DOMAIN order = 1 .. Len(order) /\ MemberWidth(t) \in {1, 4}
  BY <1>1, OrderIs
<1>3. ASSUME NEW i \in 1 .. Len(order) PROVE Sample(t)[order[i]] \in Nat
  <2>1. order[i] \in ToSet(order)
    BY <1>2 DEF ToSet
  <2>2. \E j \in DOMAIN order : order[j] = order[i]
    BY <1>2
  <2> HIDE DEF order
  <2>3. (CHOOSE j \in DOMAIN order : order[j] = order[i]) \in DOMAIN order
    BY <2>2
  <2>4. Sample(t)[order[i]] = CHOOSE j \in DOMAIN order : order[j] = order[i]
    BY <2>1 DEF Sample, order
  <2> QED
    BY <1>2, <2>3, <2>4
<1>4. Members(f) \in Seq(Nat) /\ Len(Members(f)) = Len(order)
  <2>1. Members(f) \in [1 .. Len(order) -> Nat]
    BY <1>1, <1>3 DEF Members
  <2> QED
    BY <1>2, <2>1
<1>5. Encode(f) = Spread(Members(f), MemberWidth(t))
  <2>1. t # "string" /\ t # "loop"
    BY <1>1, StructsAre
  <2>2. Encode(f) = Spread([i \in DOMAIN order |-> f.value[order[i]]], MemberWidth(t))
    BY <1>1, <2>1 DEF Encode
  <2> QED
    BY <1>2, <2>2 DEF Members
<1>6. /\ Spread(Members(f), MemberWidth(t)) \in Seq(Byte)
      /\ Len(Spread(Members(f), MemberWidth(t))) = MemberWidth(t) * Len(Members(f))
  BY <1>2, <1>4, SpreadAre
<1> QED
  BY <1>1, <1>4, <1>5, <1>6

(* They read back as the value.                                            *)
LEMMA StructReads ==
  ASSUME data \in Seq(Byte), NEW f \in Struct, NEW from, Holds(data, from, Encode(f))
  PROVE  ReadStruct(from, f.type) = Ok(f.value, Len(Encode(f)))
<1> DEFINE t == f.type
           order == WriteOrder[t]
           w == MemberWidth(t)
           vs == Members(f)
           place(m) == CHOOSE i \in 1 .. Len(order) : order[i] = m
<1>1. /\ t \in Structs /\ f.value = Sample(t) /\ vs \in Seq(Nat) /\ Len(vs) = Len(order)
      /\ Holds(data, from, Spread(vs, w)) /\ Len(Encode(f)) = w * Len(order)
  BY StructIs
<1>2. /\ Len(order) \in Nat /\ DOMAIN order = 1 .. Len(order) /\ w \in {1, 4}
      /\ ReadOrder[t] = order
  BY <1>1, OrderIs
<1>3. ASSUME NEW m \in ToSet(order)
      PROVE  Value(Slice(from + w * (place(m) - 1), w)) = f.value[m]
  <2>1. \E i \in 1 .. Len(order) : order[i] = m
    BY <1>2 DEF ToSet
  <2> HIDE DEF order
  <2>2. place(m) \in 1 .. Len(order) /\ order[place(m)] = m
    BY <2>1
  <2> HIDE DEF place, vs, w
  <2>3. Value(Slice(from + w * (place(m) - 1), w)) = vs[place(m)]
    BY <1>1, <1>2, <2>2, SpreadReads
  <2>4. vs[place(m)] = f.value[m]
    BY <2>2 DEF vs, Members, order
  <2> QED
    BY <2>3, <2>4
<1>4. f.value = [m \in ToSet(order) |-> Value(Slice(from + w * (place(m) - 1), w))]
  <2>1. f.value = [m \in ToSet(order) |-> f.value[m]]
    BY <1>1 DEF Sample
  <2> HIDE DEF order, place, w
  <2> QED
    BY <1>3, <2>1
<1>5. ~ (from + w * Len(order) > Len(data))
  <2>1. from + Len(Spread(vs, w)) <= Len(data) /\ from \in Nat /\ Len(data) \in Nat
    BY <1>1 DEF Holds
  <2>2. Len(Spread(vs, w)) = w * Len(vs)
    BY <1>1, <1>2, SpreadAre
  <2>3. w * Len(order) \in Nat
    BY <1>2
  <2> HIDE DEF order, vs, w
  <2> QED
    BY <1>1, <2>1, <2>2, <2>3
<1>6. ReadStruct(from, t) = Ok([m \in ToSet(order) |-> Value(Slice(from + w * (place(m) - 1), w))],
                               w * Len(order))
  BY <1>2, <1>5 DEF ReadStruct
<1> QED
  BY <1>1, <1>4, <1>6

-----------------------------------------------------------------------------
(* Every value reads back from its bytes, wherever they are.               *)

(* Its bytes are bytes.                                                    *)
LEMMA ImageIs ==
  ASSUME NEW f \in Field
  PROVE  Image(f) \in Seq(Byte)
<1>1. CASE f \in Scalar
  <2> DEFINE w == Width[f.type]
  <2>1. f.type \in {"u8", "u32", "float"} /\ f.value \in Nat
    BY <1>1, FramingAssumption DEF Scalar
  <2>2. Image(f) = Bytes(f.value, w) /\ w \in Nat
    BY <2>1, StructsAre DEF Image, Encode, Width
  <2>3. f.value \in Nat \cup {Garbage}
    BY <2>1
  <2> HIDE DEF w
  <2>4. Bytes(f.value, w) \in Seq(Byte)
    BY <2>2, <2>3, BytesAre
  <2> QED
    BY <2>2, <2>4
<1>2. CASE f \in ShortString
  <2>1. f.type # "header"
    BY <1>2 DEF ShortString, String
  <2> QED
    BY <1>2, <2>1, StringIs DEF Image
<1>3. CASE f \in Struct
  <2>1. f.type # "header"
    BY <1>3, StructIs, StructsAre
  <2> QED
    BY <1>3, <2>1, StructIs DEF Image
<1>4. CASE f \in [type : {"header"}, value : Nat]
  BY <1>4, HeaderIs DEF Image
<1> QED
  BY <1>1, <1>2, <1>3, <1>4 DEF Field

(* The readers give the value and take exactly its bytes.                  *)
LEMMA FieldReads ==
  ASSUME data \in Seq(Byte), NEW f \in Field, NEW from, Holds(data, from, Image(f))
  PROVE  ReadAs(f.type, from) = Ok(f.value, Len(Image(f)))
<1>1. CASE f \in Scalar
  <2>1. f.type \in {"u8", "u32", "float"} /\ f.value \in Nat
    BY <1>1, FramingAssumption DEF Scalar
  <2>2. Image(f) = Bytes(f.value, Width[f.type]) /\ Width[f.type] \in Nat \ {0}
    BY <2>1, StructsAre DEF Image, Encode, Width
  <2>3. ReadAs(f.type, from) = ReadScalar(from, Width[f.type])
    BY <2>1, StructsAre DEF ReadAs
  <2>4. ReadScalar(from, Width[f.type]) = Ok(f.value, Width[f.type])
    BY <2>1, <2>2, ScalarReads
  <2>5. Len(Image(f)) = Width[f.type]
    <3> DEFINE w == Width[f.type]
    <3>1. w \in Nat /\ f.value \in Nat \cup {Garbage} /\ Image(f) = Bytes(f.value, w)
      BY <2>1, <2>2
    <3> HIDE DEF w
    <3>2. Len(Bytes(f.value, w)) = w
      BY <3>1, BytesAre
    <3> QED
      BY <3>1, <3>2 DEF w
  <2> QED
    BY <2>3, <2>4, <2>5
<1>2. CASE f \in ShortString
  <2>1. f.type \in {"string", "loop"}
    BY <1>2 DEF ShortString, String
  <2>2. Image(f) = Encode(f) /\ ReadAs(f.type, from) = ReadString(from)
    BY <2>1, StructsAre DEF Image, ReadAs
  <2> QED
    BY <1>2, <2>2, StringReads
<1>3. CASE f \in Struct
  <2>1. f.type \in Structs
    BY <1>3, StructIs
  <2>2. Image(f) = Encode(f) /\ ReadAs(f.type, from) = ReadStruct(from, f.type)
    BY <2>1, StructsAre DEF Image, ReadAs
  <2> QED
    BY <1>3, <2>2, StructReads
<1>4. CASE f \in [type : {"header"}, value : Nat]
  <2>1. f.type = "header" /\ f.value \in Nat
    BY <1>4
  <2>2. Image(f) = Header(0, f.value) /\ ReadAs(f.type, from) = ReadHeader(from)
    BY <2>1, StructsAre DEF Image, ReadAs
  <2>3. Image(f) \in Seq(Byte) /\ Len(Image(f)) = HeaderSize
    BY <2>1, <2>2, HeaderIs
  <2>4. from \in Nat /\ from + HeaderSize <= Len(data) /\ Len(data) \in Nat
    BY <2>3 DEF Holds
  <2>5. Holds(data, from + 4, Bytes(f.value, 4))
    BY <2>1, <2>2, <2>4, HeaderIs
  <2>6. Value(Slice(from + 4, 4)) = f.value
    BY <2>1, <2>5, ScalarReads
  <2>7. ~ (from + HeaderSize > Len(data))
    BY <2>4 DEF HeaderSize
  <2> QED
    BY <2>2, <2>3, <2>6, <2>7 DEF ReadHeader
<1> QED
  BY <1>1, <1>2, <1>3, <1>4 DEF Field

-----------------------------------------------------------------------------
(* What the writers give to the readers: strings as far as their length    *)
(* says, and texts that the length does not cut.                           *)
Written == Scalar \cup String \cup Struct \cup [type : {"header"}, value : Nat]
Plain(f) == f.type = "loop" => Len(f.value) < LenSpan

(* A cut string has the bytes of the whole one, and so it reads back.      *)
LEMMA KeptIs ==
  ASSUME NEW f \in Written, Plain(f)
  PROVE  /\ Kept(f) \in Field /\ Kept(f).type = f.type
         /\ f.type # "header" => Encode(Kept(f)) = Encode(f)
         /\ f.type # "string" => Kept(f) = f
<1>1. CASE f.type # "string"
  <2>1. Kept(f) = f
    BY <1>1 DEF Kept
  <2>2. f \in String => f \in ShortString
    BY <1>1 DEF String, ShortString, Plain
  <2> QED
    BY <2>1, <2>2 DEF Written, Field
<1>2. CASE f.type = "string"
  <2>1. f \in String
    <3>1. f \in Struct => f.type \in Structs
      BY StructIs
    <3> QED
      BY <1>2, <3>1, StructsAre DEF Written, Scalar
  <2> DEFINE cs == f.value
             n == Len(cs) % LenSpan
             k == SubSeq(cs, 1, n)
  <2>2. PICK l \in 0 .. TextLimit : cs \in [1 .. l -> Chars]
    BY <2>1 DEF String, BoundedSeq, SeqOf
  <2>3. /\ cs \in Seq(Nat) /\ cs \in Seq(Chars) /\ Len(cs) = l /\ l \in Nat
        /\ LenSpan \in Nat \ {0} /\ TextLimit \in Nat
    <3>1. l \in Nat /\ LenSpan \in Nat \ {0} /\ TextLimit \in Nat
      BY FramingAssumption
    <3>2. cs \in [1 .. l -> Nat]
      BY <2>2, FramingAssumption
    <3> HIDE DEF cs
    <3> QED
      BY <2>2, <3>1, <3>2
  <2>4. n \in Nat /\ n < LenSpan /\ n <= l /\ n % LenSpan = n
    <3> HIDE DEF cs
    <3>1. \A a, b \in Nat : b # 0 => a % b \in Nat /\ a % b < b /\ a % b <= a
      OBVIOUS
    <3>2. \A a, b \in Nat : a < b => a % b = a
      OBVIOUS
    <3>3. n \in Nat /\ n < LenSpan /\ n <= l
      BY <2>3, <3>1
    <3> HIDE DEF n
    <3> QED
      BY <2>3, <3>2, <3>3
  <2> HIDE DEF n
  <2>5. /\ k \in Seq(Nat) /\ k \in [1 .. n -> Chars] /\ Len(k) = n
        /\ \A i \in 1 .. n : k[i] = cs[i]
    <3> HIDE DEF cs
    <3>1. 1 \in Nat /\ n <= Len(cs) /\ n \in Nat
      BY <2>3, <2>4
    <3>2. k \in Seq(Nat) /\ Len(k) = n /\ \A i \in 1 .. n : k[i] = cs[i]
      BY <2>3, <3>1
    <3>3. k \in Seq(Chars)
      BY <2>3, <3>1
    <3> HIDE DEF k
    <3>4. k \in [1 .. n -> Chars]
      BY <3>2, <3>3
    <3> QED
      BY <3>2, <3>4
  <2>6. Kept(f) = [type |-> "string", value |-> k]
    BY <1>2, <2>1 DEF Kept, String, n
  <2> HIDE DEF k
  <2>7. Kept(f) \in ShortString
    <3>1. n \in 0 .. TextLimit
      BY <2>3, <2>4
    <3>2. k \in BoundedSeq(Chars, TextLimit)
      BY <2>5, <3>1 DEF BoundedSeq, SeqOf
    <3> QED
      BY <2>4, <2>5, <2>6, <3>2 DEF ShortString, String
  <2>8. SubSeq(Text(cs), 1, n) = Text(k)
    <3>1. /\ Spread(cs, 1) \in Seq(Byte) /\ Len(Spread(cs, 1)) = 1 * Len(cs)
          /\ \A i \in 1 .. Len(cs), b \in 1 .. 1 :
                Spread(cs, 1)[1 * (i - 1) + b] = Bytes(cs[i], 1)[b]
      BY <2>3, SpreadAre
    <3>2. /\ Spread(k, 1) \in Seq(Byte) /\ Len(Spread(k, 1)) = 1 * Len(k)
          /\ \A i \in 1 .. Len(k), b \in 1 .. 1 :
                Spread(k, 1)[1 * (i - 1) + b] = Bytes(k[i], 1)[b]
      BY <2>5, SpreadAre
    <3>3. ASSUME NEW i \in 1 .. n PROVE Spread(cs, 1)[i] = Spread(k, 1)[i]
      <4>1. 1 * (i - 1) + 1 = i /\ 1 \in 1 .. 1 /\ i \in 1 .. Len(cs) /\ i \in 1 .. Len(k)
        BY <2>3, <2>4, <2>5
      <4>2. Spread(cs, 1)[1 * (i - 1) + 1] = Bytes(cs[i], 1)[1]
        BY <3>1, <4>1
      <4>3. Spread(k, 1)[1 * (i - 1) + 1] = Bytes(k[i], 1)[1]
        BY <3>2, <4>1
      <4> QED
        BY <2>5, <4>1, <4>2, <4>3
    <3> DEFINE a == Spread(cs, 1)
               b == Spread(k, 1)
    <3>4. a \in Seq(Byte) /\ Len(a) = l /\ b \in Seq(Byte) /\ Len(b) = n
      BY <2>3, <2>5, <3>1, <3>2
    <3>5. \A i \in 1 .. n : a[i] = b[i]
      BY <3>3
    <3> HIDE DEF a, b, cs
    <3>6. /\ SubSeq(a, 1, n) \in Seq(Byte) /\ Len(SubSeq(a, 1, n)) = n
          /\ \A i \in 1 .. n : SubSeq(a, 1, n)[i] = a[i]
      BY <2>3, <2>4, <3>4
    <3>7. SubSeq(a, 1, n) = b
      BY <3>4, <3>5, <3>6, SeqEqual
    <3> QED
      BY <3>7 DEF a, b, Text
  <2>9. Encode(f) = Bytes(n, 2) \o Text(k)
    BY <1>2, <2>8, StructsAre DEF Encode, Width, n
  <2>10. Encode(Kept(f)) = Bytes(n, 2) \o Text(k)
    <3>1. /\ Encode(Kept(f)) = Bytes(Len(Kept(f).value), 2) \o Spread(Kept(f).value, 1)
      BY <2>7, StringIs
    <3>2. Kept(f).value = k
      BY <2>6
    <3>3. Encode(Kept(f)) = Bytes(Len(k), 2) \o Spread(k, 1)
      BY <3>1, <3>2
    <3> QED
      BY <2>5, <3>3 DEF Text
  <2> QED
    BY <1>2, <2>6, <2>7, <2>9, <2>10 DEF Field
<1> QED
  BY <1>1, <1>2

(* What a reader gets if nothing goes wrong.                               *)
WireOf(s) == [i \in 1 .. Len(s) |-> Kept(s[i])]
Wire == WireOf(Sent)

(* A packet is the bytes of its values, one behind the other: at[i] is the *)
(* place of the i-th of them, and the last place is the end.               *)
Layout(at) ==
    /\ at \in [1 .. Len(Wire) + 1 -> Nat]
    /\ at[1] = 0 /\ at[Len(Wire) + 1] = Len(data)
    /\ \A i \in 1 .. Len(Wire) :
          at[i + 1] = at[i] + Len(Image(Wire[i])) /\ Holds(data, at[i], Image(Wire[i]))

(* What was read are the first values that were written, and the cursor is *)
(* at the place of the next one.                                           *)
Cursor(at, n) ==
    /\ n \in 0 .. Len(Wire)
    /\ got = [i \in 1 .. n |-> Wire[i].value]
    /\ readPos = at[n + 1]

Framed ==
    /\ phase \in {"writing", "reading"}
    /\ data \in Seq(Byte) /\ Sent \in Seq(Written) /\ Wire \in Seq(Field)
    /\ \E at, n : Layout(at) /\ Cursor(at, n) /\ (phase = "writing" => n = 0)

Histories == phase = "writing" => envelope = <<>> /\ fields \in Seq(Written)

(* Whatever comes out is right as long as none of the known limits is met. *)
FrameInv == Histories /\ (Straight => Framed)

(* The wire of values that are all plain.                                  *)
LEMMA WireIs ==
  ASSUME NEW s \in Seq(Written), \A i \in DOMAIN s : Plain(s[i])
  PROVE  /\ WireOf(s) \in Seq(Field) /\ Len(WireOf(s)) = Len(s)
         /\ \A i \in 1 .. Len(s) : WireOf(s)[i] = Kept(s[i]) /\ WireOf(s)[i].type = s[i].type
<1>1. Len(s) \in Nat /\ DOMAIN s = 1 .. Len(s)
  OBVIOUS
<1>2. ASSUME NEW i \in 1 .. Len(s)
      PROVE  Kept(s[i]) \in Field /\ Kept(s[i]).type = s[i].type
  <2>1. s[i] \in Written /\ Plain(s[i])
    BY <1>1, ElementOfSeq
  <2> QED
    BY <2>1, KeptIs
<1>3. WireOf(s) \in [1 .. Len(s) -> Field]
  BY <1>2 DEF WireOf
<1>4. WireOf(s) \in Seq(Field) /\ Len(WireOf(s)) = Len(s)
  BY <1>1, <1>3
<1> QED
  BY <1>2, <1>4 DEF WireOf

(* One value more at the end of it.                                        *)
LEMMA WireMore ==
  ASSUME NEW s \in Seq(Written), NEW f \in Written, \A i \in DOMAIN Append(s, f) : Plain(Append(s, f)[i])
  PROVE  /\ \A i \in DOMAIN s : Plain(s[i])
         /\ Plain(f)
         /\ WireOf(s) \in Seq(Field) /\ WireOf(Append(s, f)) \in Seq(Field)
         /\ WireOf(Append(s, f)) = Append(WireOf(s), Kept(f))
<1> DEFINE t == Append(s, f)
<1>1. /\ t \in Seq(Written) /\ Len(t) = Len(s) + 1 /\ Len(s) \in Nat
      /\ DOMAIN s = 1 .. Len(s) /\ DOMAIN t = 1 .. Len(s) + 1
      /\ t[Len(s) + 1] = f /\ \A i \in 1 .. Len(s) : t[i] = s[i]
  OBVIOUS
<1>2. \A i \in DOMAIN t : Plain(t[i])
  OBVIOUS
<1> HIDE DEF t
<1>3. (\A i \in DOMAIN s : Plain(s[i])) /\ Plain(f)
  <2>1. ASSUME NEW i \in DOMAIN s PROVE Plain(s[i])
    <3>1. i \in DOMAIN t /\ t[i] = s[i]
      BY <1>1
    <3> QED
      BY <1>2, <3>1
  <2>2. Len(s) + 1 \in DOMAIN t
    BY <1>1
  <2> QED
    BY <1>1, <1>2, <2>1, <2>2
<1>4. /\ WireOf(s) \in Seq(Field) /\ Len(WireOf(s)) = Len(s)
      /\ \A i \in 1 .. Len(s) : WireOf(s)[i] = Kept(s[i])
  BY <1>3, WireIs
<1>5. /\ WireOf(t) \in Seq(Field) /\ Len(WireOf(t)) = Len(t)
      /\ \A i \in 1 .. Len(t) : WireOf(t)[i] = Kept(t[i])
  BY <1>1, <1>2, WireIs
<1>6. Kept(f) \in Field
  BY <1>3, KeptIs
<1>7. WireOf(t) = Append(WireOf(s), Kept(f))
  <2> DEFINE a == WireOf(s)
             b == WireOf(t)
             g == Kept(f)
  <2>1. /\ a \in Seq(Field) /\ b \in Seq(Field) /\ g \in Field
        /\ Len(b) = Len(a) + 1 /\ b[Len(a) + 1] = g
        /\ \A i \in 1 .. Len(a) : b[i] = a[i]
    BY <1>1, <1>4, <1>5, <1>6
  <2> HIDE DEF a, b, g
  <2>2. /\ Append(a, g) \in Seq(Field) /\ Len(Append(a, g)) = Len(a) + 1
        /\ Append(a, g)[Len(a) + 1] = g
        /\ \A i \in 1 .. Len(a) : Append(a, g)[i] = a[i]
    BY <2>1
  <2>3. \A i \in 1 .. Len(b) : b[i] = Append(a, g)[i]
    BY <2>1, <2>2
  <2>4. b = Append(a, g)
    BY <2>1, <2>2, <2>3, SeqEqual
  <2> QED
    BY <2>4 DEF a, b, g
<1> QED
  BY <1>3, <1>4, <1>5, <1>7 DEF t

(* While a packet is written nothing is in front of its values.            *)
LEMMA SentIs ==
  ASSUME Histories, phase = "writing"
  PROVE  envelope = <<>> /\ fields \in Seq(Written) /\ Sent = fields
<1>1. envelope = <<>> /\ fields \in Seq(Written)
  BY DEF Histories
<1>2. <<>> \o fields = fields
  BY <1>1
<1> QED
  BY <1>1, <1>2 DEF Sent

(* An empty packet has no field and its end at its beginning.              *)
LEMMA FrameInit == FramingInit => FrameInv
<1> SUFFICES ASSUME FramingInit PROVE FrameInv
  OBVIOUS
<1> DEFINE at == [i \in {1} |-> 0]
<1>1. /\ data = <<>> /\ envelope = <<>> /\ fields = <<>> /\ got = <<>> /\ readPos = 0
      /\ phase = "writing"
  BY DEF FramingInit
<1>2. Histories
  BY <1>1 DEF Histories
<1>3. Sent = <<>>
  BY <1>1, <1>2, SentIs
<1>4. Wire \in Seq(Field) /\ Len(Wire) = 0
  <2>1. Sent \in Seq(Written) /\ Len(Sent) = 0 /\ \A i \in DOMAIN Sent : Plain(Sent[i])
    BY <1>3
  <2>2. WireOf(Sent) \in Seq(Field) /\ Len(WireOf(Sent)) = Len(Sent)
    BY <2>1, WireIs
  <2> QED
    BY <2>1, <2>2 DEF Wire
<1>5. Layout(at)
  BY <1>1, <1>4 DEF Layout
<1>6. Cursor(at, 0)
  BY <1>1, <1>4 DEF Cursor
<1> QED
  BY <1>1, <1>2, <1>3, <1>4, <1>5, <1>6 DEF FrameInv, Framed

(* A value more.                                                           *)
LEMMA FrameWrite ==
  ASSUME FrameInv, NEW f \in Scalar \cup String \cup Struct, Write(f)
  PROVE  FrameInv'
<1>1. Histories /\ Histories' /\ phase = "writing" /\ UNCHANGED <<phase, readPos, envelope, got>>
  <2>1. f \in Written
    BY DEF Written
  <2>2. /\ phase = "writing" /\ fields' = Append(fields, f)
        /\ UNCHANGED <<phase, readPos, envelope, got>>
    BY DEF Write
  <2> QED
    BY <2>1, <2>2 DEF FrameInv, Histories
<1>2. SUFFICES ASSUME Straight' PROVE Framed'
  BY <1>1 DEF FrameInv
<1>3. fields \in Seq(Written) /\ f \in Written /\ Sent = fields /\ Sent' = Append(fields, f)
  <2>1. Sent = fields /\ Sent' = fields' /\ fields' = Append(fields, f)
    <3>1. envelope' = <<>> /\ fields' \in Seq(Written) /\ fields' = Append(fields, f)
      BY <1>1 DEF Histories, Write
    <3>2. <<>> \o fields' = fields'
      BY <3>1
    <3> QED
      BY <1>1, <3>1, <3>2, SentIs DEF Sent
  <2> QED
    BY <1>1, <2>1 DEF Histories, Written
<1> DEFINE g == Kept(f)
<1>4. \A i \in DOMAIN Append(fields, f) : Plain(Append(fields, f)[i])
  BY <1>2, <1>3 DEF Straight, Plain
<1>5. /\ Straight /\ Plain(f)
      /\ Wire \in Seq(Field) /\ Wire' \in Seq(Field) /\ Wire' = Append(Wire, g)
  <2>1. /\ \A i \in DOMAIN fields : Plain(fields[i])
        /\ Plain(f)
        /\ WireOf(fields) \in Seq(Field) /\ WireOf(Append(fields, f)) \in Seq(Field)
        /\ WireOf(Append(fields, f)) = Append(WireOf(fields), g)
    BY <1>3, <1>4, WireMore
  <2>2. Wire = WireOf(fields) /\ Wire' = WireOf(Append(fields, f))
    BY <1>3 DEF Wire
  <2>3. Len(envelope) # 1
    BY <1>1 DEF Histories
  <2> QED
    BY <1>3, <2>1, <2>2, <2>3 DEF Straight, Plain
<1>6. Framed
  BY <1>5 DEF FrameInv
<1>7. PICK at : Layout(at) /\ Cursor(at, 0)
  BY <1>1, <1>6 DEF Framed
<1>8. /\ phase = "writing" /\ data' = data \o Encode(f)
      /\ phase' = phase /\ readPos' = readPos /\ got' = got
  BY DEF Write
<1>9. f.type # "header"
  <2>1. f \in Struct => f.type \in Structs
    BY StructIs
  <2> QED
    BY <2>1, StructsAre DEF Scalar, String
<1>10. g \in Field /\ Image(g) = Encode(f) /\ Encode(f) \in Seq(Byte)
  <2>1. g \in Field /\ g.type = f.type /\ Encode(g) = Encode(f)
    BY <1>3, <1>5, <1>9, KeptIs
  <2> QED
    BY <1>9, <2>1, ImageIs DEF Image
<1>11. /\ data \in Seq(Byte) /\ data' \in Seq(Byte) /\ Len(data') = Len(data) + Len(Encode(f))
       /\ Len(data) \in Nat /\ Len(Encode(f)) \in Nat
  BY <1>6, <1>8, <1>10, Joined DEF Framed
<1>12. /\ Wire \in Seq(Field) /\ Wire' \in Seq(Field) /\ Len(Wire') = Len(Wire) + 1
       /\ Len(Wire) \in Nat
       /\ \A i \in 1 .. Len(Wire) : Wire'[i] = Wire[i]
       /\ Wire'[Len(Wire) + 1] = g
  BY <1>5, <1>10
<1> DEFINE m == Len(Wire)
<1>13. PICK new : new = [i \in 1 .. m + 2 |-> IF i = m + 2 THEN Len(data') ELSE at[i]]
  OBVIOUS
<1>14. /\ at \in [1 .. m + 1 -> Nat] /\ at[1] = 0 /\ at[m + 1] = Len(data)
       /\ \A i \in 1 .. m :
             at[i + 1] = at[i] + Len(Image(Wire[i])) /\ Holds(data, at[i], Image(Wire[i]))
  BY <1>7 DEF Layout
<1>15. /\ new \in [1 .. m + 2 -> Nat] /\ new[1] = 0 /\ new[m + 2] = Len(data')
       /\ \A i \in 1 .. m + 1 : new[i] = at[i]
  BY <1>11, <1>12, <1>13, <1>14
<1>16. ASSUME NEW i \in 1 .. m + 1
       PROVE  /\ new[i + 1] = new[i] + Len(Image(Wire'[i]))
              /\ Holds(data', new[i], Image(Wire'[i]))
  <2>1. CASE i = m + 1
    <3>1. Holds(data \o Encode(f), Len(data), Encode(f))
      <4>1. Holds(Encode(f), 0, Encode(f))
        BY <1>10, HoldsItself
      <4>2. Holds(data \o Encode(f), Len(data) + 0, Encode(f))
        BY <1>10, <1>11, <4>1, HoldsMore
      <4> QED
        BY <1>11, <4>2
    <3>2. i + 1 = m + 2 /\ m \in Nat
      BY <1>12, <2>1
    <3>3. new[i + 1] = Len(data')
      BY <1>15, <3>2
    <3>4. Wire'[i] = g
      <4>1. i = Len(Wire) + 1
        BY <2>1
      <4> QED
        BY <1>12, <4>1
    <3>5. new[i] = at[m + 1]
      BY <1>15, <2>1
    <3>6. new[i] = Len(data)
      BY <1>14, <3>5
    <3> QED
      BY <1>8, <1>10, <1>11, <3>1, <3>3, <3>4, <3>6
  <2>2. CASE i \in 1 .. m
    <3>1. Wire'[i] = Wire[i] /\ new[i] = at[i] /\ new[i + 1] = at[i + 1]
      BY <1>12, <1>15, <2>2
    <3>2. Wire[i] \in Field
      BY <1>12, <2>2, ElementOfSeq
    <3>3. Image(Wire[i]) \in Seq(Byte)
      BY <3>2, ImageIs
    <3>4. Holds(data \o Encode(f), at[i], Image(Wire[i]))
      BY <1>10, <1>11, <1>14, <2>2, <3>3, HoldsMore
    <3> QED
      BY <1>8, <1>14, <2>2, <3>1, <3>4
  <2> QED
    BY <1>12, <2>1, <2>2
<1> HIDE DEF m
<1>17. Layout(new)'
  <2>1. Len(Wire') = m + 1 /\ m \in Nat /\ Len(Wire') + 1 = m + 2
    BY <1>12 DEF m
  <2> QED
    BY <1>15, <1>16, <2>1 DEF Layout
<1>18. Cursor(new, 0)'
  <2>1. readPos = 0 /\ got = [i \in 1 .. 0 |-> Wire[i].value]
    BY <1>7, <1>14 DEF Cursor
  <2>2. got' = [i \in 1 .. 0 |-> Wire'[i].value]
    BY <1>8, <2>1
  <2> QED
    BY <1>8, <1>12, <1>15, <2>1, <2>2 DEF Cursor, m
<1> QED
  BY <1>3, <1>8, <1>11, <1>12, <1>17, <1>18 DEF Framed

(* What is read next is what was written next.                             *)
LEMMA FrameRead == ASSUME FrameInv, Read PROVE FrameInv'
<1>1. phase = "reading" /\ UNCHANGED <<data, envelope, fields>>
  BY DEF Read
<1>2. Sent' = Sent /\ Wire' = Wire /\ (Straight' => Straight)
  BY <1>1 DEF Sent, Wire, Straight
<1>3. Histories' /\ phase' # "writing"
  <2>1. phase' # "writing"
    BY <1>1 DEF Read
  <2> QED
    BY <1>1, <2>1 DEF FrameInv, Histories
<1>4. SUFFICES ASSUME Straight' PROVE Framed'
  BY <1>3 DEF FrameInv
<1>5. Framed
  BY <1>2, <1>4 DEF FrameInv
<1>6. Len(Sent) = Len(Wire) /\ \A i \in 1 .. Len(Wire) : Wire[i].type = Sent[i].type
  <2>1. Sent \in Seq(Written)
    BY <1>5 DEF Framed
  <2>2. \A i \in DOMAIN Sent : Plain(Sent[i])
    BY <1>2, <1>4 DEF Straight, Plain
  <2> QED
    BY <2>1, <2>2, WireIs DEF Wire
<1>7. PICK at, n : Layout(at) /\ Cursor(at, n)
  BY <1>5 DEF Framed
<1>8. /\ data \in Seq(Byte) /\ Wire \in Seq(Field) /\ Len(Wire) \in Nat
      /\ n \in Nat /\ got = [i \in 1 .. n |-> Wire[i].value] /\ readPos = at[n + 1]
  BY <1>5, <1>7 DEF Framed, Cursor
<1> DEFINE Vals == {Wire[i].value : i \in 1 .. Len(Wire)}
<1>9. got \in Seq(Vals) /\ Len(got) = n
  <2>1. got \in [1 .. n -> Vals]
    BY <1>7, <1>8 DEF Cursor
  <2> HIDE DEF Vals
  <2> QED
    BY <1>8, <2>1
<1>10. phase = "reading" /\ n < Len(Wire) /\ UNCHANGED <<data, Wire>>
  BY <1>1, <1>2, <1>6, <1>9 DEF Read
<1> DEFINE f == Wire[n + 1]
           r == ReadAs(f.type, readPos)
<1>11. n + 1 \in 1 .. Len(Wire) /\ f \in Field
  BY <1>8, <1>10, ElementOfSeq
<1>12. Holds(data, readPos, Image(f)) /\ at[n + 2] = readPos + Len(Image(f))
  <2>1. at[(n + 1) + 1] = at[n + 1] + Len(Image(f)) /\ Holds(data, at[n + 1], Image(f))
    BY <1>7, <1>11 DEF Layout
  <2>2. (n + 1) + 1 = n + 2
    BY <1>8
  <2> QED
    BY <1>8, <2>1, <2>2
<1>13. r = Ok(f.value, Len(Image(f)))
  BY <1>8, <1>11, <1>12, FieldReads
<1>14. /\ readPos' = at[n + 2] /\ got' = Append(got, f.value) /\ phase' = phase
  <2>1. r.ok /\ r.value = f.value /\ r.size = Len(Image(f))
    BY <1>13 DEF Ok
  <2> HIDE DEF r, f
  <2>2. IF r.ok
        THEN readPos' = readPos + r.size /\ got' = Append(got, r.value) /\ UNCHANGED phase
        ELSE phase' = "failed" /\ UNCHANGED <<readPos, got>>
    <3>1. Sent[Len(got) + 1].type = f.type
      BY <1>6, <1>9, <1>11 DEF f
    <3> QED
      BY <3>1 DEF Read, r
  <2> QED
    BY <1>12, <2>1, <2>2
<1>15. got' = [i \in 1 .. n + 1 |-> Wire'[i].value]
  <2>1. f.value \in Vals
    BY <1>11
  <2> HIDE DEF Vals
  <2>2. /\ Append(got, f.value) \in Seq(Vals) /\ Len(Append(got, f.value)) = n + 1
        /\ \A i \in 1 .. n : Append(got, f.value)[i] = got[i]
        /\ Append(got, f.value)[n + 1] = f.value
    BY <1>8, <1>9, <2>1
  <2>3. Append(got, f.value) = [i \in 1 .. n + 1 |-> Append(got, f.value)[i]]
    BY <2>2, LenProperties
  <2>4. ASSUME NEW i \in 1 .. n + 1 PROVE Append(got, f.value)[i] = Wire[i].value
    <3>1. CASE i = n + 1
      BY <2>2, <3>1
    <3>2. CASE i \in 1 .. n
      BY <1>8, <2>2, <3>2
    <3> QED
      BY <1>8, <3>1, <3>2
  <2>5. Append(got, f.value) = [i \in 1 .. n + 1 |-> Wire[i].value]
    BY <2>3, <2>4
  <2> QED
    BY <1>10, <1>14, <2>5
<1>16. Layout(at)'
  BY <1>7, <1>10 DEF Layout
<1>17. Cursor(at, n + 1)'
  <2>1. (n + 1) + 1 = n + 2 /\ n + 1 \in 0 .. Len(Wire')
    BY <1>8, <1>10
  <2> QED
    BY <1>14, <1>15, <2>1 DEF Cursor
<1> QED
  BY <1>2, <1>5, <1>8, <1>10, <1>14, <1>16, <1>17 DEF Framed

(* Sending changes nothing.                                                *)
LEMMA FrameSend == ASSUME FrameInv, Send PROVE FrameInv'
<1>1. /\ phase = "writing" /\ phase' = "reading" /\ UNCHANGED <<readPos, envelope, fields, got>>
      /\ data' = Deserialize(Serialize(1, data))
  BY DEF Send
<1>2. Sent' = Sent /\ Wire' = Wire /\ (Straight' => Straight) /\ Histories'
  BY <1>1 DEF Sent, Wire, Straight, FrameInv, Histories
<1>3. SUFFICES ASSUME Straight' PROVE Framed'
  BY <1>2 DEF FrameInv
<1>4. Framed
  BY <1>2, <1>3 DEF FrameInv
<1>5. PICK at : Layout(at) /\ Cursor(at, 0)
  BY <1>1, <1>4 DEF Framed
<1>6. data \in Seq(Byte) /\ Sent \in Seq(Written) /\ Wire \in Seq(Field)
  BY <1>4 DEF Framed
<1>7. data' = data
  BY <1>1, <1>6, DeserializeIsInverse
<1>8. Layout(at)' /\ Cursor(at, 0)'
  BY <1>1, <1>2, <1>5, <1>7 DEF Layout, Cursor
<1> QED
  BY <1>1, <1>2, <1>6, <1>7, <1>8 DEF Framed

(* Reading may start again.                                                *)
LEMMA FrameReset == ASSUME FrameInv, ResetRead PROVE FrameInv'
<1>1. /\ phase = "reading" /\ readPos' = 0 /\ got' = <<>>
      /\ UNCHANGED <<phase, data, envelope, fields>>
  BY DEF ResetRead
<1>2. Sent' = Sent /\ Wire' = Wire /\ (Straight' => Straight) /\ Histories'
  BY <1>1 DEF Sent, Wire, Straight, FrameInv, Histories
<1>3. SUFFICES ASSUME Straight' PROVE Framed'
  BY <1>2 DEF FrameInv
<1>4. Framed
  BY <1>2, <1>3 DEF FrameInv
<1>5. PICK at, n : Layout(at) /\ Cursor(at, n)
  BY <1>4 DEF Framed
<1>6. data \in Seq(Byte) /\ Sent \in Seq(Written) /\ Wire \in Seq(Field) /\ Len(Wire) \in Nat
  BY <1>4 DEF Framed
<1>7. Layout(at)'
  BY <1>1, <1>2, <1>5 DEF Layout
<1>8. Cursor(at, 0)'
  <2>1. at[0 + 1] = 0 /\ 0 \in 0 .. Len(Wire)
    BY <1>5, <1>6 DEF Layout
  <2>2. got' = [i \in 1 .. 0 |-> Wire'[i].value]
    BY <1>1
  <2> QED
    BY <1>1, <1>2, <2>1, <2>2 DEF Cursor
<1> QED
  BY <1>1, <1>2, <1>6, <1>7, <1>8 DEF Framed

(* A call puts its name and a header in front of all that was written.     *)
LEMMA FrameCall ==
  ASSUME FrameInv, NEW name \in BoundedSeq(Chars, TextLimit), NEW aware \in BOOLEAN,
         Call(name, aware)
  PROVE  FrameInv'
<1> DEFINE call == [type |-> "loop", value |-> name]
           head == [type |-> "header", value |-> Len(data)]
           e == Encode(call)
           h == Header(0, Len(data))
           m == Len(Wire)
<1>1. /\ phase = "writing" /\ phase' = "reading" /\ UNCHANGED <<readPos, fields, got>>
      /\ data' = Deserialize(Serialize(102, e \o Serialize(0, data)))
      /\ envelope' = IF aware THEN <<call, head>> ELSE <<call>>
  BY DEF Call
<1>2. call \in String /\ call \in Written
  BY DEF String, Written
<1>3. envelope = <<>> /\ fields \in Seq(Written) /\ Sent = fields
  BY <1>1, SentIs DEF FrameInv
<1>4. Histories'
  BY <1>1 DEF Histories
<1>5. SUFFICES ASSUME Straight' PROVE Framed'
  BY <1>4 DEF FrameInv
<1>6. aware
  <2> SUFFICES ASSUME ~ aware PROVE FALSE
    OBVIOUS
  <2>1. envelope' = <<call>>
    BY <1>1
  <2> HIDE DEF call
  <2>2. Len(envelope') = 1
    BY <2>1
  <2> QED
    BY <1>5, <2>2 DEF Straight
<1>7. Sent' = <<call, head>> \o fields
  BY <1>1, <1>6 DEF Sent
<1>8. /\ DOMAIN fields = 1 .. Len(fields) /\ Len(fields) \in Nat /\ Len(Sent') = Len(fields) + 2
      /\ DOMAIN Sent' = 1 .. Len(fields) + 2
      /\ Sent'[1] = call /\ Sent'[2] = head
      /\ \A i \in 1 .. Len(fields) : i + 2 \in DOMAIN Sent' /\ Sent'[i + 2] = fields[i]
  <2> DEFINE S == Written \cup {head}
  <2>1. fields \in Seq(S) /\ <<call, head>> \in Seq(S)
    <3>1. call \in S /\ head \in S /\ Written \subseteq S
      BY <1>2
    <3> HIDE DEF call, head, S
    <3> QED
      BY <1>3, <3>1
  <2> HIDE DEF call, head, S
  <2>2. Len(<<call, head>>) = 2 /\ <<call, head>>[1] = call /\ <<call, head>>[2] = head
    OBVIOUS
  <2> QED
    BY <1>7, <2>1, <2>2
<1>9. \A i \in DOMAIN Sent' : Plain(Sent'[i])
  BY <1>5 DEF Straight, Plain
<1>10. Straight
  <2>1. ASSUME NEW i \in DOMAIN fields PROVE Plain(fields[i])
    <3>1. i + 2 \in DOMAIN Sent' /\ Sent'[i + 2] = fields[i]
      BY <1>8
    <3> QED
      BY <1>9, <3>1
  <2>2. Len(envelope) = 0
    BY <1>3
  <2> QED
    BY <1>3, <2>1, <2>2 DEF Straight, Plain
<1>11. Framed
  BY <1>10 DEF FrameInv
<1>12. PICK at : Layout(at) /\ Cursor(at, 0)
  BY <1>1, <1>11 DEF Framed
<1>13. data \in Seq(Byte) /\ Len(data) \in Nat /\ Wire \in Seq(Field) /\ m \in Nat
  BY <1>11 DEF Framed
<1>14. Plain(call)
  BY <1>8, <1>9
<1>15. call \in ShortString /\ call \in Field /\ head \in Field /\ head \in Written
  BY <1>2, <1>13, <1>14 DEF ShortString, Plain, Field, Written
<1>16. Image(call) = e /\ e \in Seq(Byte) /\ Len(e) \in Nat
  BY <1>15, StringIs DEF Image
<1>17. Image(head) = h /\ h \in Seq(Byte) /\ Len(h) = 8
  BY <1>13, HeaderIs DEF Image, HeaderSize
<1>18. /\ phase' = "reading" /\ readPos' = readPos /\ got' = got
       /\ data' = Deserialize(Serialize(102, e \o Serialize(0, data)))
  BY <1>1
<1> HIDE DEF e, h
<1>19. /\ h \o data \in Seq(Byte) /\ Len(h \o data) = Len(h) + Len(data)
       /\ e \o (h \o data) \in Seq(Byte) /\ Len(e \o (h \o data)) = Len(e) + Len(h \o data)
  BY <1>13, <1>16, <1>17, Joined
<1>20. data' = e \o (h \o data)
  <2>1. Serialize(0, data) = h \o data
    BY <1>13, DeserializeIsInverse DEF h
  <2>2. data' = Deserialize(Serialize(102, e \o (h \o data)))
    BY <1>18, <2>1
  <2> QED
    BY <1>19, <2>2, DeserializeIsInverse
<1>21. /\ Sent' \in Seq(Written) /\ Wire' \in Seq(Field) /\ Len(Wire') = m + 2
       /\ Wire'[1] = call /\ Wire'[2] = head
       /\ \A i \in 1 .. m : Wire'[i + 2] = Wire[i]
  <2>1. \A i \in DOMAIN fields : Plain(fields[i])
    BY <1>3, <1>10 DEF Straight, Plain
  <2>2. /\ Len(Wire) = Len(fields)
        /\ \A i \in 1 .. Len(fields) : Wire[i] = Kept(fields[i])
    BY <1>3, <2>1, WireIs DEF Wire
  <2>3. Kept(call) = call /\ Kept(head) = head
    BY DEF Kept
  <2>4. Sent' \in Seq(Written)
    <3>1. <<call, head>> \in Seq(Written)
      <4>1. call \in Written /\ head \in Written
        BY <1>2, <1>15
      <4> HIDE DEF call, head
      <4> QED
        BY <4>1
    <3> HIDE DEF call, head
    <3> QED
      BY <1>3, <1>7, <3>1
  <2> HIDE DEF call, head
  <2>5. /\ Wire' \in Seq(Field) /\ Len(Wire') = Len(Sent')
        /\ \A i \in 1 .. Len(Sent') : Wire'[i] = Kept(Sent'[i])
    <3>1. /\ WireOf(Sent') \in Seq(Field) /\ Len(WireOf(Sent')) = Len(Sent')
          /\ \A i \in 1 .. Len(Sent') : WireOf(Sent')[i] = Kept(Sent'[i])
      BY <1>9, <2>4, WireIs
    <3>2. Wire' = WireOf(Sent')
      BY DEF Wire
    <3> QED
      BY <3>1, <3>2
  <2>6. Wire'[1] = call /\ Wire'[2] = head
    BY <1>8, <2>3, <2>5
  <2>7. ASSUME NEW i \in 1 .. m PROVE Wire'[i + 2] = Wire[i]
    <3>1. i \in 1 .. Len(fields) /\ i + 2 \in 1 .. Len(Sent') /\ Sent'[i + 2] = fields[i]
      BY <1>8, <2>2
    <3> QED
      BY <2>2, <2>5, <3>1
  <2> QED
    BY <1>8, <2>2, <2>4, <2>5, <2>6, <2>7
<1> HIDE DEF m, call, head
<1>22. PICK new : new = [i \in 1 .. m + 3 |-> IF i = 1 THEN 0 ELSE IF i = 2 THEN Len(e)
                                              ELSE Len(e) + (8 + at[i - 2])]
  OBVIOUS
<1>23. /\ at \in [1 .. m + 1 -> Nat] /\ at[1] = 0 /\ at[m + 1] = Len(data)
       /\ \A i \in 1 .. m :
             at[i + 1] = at[i] + Len(Image(Wire[i])) /\ Holds(data, at[i], Image(Wire[i]))
  BY <1>12 DEF Layout, m
<1>24. /\ new \in [1 .. m + 3 -> Nat]
       /\ new[1] = 0 /\ new[2] = Len(e)
       /\ new[3] = Len(e) + 8 /\ new[m + 3] = Len(e) + (8 + Len(data))
       /\ \A i \in 1 .. m + 1 : new[i + 2] = Len(e) + (8 + at[i])
  <2>1. ASSUME NEW i \in 1 .. m + 3 PROVE new[i] \in Nat
    <3>1. i # 1 /\ i # 2 => i - 2 \in 1 .. m + 1
      BY <1>13
    <3>2. i # 1 /\ i # 2 => at[i - 2] \in Nat
      BY <1>23, <3>1
    <3> QED
      BY <1>16, <1>22, <3>2
  <2>2. ASSUME NEW i \in 1 .. m + 1 PROVE new[i + 2] = Len(e) + (8 + at[i])
    <3>1. i + 2 \in 1 .. m + 3 /\ i + 2 # 1 /\ i + 2 # 2 /\ (i + 2) - 2 = i
      BY <1>13
    <3> QED
      BY <1>22, <3>1
  <2>3. 1 \in 1 .. m + 1 /\ m + 1 \in 1 .. m + 1 /\ (m + 1) + 2 = m + 3
    BY <1>13
  <2>4. new[1] = 0 /\ new[2] = Len(e)
    BY <1>13, <1>22
  <2>5. new[1 + 2] = Len(e) + (8 + 0) /\ new[m + 3] = Len(e) + (8 + Len(data))
    BY <1>23, <2>2, <2>3
  <2>6. new[3] = Len(e) + 8
    BY <1>16, <2>5
  <2>7. new \in [1 .. m + 3 -> Nat]
    BY <1>22, <2>1
  <2> QED
    BY <2>2, <2>4, <2>5, <2>6, <2>7
<1>25. new[1 + 1] = new[1] + Len(Image(Wire'[1])) /\ Holds(data', new[1], Image(Wire'[1]))
  <2>1. Holds(e, 0, e)
    BY <1>16, HoldsItself
  <2>2. Holds(e \o (h \o data), 0, e)
    BY <1>16, <1>19, <2>1, HoldsMore
  <2> QED
    BY <1>16, <1>20, <1>21, <1>24, <2>2
<1>26. new[2 + 1] = new[2] + Len(Image(Wire'[2])) /\ Holds(data', new[2], Image(Wire'[2]))
  <2>1. Holds(h, 0, h)
    BY <1>17, HoldsItself
  <2>2. Holds(h \o data, 0, h)
    BY <1>13, <1>17, <2>1, HoldsMore
  <2>3. Holds(e \o (h \o data), Len(e) + 0, h)
    BY <1>16, <1>17, <1>19, <2>2, HoldsMore
  <2>4. Len(e) + 0 = Len(e)
    BY <1>16
  <2> QED
    <3>1. Image(Wire'[2]) = h /\ new[2] = Len(e) /\ new[3] = Len(e) + 8
      BY <1>17, <1>21, <1>24
    <3>2. Holds(data', Len(e), h) /\ 2 + 1 = 3
      BY <1>20, <2>3, <2>4
    <3> HIDE DEF e, h
    <3> QED
      BY <1>17, <3>1, <3>2
<1>27. ASSUME NEW i \in 1 .. m
       PROVE  /\ new[(i + 2) + 1] = new[i + 2] + Len(Image(Wire'[i + 2]))
              /\ Holds(data', new[i + 2], Image(Wire'[i + 2]))
  <2>1. Wire'[i + 2] = Wire[i] /\ Wire[i] \in Field
    BY <1>13, <1>21, ElementOfSeq DEF m
  <2>2. Image(Wire[i]) \in Seq(Byte) /\ Len(Image(Wire[i])) \in Nat
    BY <2>1, ImageIs
  <2>3. Holds(data, at[i], Image(Wire[i])) /\ at[i + 1] = at[i] + Len(Image(Wire[i]))
    BY <1>23
  <2>4. Holds(h \o data, Len(h) + at[i], Image(Wire[i]))
    BY <1>13, <1>17, <2>2, <2>3, HoldsMore
  <2>5. Holds(e \o (h \o data), Len(e) + (Len(h) + at[i]), Image(Wire[i]))
    BY <1>16, <1>19, <2>2, <2>4, HoldsMore
  <2>6. /\ i \in 1 .. m + 1 /\ i + 1 \in 1 .. m + 1 /\ (i + 2) + 1 = (i + 1) + 2
        /\ at[i] \in Nat /\ Len(e) \in Nat
    BY <1>13, <1>16, <1>23
  <2>7. new[i + 2] = Len(e) + (8 + at[i]) /\ new[(i + 2) + 1] = Len(e) + (8 + at[i + 1])
    BY <1>24, <2>6
  <2>8. Len(e) + (8 + at[i + 1]) = (Len(e) + (8 + at[i])) + Len(Image(Wire[i]))
    BY <2>2, <2>3, <2>6
  <2> QED
    BY <1>17, <1>20, <2>1, <2>5, <2>7, <2>8
<1>28. Layout(new)'
  <2>1. ASSUME NEW i \in 1 .. m + 2
        PROVE  /\ new[i + 1] = new[i] + Len(Image(Wire'[i]))
               /\ Holds(data', new[i], Image(Wire'[i]))
    <3>1. CASE i = 1
      BY <1>25, <3>1
    <3>2. CASE i = 2
      BY <1>26, <3>2
    <3>3. CASE i # 1 /\ i # 2
      <4>1. i - 2 \in 1 .. m /\ (i - 2) + 2 = i
        BY <1>13, <3>3
      <4> QED
        BY <1>27, <4>1
    <3> QED
      BY <3>1, <3>2, <3>3
  <2>2. Len(Wire') = m + 2 /\ Len(Wire') + 1 = m + 3
    BY <1>13, <1>21
  <2>3. Len(data') = Len(e) + (8 + Len(data))
    BY <1>17, <1>19, <1>20
  <2> QED
    BY <1>24, <2>1, <2>2, <2>3 DEF Layout
<1>29. Cursor(new, 0)'
  <2>1. readPos = 0 /\ got = [i \in 1 .. 0 |-> Wire[i].value]
    BY <1>12, <1>23 DEF Cursor
  <2>2. got' = [i \in 1 .. 0 |-> Wire'[i].value]
    BY <1>18, <2>1
  <2>3. 0 \in 0 .. Len(Wire') /\ new[0 + 1] = 0
    BY <1>13, <1>21, <1>24
  <2> QED
    BY <1>18, <2>1, <2>2, <2>3 DEF Cursor
<1> QED
  BY <1>18, <1>19, <1>20, <1>21, <1>28, <1>29 DEF Framed

(* Reading gives the values written and never throws, for any mixture of   *)
(* values and calls within packets of any length, texts of any length and  *)
(* every width of a length, in every packet that meets none of the known   *)
(* limits: a string longer than its length can say comes out shorter.      *)
THEOREM ReadBackCorrect == FramingSpec => []ReadsBack
<1>1. FrameInv /\ FramingNext => FrameInv'
  BY FrameWrite, FrameSend, FrameCall, FrameRead, FrameReset DEF FramingNext
<1>2. FrameInv /\ UNCHANGED framingVars => FrameInv'
  BY DEF FrameInv, Histories, Framed, Straight, Sent, Wire, framingVars, Layout, Cursor
<1>3. FrameInv => ReadsBack
  <2> SUFFICES ASSUME FrameInv, Straight
               PROVE  phase # "failed" /\ \A i \in DOMAIN got : got[i] = Kept(Sent[i]).value
    BY DEF ReadsBack
  <2>1. Framed
    BY DEF FrameInv
  <2>2. PICK at, n : Cursor(at, n)
    BY <2>1 DEF Framed
  <2>3. /\ n \in 0 .. Len(Wire) /\ got = [i \in 1 .. n |-> Wire[i].value] /\ DOMAIN got = 1 .. n
        /\ Len(Wire) \in Nat
    BY <2>1, <2>2 DEF Framed, Cursor
  <2>4. Sent \in Seq(Written) /\ \A i \in DOMAIN Sent : Plain(Sent[i])
    BY <2>1 DEF Framed, Straight, Plain
  <2>5. Len(Wire) = Len(Sent) /\ \A i \in 1 .. Len(Sent) : Wire[i] = Kept(Sent[i])
    BY <2>4, WireIs DEF Wire
  <2>6. ASSUME NEW i \in DOMAIN got PROVE got[i] = Kept(Sent[i]).value
    <3>1. i \in 1 .. n /\ i \in 1 .. Len(Sent)
      BY <2>3, <2>5
    <3> QED
      BY <2>3, <2>5, <3>1
  <2> QED
    BY <2>1, <2>6 DEF Framed
<1> QED
  BY FrameInit, <1>1, <1>2, <1>3, PTL DEF FramingSpec
=============================================================================
