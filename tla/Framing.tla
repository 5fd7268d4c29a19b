------------------------------- MODULE Framing -------------------------------
(***************************************************************************)
(* Core/Packet.h, Core/Serialization.h and the packets of Sync/RPC.h: one  *)
(* packet is written, sent and read.  A byte is symbolic: it says which    *)
(* value it belongs to, how wide that value is and which of its bytes it   *)
(* is, so that bytes read at the wrong place or width give no value.       *)
(* Both ends run the same build; there is no byte order to convert.        *)
(***************************************************************************)
EXTENDS Integers, SequencesExt

CONSTANTS
    Numbers,    \* values of scalars
    Chars,      \* values of characters
    LenSpan,    \* number of values of the u16 that holds a length (2^16)
    TextLimit,  \* bound: characters in a string
    FieldLimit, \* bound: values written into one packet
    Garbage     \* what does not make a value

ASSUME FramingAssumption ==
    /\ Numbers \subseteq Nat /\ Chars \subseteq Nat
    /\ LenSpan \in Nat \ {0} /\ TextLimit \in Nat /\ FieldLimit \in Nat
    /\ Garbage \notin Nat

VARIABLES
    phase,      \* "writing", "reading", or "failed" once read() has thrown
    data,       \* Packet::m_data of the packet that is written, then read
    readPos,    \* Packet::m_readPos of the latter
    envelope,   \* history: what a call puts in front and its reader knows of
    fields,     \* history: the values the application wrote, with their types
    got         \* history: the values read

framingVars == <<phase, data, readPos, envelope, fields, got>>

Width == [u8 |-> 1, u16 |-> 2, u32 |-> 4, float |-> 4]

-----------------------------------------------------------------------------
(* Bytes.                                                                  *)

Bytes(v, w) == [i \in 1 .. w |-> [of |-> v, width |-> w, byte |-> i]]

Value(bs) == IF bs = Bytes(Head(bs).of, Len(bs)) THEN Head(bs).of ELSE Garbage

(* Values of one width, one behind the other.                              *)
Spread(vs, w) ==
    [i \in 1 .. w * Len(vs) |-> Bytes(vs[((i - 1) \div w) + 1], w)[((i - 1) % w) + 1]]

Text(cs) == Spread(cs, 1)

(* Serialization.h: the members of each type in the order in which they    *)
(* are written and in the order in which they are read.                    *)
MatrixMembers == <<"m0", "m1", "m2", "m3", "m4", "m5", "m6", "m7",
                   "m8", "m9", "m10", "m11", "m12", "m13", "m14", "m15">>

WriteOrder == [
    Vector2 |-> <<"x", "y">>,
    Vector3 |-> <<"x", "y", "z">>,
    Vector4 |-> <<"x", "y", "z", "w">>,
    Rectangle |-> <<"x", "y", "width", "height">>,
    Color |-> <<"r", "g", "b", "a">>,
    Matrix |-> MatrixMembers]

ReadOrder_Fault == [
    Vector2 |-> <<"x", "y">>,
    Vector3 |-> <<"x", "y", "z">>,
    Vector4 |-> <<"w", "x", "y", "z">>,  \* as a quaternion with its real part first
    Rectangle |-> <<"x", "y", "width", "height">>,
    Color |-> <<"r", "g", "b", "a">>,
    Matrix |-> MatrixMembers]

ReadOrder == [
    Vector2 |-> <<"x", "y">>,
    Vector3 |-> <<"x", "y", "z">>,
    Vector4 |-> <<"x", "y", "z", "w">>,
    Rectangle |-> <<"x", "y", "width", "height">>,
    Color |-> <<"r", "g", "b", "a">>,
    Matrix |-> MatrixMembers]

Structs == DOMAIN WriteOrder
MemberWidth(t) == IF t = "Color" THEN Width.u8 ELSE Width.float

(* A value of a type whose members are all different.                      *)
Sample(t) == [m \in ToSet(WriteOrder[t]) |->
                 CHOOSE i \in DOMAIN WriteOrder[t] : WriteOrder[t][i] = m]

-----------------------------------------------------------------------------
(* What a value puts into m_data.                                          *)

(* write(const T &); write(const std::string &), where the length is cut   *)
(* to 16 bits and so is the text; and what the services write for a name   *)
(* or a message ("loop"): the length cut to 16 bits and the whole text.    *)
Encode(f) ==
    CASE f.type = "string" ->
            LET len == Len(f.value) % LenSpan
            IN  Bytes(len, Width.u16) \o SubSeq(Text(f.value), 1, len)
      [] f.type = "loop" -> Bytes(Len(f.value) % LenSpan, Width.u16) \o Text(f.value)
      [] f.type \in Structs ->
            Spread([i \in DOMAIN WriteOrder[f.type] |-> f.value[WriteOrder[f.type][i]]],
                   MemberWidth(f.type))
      [] OTHER -> Bytes(f.value, Width[f.type])

(* A PacketHeader in memory: the id, padding and the size, eight bytes.    *)
Header(id, size) == Bytes(id, Width.u16) \o Bytes(Garbage, 2) \o Bytes(size, Width.u32)
HeaderSize == 8

Serialize(id, d) == Header(id, Len(d)) \o d

(* Packet(const Byte *, u32): as much as the header's size says.           *)
Deserialize(buf) ==
    SubSeq(buf, HeaderSize + 1, HeaderSize + Value(SubSeq(buf, 5, HeaderSize)))

-----------------------------------------------------------------------------
FramingInit ==
    /\ phase = "writing"
    /\ data = <<>> /\ readPos = 0
    /\ envelope = <<>> /\ fields = <<>> /\ got = <<>>

Scalar == [type : {"u8", "u32", "float"}, value : Numbers]
String == [type : {"string", "loop"}, value : BoundedSeq(Chars, TextLimit)]
Struct == {[type |-> t, value |-> Sample(t)] : t \in Structs}

Write(f) ==
    /\ phase = "writing" /\ Len(fields) < FieldLimit
    /\ data' = data \o Encode(f)
    /\ fields' = Append(fields, f)
    /\ UNCHANGED <<phase, readPos, envelope, got>>

(* Server::send, Client::send and the constructor in poll().               *)
Send ==
    /\ phase = "writing" /\ fields # <<>>
    /\ phase' = "reading"
    /\ data' = Deserialize(Serialize(1, data))
    /\ UNCHANGED <<readPos, envelope, fields, got>>

(* ClientRPC::call, ServerRPC::callClient, callAll: what was written so far*)
(* is the packet of the arguments, which goes with a header of its own into*)
(* the packet of the call, behind the name.  RPC.h reads the name and gives*)
(* the rest to the handler, which starts with its arguments unless it is   *)
(* aware of that header and reads it first.                                *)
Call(name, aware) ==
    /\ phase = "writing"
    /\ phase' = "reading"
    /\ LET call == [type |-> "loop", value |-> name]
           head == [type |-> "header", value |-> Len(data)]
       IN  /\ data' = Deserialize(Serialize(102, Encode(call) \o Serialize(0, data)))
           /\ envelope' = IF aware THEN <<call, head>> ELSE <<call>>
    /\ UNCHANGED <<readPos, fields, got>>

(* What the reader takes for the contents of the packet.                   *)
Sent == envelope \o fields

-----------------------------------------------------------------------------
(* Reading.  Each reader gives a value and the number of bytes it takes,   *)
(* or none when the data is exhausted, which throws.                       *)

Exhausted == [ok |-> FALSE, value |-> Garbage, size |-> 0]
Ok(v, n) == [ok |-> TRUE, value |-> v, size |-> n]

Slice(from, n) == SubSeq(data, from + 1, from + n)

ReadScalar(from, w) ==
    IF from + w > Len(data) THEN Exhausted ELSE Ok(Value(Slice(from, w)), w)

ReadString(from) ==
    LET len == ReadScalar(from, Width.u16)
    IN  IF ~len.ok THEN Exhausted
        ELSE IF len.value = Garbage THEN Ok(Garbage, Width.u16)
        ELSE IF from + Width.u16 + len.value > Len(data) THEN Exhausted
        ELSE Ok([i \in 1 .. len.value |-> Value(Slice(from + Width.u16 + i - 1, 1))],
                Width.u16 + len.value)

ReadStruct(from, t) ==
    LET w == MemberWidth(t)
        n == Len(ReadOrder[t])
        at(m) == from + w * ((CHOOSE i \in 1 .. n : ReadOrder[t][i] = m) - 1)
    IN  IF from + w * n > Len(data) THEN Exhausted
        ELSE Ok([m \in ToSet(ReadOrder[t]) |-> Value(Slice(at(m), w))], w * n)

(* read<PacketHeader>(): what is looked at is the size in it.              *)
ReadHeader(from) ==
    IF from + HeaderSize > Len(data) THEN Exhausted
    ELSE Ok(Value(Slice(from + 4, 4)), HeaderSize)

ReadAs(type, from) ==
    CASE type \in {"string", "loop"} -> ReadString(from)
      [] type = "header" -> ReadHeader(from)
      [] type \in Structs -> ReadStruct(from, type)
      [] OTHER -> ReadScalar(from, Width[type])

(* The other side reads in the order in which was written.                 *)
Read ==
    /\ phase = "reading" /\ Len(got) < Len(Sent)
    /\ Garbage \notin ToSet(got)
    /\ LET r == ReadAs(Sent[Len(got) + 1].type, readPos)
       IN  IF r.ok
           THEN /\ readPos' = readPos + r.size
                /\ got' = Append(got, r.value)
                /\ UNCHANGED phase
           ELSE /\ phase' = "failed"
                /\ UNCHANGED <<readPos, got>>
    /\ UNCHANGED <<data, envelope, fields>>

ResetRead ==
    /\ phase = "reading" /\ got # <<>>
    /\ readPos' = 0
    /\ got' = <<>>
    /\ UNCHANGED <<phase, data, envelope, fields>>

FramingNext ==
    \/ \E f \in Scalar \cup String \cup Struct : Write(f)
    \/ Send
    \/ \E name \in BoundedSeq(Chars, TextLimit), aware \in BOOLEAN : Call(name, aware)
    \/ Read
    \/ ResetRead

FramingSpec == FramingInit /\ [][FramingNext]_framingVars

-----------------------------------------------------------------------------
(* A string longer than its length can say loses what the length does not  *)
(* count: write() cuts both alike.                                         *)
Kept(f) ==
    IF f.type = "string"
    THEN [f EXCEPT !.value = SubSeq(f.value, 1, Len(f.value) % LenSpan)]
    ELSE f

(* The known limits of the format: a handler that is not aware of the      *)
(* header of its arguments, and a text the services write whole behind a   *)
(* length that does not count all of it.                                   *)
Straight ==
    /\ Len(envelope) # 1
    /\ \A i \in DOMAIN Sent : Sent[i].type = "loop" => Len(Sent[i].value) < LenSpan

(* Core/Packet.h: reading in the order of writing gives the values written *)
(* and never throws, whatever mixture of scalars, strings, raylib types    *)
(* and packets within packets shares the bytes; a string that is too long  *)
(* comes out shorter and does not move the values behind it.               *)
ReadsBack ==
    Straight =>
        /\ phase # "failed"
        /\ \A i \in DOMAIN got : got[i] = Kept(Sent[i]).value

(* README.md: "the other side reads them out with read<T>() - in the same  *)
(* order you wrote them", and RPC.h lets one "Call a function on the       *)
(* remote side like a local function": the values are the ones written, in *)
(* packets that are sent and in the arguments of calls.                    *)
ReadAsWritten ==
    /\ phase # "failed"
    /\ \A i \in DOMAIN got : got[i] = Sent[i].value
=============================================================================
