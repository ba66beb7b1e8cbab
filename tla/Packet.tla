------------------------------- MODULE Packet -------------------------------
(***************************************************************************)
(* What is inside a frame: the arguments a handler puts into a PacketBase  *)
(* and the other side gets out of it, one after the other, and the message *)
(* that the KabuCodec of dbsrv packs with the name of its type. Both are   *)
(* bytes in a Buffer, which is the one of module Framing; here a byte is a *)
(* number. Numbers are little-endian: nothing is swapped for the network.  *)
(***************************************************************************)
EXTENDS Framing

CONSTANTS
    Argument,     \* what may be put: [kind, value]
    StringRoom,   \* sizes of the arrays strings are read into
    MaxArgs,      \* bound: arguments put
    Generated,    \* names of the types compiled into dbsrv
    Imported,     \* names of the types read from .proto files
    TypeName,     \* names a peer may send, known or not
    Body          \* what a message serializes to

Byte == 0..255
NameByte == 1..254   \* names are C strings before they are encoded and after
MaxName == 1023      \* encodeTypeName and decodeTypeName have an array for them
MaxInt16 == 32767
MaxInt32 == 2147483647

\* Numbers are those of their types; the length of a string goes into an int16, that of
\* a message into an int32, for which a buffer has room before it.
ASSUME PacketAssumption ==
    /\ \A a \in Argument :
          \/ a.kind = "int16" /\ a.value \in (-MaxInt16 - 1)..MaxInt16
          \/ a.kind = "int32" /\ a.value \in (-MaxInt32 - 1)..MaxInt32
          \/ a.kind = "utf" /\ a.value \in Seq(Byte) /\ Len(a.value) <= MaxInt16
    /\ StringRoom \subseteq Nat /\ MaxArgs \in Nat
    /\ Generated \cup Imported \subseteq TypeName
    /\ \A name \in TypeName : name # <<>> /\ name \in Seq(NameByte) /\ Len(name) <= MaxName
    /\ \A body \in Body : body \in Seq(Byte)
    /\ \A name \in TypeName, body \in Body : 6 + Len(name) + Len(body) <= MaxInt32
    /\ CheapPrepend >= 4

VARIABLES
    pb,        \* buffer_ of the packet, or of the message
    argsPut,   \* history: the arguments put
    argsGot,   \* history: the values got
    refused,   \* a string did not fit and the handler gave up: its length, its room
    packed,    \* history: the messages packed, one at most
    parsed     \* what parse() made of it

packetVars == <<pb, argsPut, argsGot, refused, packed, parsed>>

-----------------------------------------------------------------------------
(* Numbers in a buffer                                                      *)

Pow256 == <<1, 256, 65536, 16777216>>

\* The low n bytes of x, negative or not.
BytesOf(x, n) == [i \in 1..n |-> (x \div Pow256[i]) % 256]

\* The number in two bytes or in four, with its sign.
AsNumber(bytes) ==
    LET n   == Len(bytes)
        top == IF bytes[n] >= 128 THEN bytes[n] - 256 ELSE bytes[n]
    IN  IF n = 2 THEN bytes[1] + 256 * top
        ELSE bytes[1] + 256 * bytes[2] + 65536 * bytes[3] + 16777216 * top

\* static_cast<int16> of a size.
AsInt16(x) == LET low == x % 65536 IN IF low > MaxInt16 THEN low - 65536 ELSE low

AppendInt(b, x, n) == AppendBytes(b, BytesOf(x, n))
PeekInt(b, n) == AsNumber(SubSeq(Readable(b), 1, n))
ReadInt(b, n) == [value |-> PeekInt(b, n), rest |-> Retrieve(b, n)]
GetBytes(b, n) == SubSeq(Readable(b), 1, n)

-----------------------------------------------------------------------------
(* PacketBase: putting and getting. A getter says what it read and what is  *)
(* left.                                                                    *)

PutInt16(b, x) == AppendInt(b, x, 2)
PutInt32(b, x) == AppendInt(b, x, 4)
PutUTF(b, s) == AppendBytes(AppendInt(b, Len(s), 2), s)

\* MUTANT of GetInt16: the last argument of a packet is not got.
GetInt16Inside(b) ==
    IF ReadableBytes(b) > 2 THEN ReadInt(b, 2) ELSE [value |-> 0, rest |-> b]

\* Past the end a number is 0.
GetInt16(b) == IF ReadableBytes(b) >= 2 THEN ReadInt(b, 2) ELSE [value |-> 0, rest |-> b]

GetInt32(b) == IF ReadableBytes(b) >= 4 THEN ReadInt(b, 4) ELSE [value |-> 0, rest |-> b]

\* A string that does not fit with the 0 after it is refused, its length is lost. How
\* much is there is taken for an int16: before more than MaxInt16 bytes one is refused
\* that fits.
GetUTF(b, room) ==
    IF ReadableBytes(b) < 2 THEN [ok |-> FALSE, size |-> 0, value |-> <<>>, rest |-> b]
    ELSE LET r == ReadInt(b, 2) IN
         IF r.value >= room \/ AsInt16(ReadableBytes(r.rest)) < r.value
         THEN [ok |-> FALSE, size |-> r.value, value |-> <<>>, rest |-> r.rest]
         ELSE [ok |-> TRUE, size |-> r.value, value |-> GetBytes(r.rest, r.value),
               rest |-> Retrieve(r.rest, r.value)]

PutArgument(a) ==
    /\ packed = <<>> /\ Len(argsPut) < MaxArgs /\ Len(argsGot) <= Len(argsPut)
    /\ \/ a.kind = "int16" /\ pb' = PutInt16(pb, a.value)
       \/ a.kind = "int32" /\ pb' = PutInt32(pb, a.value)
       \/ a.kind = "utf" /\ pb' = PutUTF(pb, a.value)
    /\ argsPut' = Append(argsPut, a)
    /\ UNCHANGED <<argsGot, refused, packed, parsed>>

\* The kind the protocol has at this place; past the arguments there is no other.
Wanted(kind) == Len(argsGot) < Len(argsPut) => argsPut[Len(argsGot) + 1].kind = kind

Got(r) == /\ pb' = r.rest /\ argsGot' = Append(argsGot, r.value)
          /\ UNCHANGED <<argsPut, refused, packed, parsed>>

\* Handlers read what they expect, one argument too many at most.
GetNumber ==
    /\ packed = <<>> /\ refused = <<>> /\ Len(argsGot) <= Len(argsPut)
    /\ \/ Wanted("int16") /\ Got(GetInt16(pb))
       \/ Wanted("int32") /\ Got(GetInt32(pb))

GetString(room) ==
    LET r == GetUTF(pb, room) IN
    /\ packed = <<>> /\ refused = <<>> /\ Len(argsGot) < Len(argsPut) /\ Wanted("utf")
    /\ IF r.ok THEN Got(r)
       ELSE /\ pb' = r.rest /\ refused' = <<r.size, room>>
            /\ UNCHANGED <<argsPut, argsGot, packed, parsed>>

-----------------------------------------------------------------------------
(* The messages of dbsrv                                                    *)

\* encodeTypeName and decodeTypeName: each byte ^ 0xFF.
EncodeTypeName(name) == [i \in DOMAIN name |-> 255 - name[i]]
DecodeTypeName(bytes) == [i \in DOMAIN bytes |-> 255 - bytes[i]]

\* fillEmptyBuff: the name and its length, an unused head, the body; before all that
\* how much it is.
FillEmptyBuff(name, body) ==
    LET named  == AppendBytes(AppendInt(NewBuffer, Len(name), 2), EncodeTypeName(name))
        filled == AppendBytes(AppendInt(named, 0, 4), body)
    IN  PrependBytes(filled, BytesOf(ReadableBytes(filled), 4))

\* The types createMessage finds: the compiled ones first, then the imported.
CreateDynamicMessage(name) == IF name \in Imported THEN "dynamic" ELSE "none"
CreateMessage(name) == IF name \in Generated THEN "compiled" ELSE CreateDynamicMessage(name)

\* parse() of the frame after its length; the name must end before what an int16 says
\* of the frame's end.
ParseFrame(bytes) ==
    LET nameLen == AsNumber(SubSeq(bytes, 1, 2))
        name    == DecodeTypeName(SubSeq(bytes, 3, 2 + nameLen))
    IN  IF nameLen \notin 1..AsInt16(Len(bytes) - 2) THEN [error |-> "kInvalidNameLen"]
        ELSE IF CreateMessage(name) = "none" THEN [error |-> "kUnknownMessageType"]
        ELSE [error |-> "kNoError", class |-> CreateMessage(name), name |-> name,
              body |-> SubSeq(bytes, 7 + nameLen, Len(bytes))]

PackMessage(name, body) ==
    /\ argsPut = <<>> /\ argsGot = <<>> /\ packed = <<>>
    /\ pb' = FillEmptyBuff(name, body)
    /\ packed' = <<[name |-> name, body |-> body]>>
    /\ UNCHANGED <<argsPut, argsGot, refused, parsed>>

\* onMessage of a frame that is there, and as long as it says.
ParseMessage ==
    /\ packed # <<>> /\ ReadableBytes(pb) >= 4
    /\ LET size == PeekInt(pb, 4) IN
       /\ ReadableBytes(pb) >= 4 + size
       /\ parsed' = ParseFrame(SubSeq(Readable(pb), 5, 4 + size))
       /\ pb' = IF parsed'.error = "kNoError" THEN Retrieve(pb, 4 + size) ELSE pb
    /\ parsed.error = "unparsed"
    /\ UNCHANGED <<argsPut, argsGot, refused, packed>>

PacketInit ==
    /\ pb = NewBuffer /\ argsPut = <<>> /\ argsGot = <<>> /\ refused = <<>> /\ packed = <<>>
    /\ parsed = [error |-> "unparsed"]

PacketNext ==
    \/ \E a \in Argument : PutArgument(a)
    \/ GetNumber
    \/ \E room \in StringRoom : GetString(room)
    \/ \E name \in TypeName, body \in Body : PackMessage(name, body)
    \/ ParseMessage

\* Frames and what is in them, each in its own buffers.
BytesSpec ==
    /\ FramingInit /\ PacketInit
    /\ [][\/ FramingNext /\ UNCHANGED packetVars
          \/ PacketNext /\ UNCHANGED framingVars]_<<framingVars, packetVars>>

-----------------------------------------------------------------------------
(* What must hold                                                           *)

\* However puts and gets alternate while the buffer grows and moves, the values come
\* out as they went in; a number past the end is 0; only a string with no room for it
\* is refused, or one before more bytes than an int16 counts; and a message comes out
\* with its type and its body, or not at all, if dbsrv has no such type or the message
\* is longer than an int16 counts.
ArgumentsIntact ==
    /\ \A i \in DOMAIN argsGot :
          argsGot[i] = IF i \in DOMAIN argsPut THEN argsPut[i].value ELSE 0
    /\ refused # <<>> => /\ refused[1] >= refused[2] \/ ReadableBytes(pb) > MaxInt16
                         /\ refused[1] = Len(argsPut[Len(argsGot) + 1].value)
    /\ parsed.error \in {"unparsed", "kNoError", "kUnknownMessageType", "kInvalidNameLen"}
    /\ parsed.error = "kNoError" =>
          /\ packed = <<[name |-> parsed.name, body |-> parsed.body]>>
          /\ ReadableBytes(pb) = 0
    /\ parsed.error = "kUnknownMessageType" => packed[1].name \notin Generated \cup Imported
    /\ parsed.error = "kInvalidNameLen" =>
          4 + Len(packed[1].name) + Len(packed[1].body) > MaxInt16

\* Frames and what is in them arrive as they were sent: see FramesIntact of Framing and
\* ArgumentsIntact.
BytesIntact == FramesIntact /\ ArgumentsIntact
=============================================================================
