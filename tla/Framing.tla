------------------------------- MODULE Framing -------------------------------
(***************************************************************************)
(* How messages become bytes and bytes messages again: Buffer of mysdk/net *)
(* with the codecs that use it, KaBuCodec and PacketBase ("kabu") and the  *)
(* KabuCodec of dbsrv ("db"). One peer sends frames, the stream between    *)
(* carries their bytes in pieces, and onMessage takes frames out of the    *)
(* input buffer.                                                           *)
(*                                                                         *)
(* Byte k of frame f is <<f, k>>, the header first; the header says what   *)
(* `sent' says of the frame.                                               *)
(***************************************************************************)
EXTENDS Integers, Sequences, SequencesExt

CONSTANTS
    Codecs,                     \* the codecs to choose from
    CheapPrepend, InitialSize,  \* kCheapPrepend, kInitialSize
    ExtraBuf,                   \* size of the array on the stack of readFd
    HeaderLen, MinMessageLen,   \* codec -> kHeaderLen, kMinMessageLen
    MaxMessageLen,              \* kMaxMessageLen
    MaxFrames                   \* bound: frames sent

ASSUME FramingAssumption ==
    /\ Codecs \subseteq {"kabu", "db"}
    /\ CheapPrepend \in Nat /\ InitialSize \in Nat /\ ExtraBuf \in Nat \ {0}
    /\ MaxMessageLen \in Nat /\ MaxFrames \in Nat
    /\ \A c \in Codecs : HeaderLen[c] \in 1..CheapPrepend /\ MinMessageLen[c] \in 0..MaxMessageLen
    \* No packet has room for two headers of KaBuCodec before it.
    /\ "kabu" \in Codecs => CheapPrepend < 2 * HeaderLen["kabu"]

VARIABLES
    codec,     \* the codec both sides use
    sent,      \* frames sent: the length given, the bytes of content, the kind
    stream,    \* bytes written and not read
    input,     \* inputBuffer_ of the receiving connection
    decoding,  \* onMessage is under way
    open,      \* the receiver has not shut the connection down
    delivered  \* the contents messageCallback_ was given

framingVars == <<codec, sent, stream, input, decoding, open, delivered>>

-----------------------------------------------------------------------------
(* Buffer: indices are those of the code, data[i + 1] is byte i.            *)

NoByte == <<0, 0>>
Blank(n) == [i \in 1..n |-> NoByte]

NewBuffer == [data |-> Blank(CheapPrepend + InitialSize),
              reader |-> CheapPrepend, writer |-> CheapPrepend]

Readable(b) == SubSeq(b.data, b.reader + 1, b.writer)
ReadableBytes(b) == b.writer - b.reader
WriteableBytes(b) == Len(b.data) - b.writer
PrependableBytes(b) == b.reader

Overwrite(data, at, bytes) ==
    [i \in DOMAIN data |-> IF i - at \in DOMAIN bytes THEN bytes[i - at] ELSE data[i]]

\* The indices go back but the bytes stay where they are.
ToFrontUncopied(b) == [b EXCEPT !.reader = CheapPrepend,
                                !.writer = CheapPrepend + ReadableBytes(b)]

ToFront(b) == [data |-> Overwrite(b.data, CheapPrepend, Readable(b)),
               reader |-> CheapPrepend, writer |-> CheapPrepend + ReadableBytes(b)]

Resized(b, more) == [b EXCEPT !.data = @ \o Blank(more - WriteableBytes(b))]

MakeSpace(b, more) ==
    IF WriteableBytes(b) + PrependableBytes(b) < more + CheapPrepend THEN Resized(b, more)
    ELSE ToFront(b)

AppendBytes(b, bytes) ==
    LET r == IF WriteableBytes(b) < Len(bytes) THEN MakeSpace(b, Len(bytes)) ELSE b
    IN  [r EXCEPT !.data = Overwrite(@, r.writer, bytes), !.writer = @ + Len(bytes)]

Retrieve(b, n) == [b EXCEPT !.reader = @ + n]

PrependBytes(b, bytes) ==
    [b EXCEPT !.data = Overwrite(@, b.reader - Len(bytes), bytes),
              !.reader = @ - Len(bytes)]

\* readv fills the buffer, then the array on the stack, which is appended.
ReadFd(b, bytes) ==
    LET room == WriteableBytes(b)
    IN  IF Len(bytes) <= room THEN AppendBytes(b, bytes)
        ELSE AppendBytes(AppendBytes(b, SubSeq(bytes, 1, room)),
                         SubSeq(bytes, room + 1, Len(bytes)))

-----------------------------------------------------------------------------
(* The sender                                                               *)

HeaderOf(f) == [k \in 1..HeaderLen[codec] |-> <<f, k>>]
ContentOf(f, size) == [k \in 1..size |-> <<f, HeaderLen[codec] + k>>]

\* A packet that has its header already is sent as it is: its buffer has no
\* room before it for a second one.
Framed(pb, header) ==
    IF PrependableBytes(pb) >= Len(header) THEN PrependBytes(pb, header) ELSE pb

FramingInit ==
    /\ codec \in Codecs
    /\ sent = <<>> /\ stream = <<>> /\ input = NewBuffer
    /\ decoding = FALSE /\ open = TRUE /\ delivered = <<>>

\* What a peer may send: messages of the codec, and frames that no codec of
\* this program wrote.
Frames ==
    [len : MinMessageLen[codec]..MaxMessageLen, kind : {"good", "bad"}]
    \cup [len : {MaxMessageLen + 1}, kind : {"bad"}]

\* KaBuCodec::send may be given one packet twice: a frame like it follows.
SendFrame(frame, times) ==
    /\ Len(sent) + times <= MaxFrames
    /\ codec # "kabu" => times = 1
    /\ LET f == Len(sent) + 1
           first == Framed(AppendBytes(NewBuffer, ContentOf(f, frame.len)), HeaderOf(f))
           again == Framed(first, HeaderOf(f))
           named(bytes, g) == [i \in DOMAIN bytes |-> <<g, bytes[i][2]>>]
       IN  /\ sent' = sent \o [i \in 1..times |-> frame]
           /\ stream' = stream \o Readable(first)
                           \o IF times = 2 THEN named(Readable(again), f + 1) ELSE <<>>
    /\ UNCHANGED <<codec, input, decoding, open, delivered>>

-----------------------------------------------------------------------------
(* The receiver                                                             *)

\* TcpConnection::handleRead: some of what has come, then onMessage.
Receive(n) ==
    /\ ~decoding /\ n <= WriteableBytes(input) + ExtraBuf
    /\ input' = ReadFd(input, SubSeq(stream, 1, n))
    /\ stream' = SubSeq(stream, n + 1, Len(stream))
    /\ decoding' = TRUE
    /\ UNCHANGED <<codec, sent, open, delivered>>

Head1 == sent[Head(Readable(input))[1]]
LengthRead == Head1.len

Enough == ReadableBytes(input) >= MinMessageLen[codec] + HeaderLen[codec]
LengthOK == LengthRead \in MinMessageLen[codec]..MaxMessageLen
Complete == ReadableBytes(input) >= LengthRead + HeaderLen[codec]

\* "kabu" looks at the magic of the header before anything else, "db" parses
\* the whole frame.
Refused ==
    \/ codec = "kabu" /\ Head1.kind = "bad"
    \/ ~LengthOK
    \/ codec = "db" /\ Complete /\ Head1.kind = "bad"

DecodeOne ==
    /\ decoding /\ Enough /\ ~Refused /\ Complete
    /\ delivered' = Append(delivered, SubSeq(Readable(input), HeaderLen[codec] + 1,
                                             HeaderLen[codec] + LengthRead))
    /\ input' = Retrieve(input, HeaderLen[codec] + LengthRead)
    /\ UNCHANGED <<codec, sent, stream, decoding, open>>

\* The connection is shut down and the frame stays. "db" breaks out of the
\* loop; "kabu" looks at the same frame again.
DecodeRefused ==
    /\ decoding /\ Enough /\ Refused
    /\ open' = FALSE
    /\ decoding' = (codec # "db")
    /\ UNCHANGED <<codec, sent, stream, input, delivered>>

DecodeLater ==
    /\ decoding
    /\ Enough => ~Refused /\ ~Complete
    /\ decoding' = FALSE
    /\ UNCHANGED <<codec, sent, stream, input, open, delivered>>

Decode == DecodeOne \/ DecodeRefused \/ DecodeLater

FramingNext ==
    \/ \E frame \in Frames, times \in 1..2 : SendFrame(frame, times)
    \/ \E n \in 1..Len(stream) : Receive(n)
    \/ Decode

FramingSpec == FramingInit /\ [][FramingNext]_framingVars

-----------------------------------------------------------------------------
(* What must hold                                                           *)

FrameLen(f) == HeaderLen[codec] + sent[f].len

\* The byte that was sent after this one.
ByteAfter(byte) ==
    LET f == byte[1]
        k == byte[2]
    IN  IF k < FrameLen(f) THEN <<f, k + 1>> ELSE <<f + 1, 1>>

\* The bytes of the frames behind the first d, in the order they were sent.
BytesBehind(d, bytes) ==
    IF d = Len(sent) THEN bytes = <<>>
    ELSE /\ bytes # <<>> /\ bytes[1] = <<d + 1, 1>>
         /\ \A i \in DOMAIN bytes : bytes[i][1] \in DOMAIN sent
         /\ \A i \in 1..(Len(bytes) - 1) : bytes[i + 1] = ByteAfter(bytes[i])
         /\ bytes[Len(bytes)] = <<Len(sent), FrameLen(Len(sent))>>

\* Whatever pieces the stream comes in, however the buffer grows or moves what
\* it holds and whichever packets are sent twice: the callback was given the
\* contents of the frames in order, each whole; the bytes of the others are
\* there, in order and once; and when onMessage has returned no good frame
\* that has come whole is left behind, unless a bad one stopped it.
FramesIntact ==
    /\ Len(delivered) <= Len(sent)
    /\ delivered = [f \in DOMAIN delivered |-> ContentOf(f, sent[f].len)]
    /\ \A f \in DOMAIN delivered : sent[f].kind = "good"
    /\ BytesBehind(Len(delivered), Readable(input) \o stream)
    /\ ~decoding /\ open /\ Len(delivered) < Len(sent) =>
          ReadableBytes(input) < HeaderLen[codec] + sent[Len(delivered) + 1].len
=============================================================================
