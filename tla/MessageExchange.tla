-------------------------- MODULE MessageExchange --------------------------
(***************************************************************************)
(* Bytes between the television and the client: a stream of frames that    *)
(* the client takes apart one length byte at a time (readOneLengthByte of  *)
(* src/src/android_tv_remote.cpp, receive of src/src/pairing.cpp), parses  *)
(* and answers, and the commands it builds.                                *)
(*                                                                         *)
(* The television is external.  An "honest" one encodes what it means as   *)
(* any Protocol Buffers library would, with fields the client does not     *)
(* know; a "garbled" one sends a frame of arbitrary bytes, a "raw" one     *)
(* arbitrary bytes without frames; a "quiet" one only listens.             *)
(***************************************************************************)
EXTENDS ProtocolMessages

CONSTANTS
    MaxFrame,      \* MaxFrameSize, the limit of 4 MiB
    VoiceChunk,    \* VoiceChunkSize
    VoiceMinimum,  \* VoiceMinimumChunkSize
    Ints, Texts,   \* the int32_t values and the strings in use
    RawBytes,      \* the bytes of a raw television
    MaxFrames,     \* bound: messages of an honest television on one stream
    MaxGarbled,    \* bound: the length of a garbled body
    MaxRaw,        \* bound: raw bytes
    MaxCommands,   \* bound: commands of the application
    MaxVoice,      \* bound: the length of voice data
    MaxStreams     \* bound: connections

ASSUME FrameAssumption ==
    /\ MaxFrame \in Nat /\ MaxFrame < Word
    /\ VoiceChunk \in Nat \ {0} /\ VoiceMinimum \in 0..VoiceChunk
    /\ 0..3 \subseteq Signed   \* the directions of a key
    /\ Ints \subseteq Signed /\ Texts \subseteq Seq(Bytes) /\ RawBytes \subseteq Bytes
    /\ {MaxFrames, MaxGarbled, MaxRaw, MaxCommands, MaxVoice, MaxStreams} \subseteq Nat

\* A word has room for the length of any message: no string and no chunk comes
\* near 2 to the power of 64 bytes.
ASSUME RoomAssumption ==
    \A n \in {Len(t) : t \in Texts \cup {Text}} \cup {VoiceChunk} : 3 * n + 20 * Groups < Word

VARIABLES
    channel,   \* who reads: the remote connection or a pairing session
    tv,        \* what the television is like
    stream,    \* the bytes sent and not yet read
    rx,        \* where the reader is in a frame
    streams,   \* how many streams there were
    sent,      \* history: what the television meant, on this stream
    delivered, \* history: the bodies the client has read, on this stream
    asked,     \* history: what the client meant, on this stream
    written,   \* history: the frames it wrote for it
    voice      \* history: the samples the application gave

vars == <<channel, tv, stream, rx, streams, sent, delivered, asked, written, voice>>

-----------------------------------------------------------------------------
(* The television's messages (external).  Extras are three samples of fields  *)
(* the client does not know, or of a type it does not expect there; between   *)
(* them they have every wire type but a group, at which Reader gives up.      *)

Meant(kind, values) == [kind |-> kind, values |-> values]

UnsignedInts == {ToUnsigned(i) : i \in Ints}

Meanings ==
    {Meant("Configure", <<i, s, t, u>>) : i \in Ints, s, t, u \in Texts}
    \cup {Meant(k, <<i>>) : k \in {"Ping", "VoiceBegin"}, i \in Ints}
    \cup {Meant("ImeBatchEdit", <<i, j>>) : i, j \in Ints}
    \cup {Meant("ImeKeyInject", <<t>>) : t \in Texts}
    \cup {Meant("Start", <<b>>) : b \in BOOLEAN}
    \cup {Meant("Volume", <<x, l, b>>) : x, l \in UnsignedInts, b \in BOOLEAN}
    \cup {Meant(k, <<>>) : k \in {"SetActive", "Error"}}

PairingMeanings ==
    {[ok |-> ok, has |-> has] : ok \in BOOLEAN, has \in {{}} \cup {{a} : a \in DOMAIN PairingAcks}}

\* An int32 is sign-extended, and left out when it is zero.
TvInt(number, i) == IF i = 0 THEN <<>> ELSE VarintField(number, SignExtended(i))
TvBool(number, b) == VarintField(number, IF b THEN 1 ELSE 0)

TvBody(m) ==
    CASE m.kind = "Configure" ->
            TvInt(1, m.values[1]) \o
            BytesField(2, BytesField(1, m.values[2]) \o BytesField(2, m.values[3]) \o BytesField(6, m.values[4]))
      [] m.kind \in {"Ping", "VoiceBegin"} -> TvInt(1, m.values[1])
      [] m.kind = "ImeKeyInject" -> BytesField(1, BytesField(12, m.values[1]))
      [] m.kind = "ImeBatchEdit" -> TvInt(1, m.values[1]) \o TvInt(2, m.values[2])
      [] m.kind = "Start" -> TvBool(1, m.values[1])
      [] m.kind = "Volume" -> VarintField(6, m.values[1]) \o VarintField(7, m.values[2]) \o
                              TvBool(8, m.values[3])
      [] OTHER -> <<>>

Zeros(n) == [i \in 1..n |-> 0]

Extras ==
    {VarintField(1, 5),
     BytesField(60, VarintField(1, 1)) \o Key(9, Fixed32) \o Zeros(Fixed32Size),
     VarintField(61, Word - 1) \o Key(8, Fixed64) \o Zeros(Fixed64Size)}

RemoteMessage(m, before, inside, after) ==
    before \o BytesField(KindNumbers[m.kind], inside \o TvBody(m)) \o after

PairingMessage(m, before, inside, after) ==
    before \o VarintField(1, 2) \o inside \o VarintField(2, IF m.ok THEN 200 ELSE 400) \o
    (IF m.has = {} THEN <<>> ELSE BytesField(PairingAcks[CHOOSE a \in m.has : TRUE], <<>>)) \o after

TvMessage(m, p) ==
    IF channel = "remote" THEN RemoteMessage(m, p[1], p[2], p[3]) ELSE PairingMessage(m, p[1], p[2], p[3])

\* Where extras may be: in one place at most, and only in a first message.  A
\* field 1 is out of place only at the top of a message.
NoExtras == <<<<>>, <<>>, <<>>>>
Placed ==
    {NoExtras} \cup {<<e, <<>>, <<>>>> : e \in Extras} \cup {<<<<>>, <<>>, e>> : e \in Extras}
    \cup {<<<<>>, e, <<>>>> : e \in Extras \ {VarintField(1, 5)}}
Placements == IF sent = <<>> THEN Placed ELSE {NoExtras}

\* An honest television keeps to the limit of a frame.
ASSUME HonestAssumption ==
    \A p \in Placed :
        /\ \A m \in Meanings : Len(RemoteMessage(m, p[1], p[2], p[3])) <= MaxFrame
        /\ \A m \in PairingMeanings : Len(PairingMessage(m, p[1], p[2], p[3])) <= MaxFrame

-----------------------------------------------------------------------------
(* Reading a frame *)

\* (Broken: only the length is reset.)
FrameStartKeepsShift(r) == [r EXCEPT !.phase = "length", !.length = 0, !.prefix = <<>>]

\* beginReadLength; receive() has its own zeros.  `prefix' is history.
FrameStart(r) == [phase |-> "length", length |-> 0, shift |-> 0, prefix |-> <<>>]

\* A body is read by the same Reader on either channel, so one garbled
\* television is enough.
Init ==
    /\ channel \in {"remote", "pairing"}
    /\ tv \in {"honest", "raw", "quiet"} \cup IF channel = "remote" THEN {"garbled"} ELSE {}
    /\ stream = <<>>
    /\ rx = [phase |-> "length", length |-> 0, shift |-> 0, prefix |-> <<>>]
    /\ streams = 1
    /\ sent = <<>> /\ delivered = <<>>
    /\ asked = <<>> /\ written = <<>> /\ voice = <<>>

\* (Broken: one byte too many is read, and the limit is not tested.)
ReadOneLengthByteLate(r, byte) ==
    [phase  |-> IF byte < Base THEN "body" ELSE IF r.shift > MaxShift THEN "closed" ELSE "length",
     length |-> r.length + Contribution(byte, r.shift),
     shift  |-> IF byte < Base THEN r.shift ELSE r.shift + GroupBits,
     prefix |-> Append(r.prefix, byte)]

\* The handler of readOneLengthByte: the frame is given up when the tenth byte
\* announces another one, or when its length exceeds the limit.
ReadOneLengthByte(r, byte) ==
    LET length == r.length + Contribution(byte, r.shift)
        more   == byte >= Base
    IN  [phase  |-> IF more THEN IF r.shift + GroupBits > MaxShift THEN "closed" ELSE "length"
                    ELSE IF length > MaxFrame THEN "closed" ELSE "body",
         length |-> length,
         shift  |-> IF more THEN r.shift + GroupBits ELSE r.shift,
         prefix |-> Append(r.prefix, byte)]

\* One turn of receive()'s loop, and the test after it.
Receive(r, byte) ==
    LET next == [r EXCEPT !.length = @ + Contribution(byte, r.shift), !.prefix = Append(@, byte)]
    IN  IF byte < Base
        THEN [next EXCEPT !.phase = IF next.length > MaxFrame THEN "closed" ELSE "body"]
        ELSE [next EXCEPT !.shift = @ + GroupBits,
                          !.phase = IF next.shift + GroupBits > MaxShift THEN "closed" ELSE "length"]

LengthByte(r, byte) == IF channel = "remote" THEN ReadOneLengthByte(r, byte) ELSE Receive(r, byte)

-----------------------------------------------------------------------------
(* Answers and commands.  What is asked is a tuple of its name and its       *)
(* arguments.                                                                *)

Build(c) ==
    CASE c[1] = "Configure"     -> RemoteConfigureResponse(c[2])
      [] c[1] = "SetActive"     -> RemoteSetActiveResponse(c[2])
      [] c[1] = "Ping"          -> RemotePingResponse(c[2])
      [] c[1] = "Key"           -> RemoteKey(c[2], c[3])
      [] c[1] = "Text"          -> RemoteText(c[2], c[3], c[4])
      [] c[1] = "AppLink"       -> RemoteAppLink(c[2])
      [] c[1] = "VoiceBegin"    -> RemoteVoiceBegin(c[2])
      [] c[1] = "VoicePayload"  -> RemoteVoicePayload(c[2], c[3])
      [] c[1] = "VoiceEnd"      -> RemoteVoiceEnd(c[2])
      [] c[1] = "Request"       -> PairingRequest(c[2])
      [] c[1] = "Options"       -> PairingOptions
      [] c[1] = "Configuration" -> PairingConfiguration
      [] c[1] = "Secret"        -> PairingSecret(c[2])

\* The answers handleMessage may give; whether a VoiceBegin is answered, and
\* with which features a Configure, is RemoteConnection's matter.
RemoteAnswers(incoming) ==
    CASE incoming.kind \in {"Configure", "SetActive"} -> {<<<<incoming.kind, i>>>> : i \in Ints}
      [] incoming.kind = "Ping"       -> {<<<<"Ping", incoming.values[1]>>>>}
      [] incoming.kind = "VoiceBegin" -> {<<>>, <<<<"VoiceBegin", incoming.values[1]>>>>}
      [] OTHER                        -> {<<>>}

\* What start() sends on a reply; finish() sends nothing on any.
PairingAnswers(reply) ==
    CASE ~reply.ok                   -> {<<>>}
      [] "requestAck" \in reply.has  -> {<<>>, <<<<"Options">>>>}
      [] "options" \in reply.has     -> {<<>>, <<<<"Configuration">>>>}
      [] OTHER                       -> {<<>>}

Answers(body) ==
    IF channel = "remote" THEN RemoteAnswers(ParseRemote(body)) ELSE PairingAnswers(PairingReply(body))

Write(cs) ==
    /\ asked' = asked \o cs
    /\ written' = written \o [i \in DOMAIN cs |-> Frame(Build(cs[i]))]

Deliver(body) ==
    /\ delivered' = Append(delivered, body)
    /\ \E cs \in Answers(body) : Write(cs)

\* (Broken: the remainder that does not fill a chunk is not sent.)
VoiceChunksShort(data) ==
    LET n == Len(data) \div VoiceChunk
    IN  [i \in 1..n |-> SubSeq(data, (i - 1) * VoiceChunk + 1, i * VoiceChunk)]

\* The chunks sendVoiceData cuts its samples into; a short one is padded.
VoiceChunks(data) ==
    LET n == (Len(data) + VoiceChunk - 1) \div VoiceChunk
        Chunk(i) == SubSeq(data, (i - 1) * VoiceChunk + 1, Min({i * VoiceChunk, Len(data)}))
    IN  [i \in 1..n |-> Chunk(i) \o Zeros(Max({VoiceMinimum - Len(Chunk(i)), 0}))]

-----------------------------------------------------------------------------
(* Actions *)

TvSends(bytes, what) ==
    /\ stream' = stream \o bytes
    /\ sent' = Append(sent, what)
    /\ UNCHANGED <<channel, tv, rx, streams, delivered, asked, written, voice>>

TvSendsMessage ==
    /\ tv = "honest"
    /\ Len(sent) < MaxFrames
    /\ \E m \in IF channel = "remote" THEN Meanings ELSE PairingMeanings, p \in Placements :
          TvSends(Frame(TvMessage(m, p)), m)

TvSendsGarbled ==
    /\ tv = "garbled"
    /\ sent = <<>>
    /\ \E n \in 0..MaxGarbled : \E body \in [1..n -> Bytes] : TvSends(Frame(body), Unknown)

TvSendsByte ==
    /\ tv = "raw"
    /\ Len(sent) < MaxRaw
    /\ \E byte \in RawBytes : TvSends(<<byte>>, Unknown)

\* A length byte has been read.  An empty frame is handled at once.
LengthByteRead ==
    /\ rx.phase = "length"
    /\ stream # <<>>
    /\ stream' = Tail(stream)
    /\ LET next == LengthByte(rx, Head(stream))
       IN  \/ /\ next.phase = "body" /\ next.length = 0
              /\ rx' = FrameStart(next)
              /\ Deliver(<<>>)
           \/ /\ ~(next.phase = "body" /\ next.length = 0)
              /\ rx' = next
              /\ UNCHANGED <<delivered, asked, written>>
    /\ UNCHANGED <<channel, tv, streams, sent, voice>>

\* The whole body has been read: it is handled and the next frame begins.
BodyRead ==
    /\ rx.phase = "body"
    /\ Len(stream) >= rx.length
    /\ stream' = SubSeq(stream, rx.length + 1, Len(stream))
    /\ rx' = FrameStart(rx)
    /\ Deliver(SubSeq(stream, 1, rx.length))
    /\ UNCHANGED <<channel, tv, streams, sent, voice>>

\* closeStream's reset of the reader.
CloseStream(r) == [phase |-> "length", length |-> 0, shift |-> 0, prefix |-> <<>>]

\* The stream is lost anywhere in a frame, or given up, and a new one opened;
\* the histories are those of the new stream.
NewStream ==
    /\ channel = "remote" /\ tv = "honest"
    /\ streams < MaxStreams
    /\ streams' = streams + 1
    /\ stream' = <<>> /\ sent' = <<>> /\ delivered' = <<>>
    /\ asked' = <<>> /\ written' = <<>>
    /\ rx' = FrameStart(CloseStream(rx))
    /\ UNCHANGED <<channel, tv, voice>>

Commands ==
    IF channel = "remote"
    THEN {<<"Key", i, d>> : i \in Ints, d \in 0..3}
         \cup {<<"Text", t, i, j>> : t \in Texts \ {<<>>}, i, j \in Ints}
         \cup {<<"AppLink", t>> : t \in Texts}
         \cup {<<"VoiceEnd", i>> : i \in Ints}
    ELSE {<<"Request", t>> : t \in Texts} \cup {<<"Secret", t>> : t \in Texts}

\* sendKey, sendText, launchApp, stopVoice; the first and last message of a
\* pairing.
Command ==
    /\ tv = "quiet"
    /\ Len(asked) < MaxCommands
    /\ \E c \in Commands : Write(<<c>>)
    /\ UNCHANGED <<channel, tv, stream, rx, streams, sent, delivered, voice>>

\* sendVoiceData, within a session.
SendVoiceData ==
    /\ tv = "quiet" /\ channel = "remote"
    /\ voice = <<>> /\ Len(asked) < MaxCommands
    /\ \E n \in 1..MaxVoice, i \in Ints :
          LET chunks == VoiceChunks([k \in 1..n |-> k % Base])
          IN  /\ voice' = [k \in 1..n |-> k % Base]
              /\ Write([k \in DOMAIN chunks |-> <<"VoicePayload", i, chunks[k]>>])
    /\ UNCHANGED <<channel, tv, stream, rx, streams, sent, delivered>>

Next ==
    \/ TvSendsMessage \/ TvSendsGarbled \/ TvSendsByte
    \/ LengthByteRead \/ BodyRead \/ NewStream
    \/ Command \/ SendVoiceData

Spec == Init /\ [][Next]_vars

-----------------------------------------------------------------------------
(* Properties *)

Meaning(body) == IF channel = "remote" THEN ParseRemote(body) ELSE PairingReply(body)

\* What an honest television means is what the client takes its messages to
\* mean, in order and with none lost, with none or one of Extras before, inside
\* or after a first message: through frame, readOneLengthByte or receive,
\* Reader, parseRemote or the pairing predicates, also on a stream that
\* follows one that broke off inside a frame.
MeaningArrives ==
    tv = "honest" =>
        /\ rx.phase # "closed"
        /\ Len(delivered) <= Len(sent)
        /\ \A i \in DOMAIN delivered : Meaning(delivered[i]) = sent[i]
        /\ stream = <<>> => Len(delivered) = Len(sent) /\ rx.prefix = <<>>

\* The number a length prefix stands for when no bit of it is lost.
TrueLength(prefix) ==
    Total([i \in DOMAIN prefix |-> (prefix[i] % Base) * Pow2[GroupBits * (i - 1)]], Len(prefix))

Continues(prefix) == \A i \in DOMAIN prefix : prefix[i] >= Base

\* Whatever bytes come, both readers give up a frame exactly when its prefix
\* does not end within ten bytes or stands for more than MaxFrameSize, and
\* agree with decodeVarintPrefix on what the others stand for.  Only a tenth
\* byte can make them misread a length, by the bits that a uint64_t loses.
LengthsAreExact ==
    LET n == Len(rx.prefix)
    IN  CASE rx.phase = "length" ->
               Continues(rx.prefix) /\ n < Groups /\ rx.length = TrueLength(rx.prefix)
          [] rx.phase = "body" ->
               /\ rx.length \in 1..MaxFrame
               /\ rx.length = TrueLength(rx.prefix) % Word
               /\ n < Groups => rx.length = TrueLength(rx.prefix)
               /\ DecodeVarintPrefix(rx.prefix) = [ok |-> TRUE, value |-> rx.length, prefixLength |-> n]
          [] rx.phase = "closed" ->
               \/ Continues(rx.prefix) /\ n = Groups
               \/ ~Continues(rx.prefix) /\ TrueLength(rx.prefix) % Word > MaxFrame

\* Reader never moves beyond the end of a message and never stands still, so
\* the loops of parseRemote, findVarint, findBytes and hasField end inside it,
\* whatever bytes it is given.
ReaderStaysInside == \A i \in DOMAIN delivered : StaysInside(delivered[i])

\* How a Protocol Buffers library reads the client's messages: the last field
\* of a number counts, and an int32 is the lower bits of its varint.
LastInt(fields, places) == IF places = {} THEN 0 ELSE ToSigned(fields[Max(places)].varint)
LastBytes(fields, places) == IF places = {} THEN <<>> ELSE fields[Max(places)].bytes
IntIn(fields, number) == LastInt(fields, Places(fields, number, VarintType))
BytesOfIn(fields, number) == LastBytes(fields, Places(fields, number, LengthDelimited))
IntOf(message, number) == IntIn(Fields(message), number)
BytesOf(message, number) == BytesOfIn(Fields(message), number)

Understood(n, b) ==
    CASE n = 10 -> <<"Key", IntOf(b, 1), IntOf(b, 2)>>
      [] n = 21 -> <<"Text", BytesOf(BytesOf(BytesOf(b, 3), 2), 3), IntOf(b, 1), IntOf(b, 2)>>
      [] n = 31 -> <<"VoicePayload", IntOf(b, 1), BytesOf(b, 2)>>
      [] n = 90 -> <<"AppLink", BytesOf(b, 1)>>
      [] OTHER  -> <<CASE n = 1 -> "Configure" [] n = 2 -> "SetActive" [] n = 9 -> "Ping"
                       [] n = 30 -> "VoiceBegin" [] n = 32 -> "VoiceEnd",
                     IntOf(b, 1)>>

UnderstoodPairing(n, b) ==
    CASE n = 10 -> <<"Request", BytesOf(b, 2)>>
      [] n = 20 -> <<"Options">>
      [] n = 30 -> <<"Configuration">>
      [] n = 40 -> <<"Secret", BytesOf(b, 1)>>

Conveys(fields, request) ==
    LET last == fields[Len(fields)]
    IN  IF channel = "remote"
        THEN Len(fields) = 1 /\ Understood(last.number, last.bytes) = request
        ELSE fields[2].varint = 200 /\ UnderstoodPairing(last.number, last.bytes) = request

\* Every frame the client writes is one frame with one message, and a Protocol
\* Buffers library finds in it what the client was asked to send or answers: a
\* ping's value with its sign, the counters of a text in their places.
ClientIsUnderstood ==
    \A i \in DOMAIN written :
        LET n == VarintLength(written[i], 0)
        IN  /\ n # 0 /\ VarintValue(written[i], 0, n) = Len(written[i]) - n
            /\ Conveys(Fields(SubSeq(written[i], n + 1, Len(written[i]))), asked[i])

\* The samples in the first n messages, one after the other.
SamplesIn(c) == IF c[1] = "VoicePayload" THEN c[3] ELSE <<>>
Samples(log, n) == Joined([i \in 1..n |-> SamplesIn(log[i])], n)

\* The samples given to sendVoiceData arrive whole and in order, in chunks of
\* which none exceeds 20 KiB or is below 8 KiB, with nothing but silence after
\* them.
VoiceArrivesWhole ==
    LET all == Samples(asked, Len(asked))
    IN  /\ \A i \in DOMAIN asked :
              asked[i][1] = "VoicePayload" => Len(asked[i][3]) \in VoiceMinimum..VoiceChunk
        /\ Len(voice) <= Len(all)
        /\ \A k \in DOMAIN all : all[k] = IF k <= Len(voice) THEN voice[k] ELSE 0

=============================================================================
