-------------------------- MODULE ProtocolMessages --------------------------
(***************************************************************************)
(* The messages of src/src/protocol_messages.cpp as operators: the bytes   *)
(* each builder returns, and what parseRemote and the pairing predicates   *)
(* make of the television's bytes.  Field numbers are the code's; int32_t  *)
(* has IntBits bits (32).                                                  *)
(***************************************************************************)
EXTENDS WireCodec

CONSTANTS
    IntBits,  \* 32: the width of int32_t and uint32_t
    Text      \* stands for the client's fixed strings

\* 90 is the largest field number in use.
ASSUME IntAssumption ==
    /\ IntBits \in Nat \ {0} /\ IntBits <= WordBits /\ Text \in Seq(Bytes)
    /\ 90 < Pow2[NumberBits]

Unsigned == 0 .. Pow2[IntBits] - 1
Signed   == -Pow2[IntBits - 1] .. Pow2[IntBits - 1] - 1

\* static_cast from uint64_t, and back: through uint32_t, or with its sign.
ToUnsigned(v) == v % Pow2[IntBits]
ToSigned(v) ==
    IF ToUnsigned(v) \in Signed THEN ToUnsigned(v) ELSE ToUnsigned(v) - Pow2[IntBits]
SignExtended(i) == i % Word

AsI32(found) == IF found = <<>> THEN 0 ELSE ToSigned(found[1])
AsU32(found) == IF found = <<>> THEN 0 ELSE ToUnsigned(found[1])
AsBool(found) == found # <<>> /\ found[1] # 0

-----------------------------------------------------------------------------
(* Pairing *)

\* The first three fields every message has: version 2, status 200.
PairingOuter(number, inner) ==
    VarintField(1, 2) \o VarintField(2, 200) \o BytesField(number, inner)

PairingRequest(clientName) ==
    PairingOuter(10, BytesField(1, Text) \o BytesField(2, clientName))

\* HEXADECIMAL with six symbols.
Encoding == VarintField(1, 3) \o VarintField(2, 6)

PairingOptions == PairingOuter(20, BytesField(1, Encoding) \o VarintField(3, 1))

PairingConfiguration == PairingOuter(30, BytesField(1, Encoding) \o VarintField(2, 1))

PairingSecret(secret) == PairingOuter(40, BytesField(1, secret))

PairingStatus(message) == FindVarint(message, 2)

PairingAcks ==
    [requestAck |-> 11, options |-> 20, configurationAck |-> 31, secretAck |-> 41]

\* requirePairingStatusOk, and which of hasPairingRequestAck,
\* hasPairingOptions, hasConfigurationAck and hasSecretAck hold.
PairingReply(message) ==
    [ok  |-> PairingStatus(message) = <<200>>,
     has |-> {a \in DOMAIN PairingAcks : HasField(message, PairingAcks[a])}]

-----------------------------------------------------------------------------
(* What the client sends *)

RemoteConfigureResponse(activeFeatures) ==
    BytesField(1, VarintField(1, SignExtended(activeFeatures)) \o
                  BytesField(2, VarintField(3, 1) \o BytesField(4, Text) \o
                                BytesField(5, Text) \o BytesField(6, Text)))

RemoteSetActiveResponse(activeFeatures) ==
    BytesField(2, VarintField(1, SignExtended(activeFeatures)))

\* (Broken: the value goes through a byte's worth of bits.)
RemotePingResponseNarrow(value) == BytesField(9, VarintField(1, value % Base))

RemotePingResponse(value) == BytesField(9, VarintField(1, ToUnsigned(value)))

RemoteKey(keyCode, direction) ==
    BytesField(10, VarintField(1, ToUnsigned(keyCode)) \o VarintField(2, direction))

\* Both ends of the selection are the last character.
RemoteText(text, imeCounter, fieldCounter) ==
    LET pos  == ToUnsigned(Len(text) - 1)
        edit == VarintField(1, 1) \o
                BytesField(2, VarintField(1, pos) \o VarintField(2, pos) \o BytesField(3, text))
    IN  BytesField(21, VarintField(1, ToUnsigned(imeCounter)) \o
                       VarintField(2, ToUnsigned(fieldCounter)) \o BytesField(3, edit))

RemoteAppLink(appLink) == BytesField(90, BytesField(1, appLink))

RemoteVoiceBegin(sessionId) == BytesField(30, VarintField(1, ToUnsigned(sessionId)))

RemoteVoicePayload(sessionId, samples) ==
    BytesField(31, VarintField(1, ToUnsigned(sessionId)) \o BytesField(2, samples))

RemoteVoiceEnd(sessionId) == BytesField(32, VarintField(1, ToUnsigned(sessionId)))

-----------------------------------------------------------------------------
(* What the client understands *)

\* The field number of each kind of RemoteIncoming.
KindNumbers ==
    [Configure |-> 1, SetActive |-> 2, Error |-> 3, Ping |-> 8, ImeKeyInject |-> 20,
     ImeBatchEdit |-> 21, VoiceBegin |-> 30, Start |-> 40, Volume |-> 50]

\* A string, one message further down or here; an absent one is empty.
OrEmpty(found) == IF found = <<>> THEN <<>> ELSE found[1]
TextIn(message, number) == OrEmpty(FindBytes(message, number))

DeviceInfo(info) == <<TextIn(info, 1), TextIn(info, 2), TextIn(info, 6)>>

\* The members of RemoteIncoming that a kind sets, in the code's order.
Values(kind, body) ==
    CASE kind = "Configure"    -> <<AsI32(FindVarint(body, 1))>> \o DeviceInfo(TextIn(body, 2))
      [] kind = "Ping"         -> <<AsI32(FindVarint(body, 1))>>
      [] kind = "ImeKeyInject" -> <<TextIn(TextIn(body, 1), 12)>>
      [] kind = "ImeBatchEdit" -> <<AsI32(FindVarint(body, 1)), AsI32(FindVarint(body, 2))>>
      [] kind = "VoiceBegin"   -> <<AsI32(FindVarint(body, 1))>>
      [] kind = "Start"        -> <<AsBool(FindVarint(body, 1))>>
      [] kind = "Volume"       -> <<AsU32(FindVarint(body, 6)), AsU32(FindVarint(body, 7)),
                                    AsBool(FindVarint(body, 8))>>
      [] OTHER                 -> <<>>

Unknown == [kind |-> "Unknown", values |-> <<>>]

KindsOf(f) == {k \in DOMAIN KindNumbers : KindNumbers[k] = f.number}

\* Does parseRemote return at this field?
Decides(f) == f.type = LengthDelimited /\ KindsOf(f) # {}

KindOf(f) == CHOOSE k \in KindsOf(f) : TRUE

Incoming(known) ==
    IF known = <<>> THEN Unknown
    ELSE [kind |-> KindOf(known[1]), values |-> Values(KindOf(known[1]), known[1].bytes)]

\* The first field that decides is all it looks at; what comes after it, well
\* formed or not, has no effect.
ParseFields(fields) == Incoming(First(fields, {i \in DOMAIN fields : Decides(fields[i])}))
ParseRemote(message) == ParseFields(Fields(message))

=============================================================================
