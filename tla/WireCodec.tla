----------------------------- MODULE WireCodec -----------------------------
(***************************************************************************)
(* The Protocol Buffers wire format of src/src/proto_wire.cpp as operators *)
(* on sequences of bytes: what Writer appends, what Reader and the find    *)
(* functions return, frames and their length prefixes.                     *)
(*                                                                         *)
(* The widths are parameters, so that TLC can go through every byte:       *)
(* a byte carries GroupBits bits of a varint (7 in the code) below its     *)
(* continuation bit, and a value has WordBits bits (64), which no whole    *)
(* number of groups fills.                                                 *)
(***************************************************************************)
EXTENDS Integers, Sequences, FiniteSetsExt

CONSTANTS
    GroupBits,    \* 7: the bits of a varint in one byte
    WordBits,     \* 64: the width of uint64_t
    NumberBits,   \* 32: the width of Field::number
    Fixed64Size,  \* 8: the bytes of a fixed64 field
    Fixed32Size   \* 4: the bytes of a fixed32 field

ASSUME WidthAssumption ==
    /\ GroupBits \in Nat \ {0} /\ WordBits \in Nat \ {0} /\ NumberBits \in Nat \ {0}
    /\ Fixed64Size \in Nat /\ Fixed32Size \in Nat
    /\ NumberBits + 3 <= WordBits   \* a word has room for a key

\* Powers of two; tlapm knows nothing of the operator ^.
Pow2[n \in Nat] == IF n = 0 THEN 1 ELSE 2 * Pow2[n - 1]

Base     == Pow2[GroupBits]
Word     == Pow2[WordBits]
Bytes    == 0 .. 2 * Base - 1
MaxShift == WordBits - 1

\* How many turns a loop that ends at shift > MaxShift can make: ten.
Groups == MaxShift \div GroupBits + 1

\* enum class WireType; a key has three bits for it, whatever the widths.
VarintType      == 0
Fixed64         == 1
LengthDelimited == 2
Fixed32         == 5

-----------------------------------------------------------------------------
(* Writer *)

\* The lowest group first; every byte but the last has its upper bit set.
Varint(v) ==
    LET rest[x \in Nat] ==
            IF x < Base THEN <<x>> ELSE <<(x % Base) + Base>> \o rest[x \div Base]
    IN  rest[v]

Key(number, type) == Varint(number * 8 + type)

VarintField(number, value) == Key(number, VarintType) \o Varint(value)

\* stringField and messageField are bytesField of another argument type.
BytesField(number, bytes) ==
    Key(number, LengthDelimited) \o Varint(Len(bytes)) \o bytes

-----------------------------------------------------------------------------
(* Reader *)

\* What one byte adds to a value at a shift: bits beyond the word are lost.
Contribution(byte, shift) == ((byte % Base) * Pow2[shift]) % Word

\* The bytes a varint takes, 0 when it is cut off or too long.
VarintLength(bytes, offset) ==
    LET ends == {n \in 1..Groups : offset + n <= Len(bytes) /\ bytes[offset + n] < Base}
    IN  IF ends = {} THEN 0 ELSE Min(ends)

\* The sum of the first n of some terms.
Total(terms, n) ==
    LET sum[i \in 0..n] == IF i = 0 THEN 0 ELSE sum[i - 1] + terms[i]
    IN  sum[n]

\* The value of the first n bytes from offset.
VarintValue(bytes, offset, n) ==
    Total([i \in 1..n |-> Contribution(bytes[offset + i], GroupBits * (i - 1))], n)

\* Reader::readVarint.
VarintOf(bytes, offset, n) ==
    [ok |-> n # 0, value |-> VarintValue(bytes, offset, n), offset |-> offset + n]
ReadVarint(bytes, offset) == VarintOf(bytes, offset, VarintLength(bytes, offset))

NoField == [found |-> FALSE]

\* (Broken: the size is compared with the whole message.)
SpanUnchecked(number, type, bytes, offset, size) ==
    IF size > Len(bytes) THEN NoField
    ELSE [found  |-> TRUE,
          field  |-> [number |-> number, type |-> type, varint |-> 0,
                      bytes  |-> [i \in 1..size |-> IF offset + i <= Len(bytes)
                                                    THEN bytes[offset + i] ELSE 0]],
          offset |-> offset + size]

\* A field whose contents are the next `size' bytes, if there are so many.
Span(number, type, bytes, offset, size) ==
    IF size > Len(bytes) - offset THEN NoField
    ELSE [found  |-> TRUE,
          field  |-> [number |-> number, type |-> type, varint |-> 0,
                      bytes  |-> SubSeq(bytes, offset + 1, offset + size)],
          offset |-> offset + size]

\* The rest of a field after its key.  `word' is the varint that follows, the
\* value of one kind of field and the size of another.
FieldAfter(bytes, key, number, type, word) ==
    CASE type = VarintType /\ word.ok ->
            [found  |-> TRUE,
             field  |-> [number |-> number, type |-> type, varint |-> word.value, bytes |-> <<>>],
             offset |-> word.offset]
      [] type = LengthDelimited /\ word.ok -> Span(number, type, bytes, word.offset, word.value)
      [] type \in {Fixed64, Fixed32} ->
            Span(number, type, bytes, key.offset, IF type = Fixed64 THEN Fixed64Size ELSE Fixed32Size)
      [] OTHER -> NoField

FieldWithKey(bytes, key) ==
    LET number == (key.value \div 8) % Pow2[NumberBits]
    IN  IF ~key.ok \/ number = 0 THEN NoField
        ELSE FieldAfter(bytes, key, number, key.value % 8, ReadVarint(bytes, key.offset))

\* Reader::next at an offset.  Whatever makes it return false sets ok_ to
\* false or is the end: there is no further call that returns true.
ReaderNext(bytes, offset) ==
    IF offset >= Len(bytes) THEN NoField
    ELSE FieldWithKey(bytes, ReadVarint(bytes, offset))

\* What the calls of next return as long as they return true: each field with
\* the offset it ends at.
WalkFrom(bytes, offset) ==
    LET from[o \in Nat] ==
            LET next == ReaderNext(bytes, o)
            IN  IF next.found THEN <<next>> \o from[next.offset] ELSE <<>>
    IN  from[offset]
Walk(bytes) == WalkFrom(bytes, 0)

FieldsIn(walk) == [i \in DOMAIN walk |-> walk[i].field]
Fields(bytes) == FieldsIn(Walk(bytes))

\* Where the fields of this number and type are.
Places(fields, number, type) ==
    {i \in DOMAIN fields : fields[i].number = number /\ fields[i].type = type}

\* The first of them; std::optional is a sequence of at most one element.
First(fields, places) == IF places = {} THEN <<>> ELSE <<fields[Min(places)]>>

VarintIn(found) == IF found = <<>> THEN <<>> ELSE <<found[1].varint>>
BytesIn(found)  == IF found = <<>> THEN <<>> ELSE <<found[1].bytes>>

FirstOf(fields, number, type) == First(fields, Places(fields, number, type))

FindVarint(message, number) == VarintIn(FirstOf(Fields(message), number, VarintType))
FindBytes(message, number)  == BytesIn(FirstOf(Fields(message), number, LengthDelimited))

\* Of any wire type.
Occurs(fields, number) == \E i \in DOMAIN fields : fields[i].number = number
HasField(message, number) == Occurs(Fields(message), number)

-----------------------------------------------------------------------------
(* Frames *)

Frame(payload) == Varint(Len(payload)) \o payload

\* The prefix that is too long leaves its ten bytes in prefixLength.
PrefixOf(data, n) ==
    [ok           |-> n # 0,
     value        |-> VarintValue(data, 0, n),
     prefixLength |-> IF n = 0 /\ Len(data) > Groups THEN Groups ELSE n]
DecodeVarintPrefix(data) == PrefixOf(data, VarintLength(data, 0))

-----------------------------------------------------------------------------
(* What is expected of a Reader *)

\* It never moves beyond the end of a message and never stands still.
StaysInside(bytes) ==
    LET walk == Walk(bytes)
        ends == <<0>> \o [k \in DOMAIN walk |-> walk[k].offset]
    IN  /\ ends[Len(ends)] <= Len(bytes)
        /\ \A k \in 1..(Len(ends) - 1) : ends[k] < ends[k + 1]

\* The first n of some sequences, one after the other.
Joined(parts, n) ==
    LET upTo[i \in 0..n] == IF i = 0 THEN <<>> ELSE upTo[i - 1] \o parts[i]
    IN  upTo[n]

=============================================================================
