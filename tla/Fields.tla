------------------------------- MODULE Fields -------------------------------
(***************************************************************************)
(* The field codecs of crates/protocol/src/buf.rs, on byte sequences: what *)
(* a writer appends, and what a reader returns and leaves of its input.    *)
(* The widths of the fixed-size integers are constants, so that TLC can go *)
(* through whole packets byte by byte.                                     *)
(***************************************************************************)
EXTENDS VarInt, TLC

LOCAL INSTANCE SequencesExt

CONSTANTS
    W16, W64, W128,   \* bytes of a u16, an i64 and a u128: 2, 8, 16
    Utf8Width,        \* bytes of the character a byte begins; 0 if it begins none
    Continuations     \* the bytes that continue a character

ASSUME FieldsAssumption ==
    /\ {W16, W64, W128} \subseteq Nat \ {0}
    /\ Utf8Width \in [Byte -> 0..4]
    /\ \A byte \in Continuations : Utf8Width[byte] = 0

Take(bytes, n) == SubSeq(bytes, 1, n)
Drop(bytes, n) == SubSeq(bytes, n + 1, Len(bytes))

\* A reader returns a value and the input after it, or an error.
Got(value, rest) == [result |-> "ok", value |-> value, rest |-> rest]
Fails(why) == [result |-> why, value |-> 0, rest |-> <<>>]

\* The `?` of the code.
Try(read, Rest(_, _)) ==
    IF read.result = "ok" THEN Rest(read.value, read.rest) ELSE Fails(read.result)

(***************************************************************************)
(* Strings.  Every character is well formed and every byte part of one.    *)
(***************************************************************************)
IsUtf8(bytes) ==
    \A i \in DOMAIN bytes :
        \/ /\ Utf8Width[bytes[i]] > 0
           /\ i + Utf8Width[bytes[i]] <= Len(bytes) + 1
           /\ \A j \in (i + 1)..(i + Utf8Width[bytes[i]] - 1) : bytes[j] \in Continuations
        \/ bytes[i] \in Continuations /\ \E j \in 1..(i - 1) : j + Utf8Width[bytes[j]] > i

\* Characters, and the UTF-16 code units in which the protocol counts them.
Chars(bytes) == Cardinality({i \in DOMAIN bytes : Utf8Width[bytes[i]] > 0})
Utf16Units(bytes) == Chars(bytes) + Cardinality({i \in DOMAIN bytes : Utf8Width[bytes[i]] = 4})

\* Fault: characters of three bytes are forgotten.
MAX_BYTES_PER_CHAR_Two == 2

MAX_BYTES_PER_CHAR == 3

write_string(value) == write_varint(Len(value)) \o value

read_string(src, max_chars) ==
    Try(read_varint(src), LAMBDA len, rest :
        IF len < 0 THEN Fails("NegativeLength")
        ELSE IF len > max_chars * MAX_BYTES_PER_CHAR THEN Fails("StringTooLong")
        ELSE IF Len(rest) < len THEN Fails("UnexpectedEof")
        ELSE IF ~IsUtf8(Take(rest, len)) THEN Fails("InvalidUtf8")
        ELSE Got(Take(rest, len), Drop(rest, len)))

(***************************************************************************)
(* Fixed-width integers, big-endian.                                       *)
(***************************************************************************)
BigEndian(value, width) ==
    [i \in 1..width |-> (value \div (2 * Base) ^ (width - i)) % (2 * Base)]

FromBigEndian(bytes) == FoldLeft(LAMBDA n, byte : n * 2 * Base + byte, 0, bytes)

\* The two's complement reading of n.
SignedOf(n, width) == IF 2 * n < (2 * Base) ^ width THEN n ELSE n - (2 * Base) ^ width

read_fixed(src, width) ==
    IF Len(src) < width THEN Fails("UnexpectedEof")
    ELSE Got(FromBigEndian(Take(src, width)), Drop(src, width))

write_u16(value) == BigEndian(value, W16)
read_u16(src) == read_fixed(src, W16)

write_i64(value) == BigEndian(value, W64)
read_i64(src) == Try(read_fixed(src, W64), LAMBDA n, rest : Got(SignedOf(n, W64), rest))

write_uuid(value) == BigEndian(value, W128)
read_uuid(src) == read_fixed(src, W128)

(***************************************************************************)
(* Arrays, optionals and structs.  A field is described by its kind, its   *)
(* limit and what it is made of; an Option is a sequence of at most one    *)
(* value, a struct a record.                                               *)
(***************************************************************************)
write_prefixed_array(items) == write_varint(Len(items)) \o FlattenSeq(items)

write_prefixed_optional(value) == IF value = <<>> THEN <<0>> ELSE <<1>> \o value[1]

Field(kind, max, of) == [kind |-> kind, max |-> max, of |-> of]

VarIntField == Field("varint", 0, <<>>)
StringField(max_chars) == Field("string", max_chars, <<>>)
U16Field == Field("u16", 0, <<>>)
I64Field == Field("i64", 0, <<>>)
UuidField == Field("uuid", 0, <<>>)
NextStateField == Field("next_state", 0, <<>>)
ArrayField(max_len, item) == Field("array", max_len, item)
OptionalField(item) == Field("optional", 0, item)
StructField(members) == Field("struct", 0, members)

\* NextState and NextState::try_from.
NextState == <<"Status", "Login", "Transfer">>

try_from(code, rest) ==
    IF code \in DOMAIN NextState THEN Got(NextState[code], rest) ELSE Fails("InvalidNextState")

RECURSIVE read(_, _)
RECURSIVE read_items(_, _, _, _)
RECURSIVE read_members(_, _, _)

\* The loop over the elements an array has left.
read_items(item, left, items, src) ==
    IF left = 0 THEN Got(items, src)
    ELSE Try(read(item, src), LAMBDA value, rest :
             read_items(item, left - 1, Append(items, value), rest))

read_prefixed_array(max_len, item, src) ==
    Try(read_varint(src), LAMBDA len, rest :
        IF len < 0 THEN Fails("NegativeLength")
        ELSE IF len > max_len THEN Fails("ArrayTooLong")
        ELSE read_items(item, len, <<>>, rest))

\* Fault: any tag but one means absent.
read_prefixed_optional_Coerces(item, src) ==
    IF src = <<>> THEN Fails("UnexpectedEof")
    ELSE IF Head(src) # 1 THEN Got(<<>>, Tail(src))
    ELSE Try(read(item, Tail(src)), LAMBDA value, rest : Got(<<value>>, rest))

read_prefixed_optional(item, src) ==
    IF src = <<>> THEN Fails("UnexpectedEof")
    ELSE IF Head(src) = 0 THEN Got(<<>>, Tail(src))
    ELSE IF Head(src) # 1 THEN Fails("InvalidBoolean")
    ELSE Try(read(item, Tail(src)), LAMBDA value, rest : Got(<<value>>, rest))

\* The fields of a struct in the order in which `decode` reads them.
read_members(members, struct, src) ==
    IF members = <<>> THEN Got(struct, src)
    ELSE Try(read(members[1][2], src), LAMBDA value, rest :
             read_members(Tail(members), (members[1][1] :> value) @@ struct, rest))

read(field, src) ==
    CASE field.kind = "varint" -> read_varint(src)
      [] field.kind = "string" -> read_string(src, field.max)
      [] field.kind = "u16" -> read_u16(src)
      [] field.kind = "i64" -> read_i64(src)
      [] field.kind = "uuid" -> read_uuid(src)
      [] field.kind = "next_state" -> Try(read_varint(src), try_from)
      [] field.kind = "array" -> read_prefixed_array(field.max, field.of, src)
      [] field.kind = "optional" -> read_prefixed_optional(field.of, src)
      [] field.kind = "struct" -> read_members(field.of, <<>>, src)
=============================================================================
