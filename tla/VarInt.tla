------------------------------- MODULE VarInt -------------------------------
(***************************************************************************)
(* The VarInt and VarLong codecs of crates/protocol/src/varint.rs: one set *)
(* of operators, instantiated for either width.  In the code a byte        *)
(* carries 7 payload bits and the integers have 32 or 64; here all three   *)
(* are constants, so that TLC can go through every byte sequence.          *)
(***************************************************************************)
EXTENDS Integers, Sequences, FiniteSetsExt

CONSTANTS
    PayloadBits,   \* payload bits of a byte: 7
    Width,         \* bits of the integer: 32 or 64
    MaxLen         \* MAX_VARINT_LEN or MAX_VARLONG_LEN: 5 or 10

ASSUME VarIntAssumption ==
    /\ PayloadBits \in Nat \ {0} /\ Width \in Nat \ {0} /\ MaxLen \in Nat \ {0}
    /\ (MaxLen - 1) * PayloadBits < Width /\ Width <= MaxLen * PayloadBits

\* A byte is a payload and, above it, the continuation bit.
Base == 2 ^ PayloadBits
Byte == 0 .. (2 * Base - 1)
PAYLOAD_MASK(byte) == byte % Base
Continues(byte) == byte >= Base

\* The signed integers of this width, and their bits read as unsigned.
Int_ == -(2 ^ (Width - 1)) .. (2 ^ (Width - 1) - 1)
Unsigned(value) == value % 2 ^ Width
Signed(bits) == IF bits < 2 ^ (Width - 1) THEN bits ELSE bits - 2 ^ Width

\* write_varint, write_varlong: low group first.
Groups[remaining \in Nat] ==
    IF remaining < Base THEN <<remaining>>
    ELSE <<(remaining % Base) + Base>> \o Groups[remaining \div Base]

write_varint(value) == Groups[Unsigned(value)]

\* Fault: the loop reads one byte too many.
Ends_OneMore(src) == {i \in 1..Len(src) : i <= MaxLen + 1 /\ ~Continues(src[i])}

\* Where the first MaxLen bytes have one without a continuation bit.
Ends(src) == {i \in 1..Len(src) : i <= MaxLen /\ ~Continues(src[i])}

\* The groups up to byte n; what the last one has above the integer's width
\* is shifted out.
Assembled(src, n) ==
    LET result[i \in 0..n] ==
            IF i = 0 THEN 0 ELSE result[i - 1] + PAYLOAD_MASK(src[i]) * Base ^ (i - 1)
    IN  Signed(result[n] % 2 ^ Width)

\* read_varint_slice: looks bytes up by their index and consumes nothing; None
\* while src holds only a part.
read_varint_slice(src) ==
    IF Ends(src) # {}
    THEN [result |-> "some", value |-> Assembled(src, Min(Ends(src))), width |-> Min(Ends(src))]
    ELSE [result |-> IF Len(src) < MaxLen THEN "none" ELSE "VarIntTooLong", value |-> 0, width |-> 0]

\* Fault: the end of the input ends the value.
TakeByte_EndIsValue(loop, index) ==
    IF loop.rest = <<>> THEN [loop EXCEPT !.result = "ok"]
    ELSE [result |-> IF Continues(Head(loop.rest)) THEN "more" ELSE "ok",
          bits |-> loop.bits + PAYLOAD_MASK(Head(loop.rest)) * Base ^ index,
          rest |-> Tail(loop.rest)]

\* One turn of the loop of read_varint: get_u8 takes the byte from the input.
TakeByte(loop, index) ==
    IF loop.rest = <<>> THEN [loop EXCEPT !.result = "UnexpectedEof"]
    ELSE [result |-> IF Continues(Head(loop.rest)) THEN "more" ELSE "ok",
          bits |-> loop.bits + PAYLOAD_MASK(Head(loop.rest)) * Base ^ index,
          rest |-> Tail(loop.rest)]

\* read_varint, read_varlong: MaxLen turns at most, advancing src.
read_varint(src) ==
    LET loop[turns \in 0..MaxLen] ==
            IF turns = 0 THEN [result |-> "more", bits |-> 0, rest |-> src]
            ELSE LET before == loop[turns - 1]
                 IN  IF before.result = "more" THEN TakeByte(before, turns - 1) ELSE before
        end == loop[MaxLen]
    IN  IF end.result = "ok"
        THEN [result |-> "ok", value |-> Signed(end.bits % 2 ^ Width), rest |-> end.rest]
        ELSE [result |-> IF end.result = "more" THEN "VarIntTooLong" ELSE end.result,
              value |-> 0, rest |-> <<>>]

\* varint_len: a byte for every group boundary the value reaches.
varint_len(value) == 1 + Cardinality({k \in 1..(MaxLen - 1) : Unsigned(value) >= Base ^ k})
=============================================================================
