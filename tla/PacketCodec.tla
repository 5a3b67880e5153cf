---------------------------- MODULE PacketCodec ----------------------------
(***************************************************************************)
(* Packet framing: crates/protocol/src/codec.rs.  One codec encodes        *)
(* packets onto a byte stream, the transport delivers the stream in        *)
(* arbitrary fragments, and another codec decodes what has arrived, as     *)
(* tokio's Framed drives it: decode is called until it asks for more.      *)
(* The sizes are scaled down with the constants; the byte layout is that   *)
(* of the code.                                                            *)
(***************************************************************************)
EXTENDS VarInt

LOCAL INSTANCE SequencesExt

CONSTANTS
    MAX_PACKET_SIZE,
    MAX_SPECULATIVE_RESERVE,
    INITIAL_CAPACITY,   \* of the read buffer Framed starts with
    Thresholds,    \* arguments of set_compression
    Packets,       \* packets handed to the encoder: an id and a body
    PeerBytes,     \* bytes another peer sends, in any order
    MaxPackets,    \* bound: packets encoded in a behaviour
    MaxBytes       \* bound: bytes of another peer

ASSUME CodecAssumption ==
    /\ MAX_PACKET_SIZE \in Nat \ {0} /\ MAX_PACKET_SIZE \in Int_
    /\ MAX_SPECULATIVE_RESERVE \in Nat \ {0} /\ INITIAL_CAPACITY \in Nat

VARIABLES
    compression_threshold,   \* of both codecs; None when compression is off
    encoded,                 \* history: packets the encoder accepted
    wire,                    \* bytes on their way
    src,                     \* the decoder's read buffer
    capacity,                \* bytes of memory allocated for src
    received,                \* how many bytes have arrived
    decoded,                 \* packets decoded
    error                    \* how the decoder failed, or "none"

vars == <<compression_threshold, encoded, wire, src, capacity, received, decoded, error>>

None == -1

(***************************************************************************)
(* flate2, as far as the codec uses it: repetitive data shrinks, other     *)
(* data is stored and grows by a header, bytes that are not a stream are   *)
(* an error, and no more than `limit` bytes come out.                      *)
(***************************************************************************)
Repeat(byte, n) == [i \in 1..(4 * n) |-> byte]

Deflate(data) ==
    IF \E n \in Byte \ {0} : data = Repeat(data[1], n)
    THEN <<1, Len(data) \div 4, data[1]>>
    ELSE <<0>> \o data

Inflated(stream) ==
    IF stream[1] = 0 THEN Tail(stream) ELSE Repeat(stream[3], stream[2])

IsStream(stream) ==
    stream # <<>> /\ (stream[1] = 0 \/ (stream[1] = 1 /\ Len(stream) >= 3))

Inflate(stream, limit) ==
    SubSeq(Inflated(stream), 1, Min({limit, Len(Inflated(stream))}))

-----------------------------------------------------------------------------
(***************************************************************************)
(* PacketCodec::encode.                                                    *)
(***************************************************************************)
Scratch(packet) == write_varint(packet.id) \o packet.body

EncodeAccepts(packet) == Len(Scratch(packet)) <= MAX_PACKET_SIZE

encode(packet) ==
    LET scratch == Scratch(packet)
        len == Len(scratch)
        compressed == Deflate(scratch)
    IN  IF compression_threshold = None
        THEN write_varint(len) \o scratch
        ELSE IF len < compression_threshold
        THEN write_varint(1 + len) \o write_varint(0) \o scratch
        ELSE write_varint(varint_len(len) + Len(compressed)) \o write_varint(len) \o compressed

(***************************************************************************)
(* PacketCodec::decompress and decode.                                     *)
(***************************************************************************)
Ok(bytes) == [error |-> "none", bytes |-> bytes]
Err(why) == [error |-> why, bytes |-> <<>>]

\* Fault: guard 2 is missing.
InflatedTooLarge_Unchecked(data_length) == FALSE

InflatedTooLarge(data_length) == data_length > MAX_PACKET_SIZE

\* Fault: guard 3 refuses the threshold itself.
BelowThreshold_OrAt(data_length) == data_length <= compression_threshold

BelowThreshold(data_length) == data_length < compression_threshold

decompress(frame) ==
    LET declared == read_varint(frame)
        out == Inflate(declared.rest, declared.value + 1)
    IN  IF declared.result # "ok" THEN Err(declared.result)
        ELSE IF declared.value < 0 THEN Err("NegativeLength")
        ELSE IF declared.value = 0 THEN Ok(declared.rest)
        ELSE IF InflatedTooLarge(declared.value) THEN Err("FrameTooLarge")
        ELSE IF BelowThreshold(declared.value) THEN Err("CompressedBelowThreshold")
        ELSE IF ~IsStream(declared.rest) THEN Err("Decompression")
        ELSE IF Len(out) # declared.value THEN Err("CompressedSizeMismatch")
        ELSE Ok(out)

\* BytesMut::reserve, with room for n bytes asked for: an allocation that is
\* too small grows to that size and at least doubles.
Reserved(n) == IF n <= capacity THEN capacity ELSE Max({n, 2 * capacity})

\* What `decode` finds at the front of src before it consumes anything.
Prefix == read_varint_slice(src)
FrameLen == Prefix.width + Prefix.value

\* Fault: waits for a byte beyond the frame.
WholeFrame_OneMore == Prefix.result = "some" /\ Len(src) > FrameLen

WholeFrame == Prefix.result = "some" /\ Len(src) >= FrameLen

PrefixError ==
    CASE Prefix.result = "VarIntTooLong" -> "VarIntTooLong"
      [] Prefix.result = "some" /\ Prefix.value < 0 -> "NegativeLength"
      [] Prefix.result = "some" /\ Prefix.value > MAX_PACKET_SIZE -> "FrameTooLarge"
      [] OTHER -> "none"

\* decode asks for more; a known shortfall is reserved in bounded steps.
Shortfall == IF Prefix.result = "some" THEN FrameLen - Len(src) ELSE 0

\* Fault: the declared length is trusted.
Reserve_Declared == Shortfall

Reserve == Min({Shortfall, MAX_SPECULATIVE_RESERVE})

DecodeNeedsMore ==
    /\ error = "none" /\ PrefixError = "none"
    /\ ~WholeFrame
    /\ capacity' = Reserved(Len(src) + Reserve)
    /\ UNCHANGED <<compression_threshold, encoded, wire, src, received, decoded, error>>

DecodeBadPrefix ==
    /\ error = "none" /\ PrefixError # "none"
    /\ error' = PrefixError
    /\ UNCHANGED <<compression_threshold, encoded, wire, src, capacity, received, decoded>>

\* The frame as a packet: an id and, from the rest, a body.
RawPacket(frame) ==
    LET body == IF compression_threshold = None THEN Ok(frame) ELSE decompress(frame)
        id == read_varint(body.bytes)
    IN  CASE body.error # "none" -> [error |-> body.error, packet |-> <<>>]
          [] body.error = "none" /\ id.result # "ok" -> [error |-> id.result, packet |-> <<>>]
          [] body.error = "none" /\ id.result = "ok" ->
                [error |-> "none", packet |-> <<[id |-> id.value, body |-> id.rest]>>]

\* The bytes of the frame leave src whatever they hold.  Their part of the
\* allocation falls to the buffer again once the frame is dropped.
DecodeFrame ==
    /\ error = "none" /\ PrefixError = "none"
    /\ WholeFrame
    /\ src' = SubSeq(src, FrameLen + 1, Len(src))
    /\ LET raw == RawPacket(SubSeq(src, Prefix.width + 1, FrameLen))
       IN  error' = raw.error /\ decoded' = decoded \o raw.packet
    /\ UNCHANGED <<compression_threshold, encoded, wire, capacity, received>>

-----------------------------------------------------------------------------
(***************************************************************************)
(* The bytes come from an encoder through the transport, or from a peer    *)
(* that is not one and sends any bytes at all.                             *)
(***************************************************************************)
OtherPeer == received > 0 /\ encoded = <<>>

Encode(packet) ==
    /\ Len(encoded) < MaxPackets /\ ~OtherPeer
    /\ EncodeAccepts(packet)
    /\ encoded' = Append(encoded, packet)
    /\ wire' = wire \o encode(packet)
    /\ UNCHANGED <<compression_threshold, src, capacity, received, decoded, error>>

\* The read half appends what has arrived, growing the buffer if it must.
Deliver(n) ==
    /\ error = "none" /\ n <= Len(wire)
    /\ src' = src \o SubSeq(wire, 1, n)
    /\ received' = received + n
    /\ wire' = SubSeq(wire, n + 1, Len(wire))
    /\ capacity' = Reserved(Len(src) + n)
    /\ UNCHANGED <<compression_threshold, encoded, decoded, error>>

\* A fragment of several bytes is several of these with no decode between.
ArbitraryByte(byte) ==
    /\ error = "none" /\ encoded = <<>> /\ received < MaxBytes
    /\ src' = Append(src, byte)
    /\ received' = received + 1
    /\ capacity' = Reserved(Len(src) + 1)
    /\ UNCHANGED <<compression_threshold, encoded, wire, decoded, error>>

\* Fault: a negative threshold is stored.
set_compression_AnySign(threshold) == threshold

\* set_compression; a negative threshold turns compression off.
set_compression(threshold) == IF threshold < 0 THEN None ELSE threshold

Init ==
    /\ compression_threshold \in {set_compression(t) : t \in Thresholds}
    /\ encoded = <<>> /\ wire = <<>> /\ src = <<>> /\ decoded = <<>>
    /\ capacity = INITIAL_CAPACITY /\ received = 0
    /\ error = "none"

decode == DecodeNeedsMore \/ DecodeBadPrefix \/ DecodeFrame

Next == \/ \E packet \in Packets : Encode(packet)
        \/ \E n \in 1..Len(wire) : Deliver(n)
        \/ \E byte \in PeerBytes : ArbitraryByte(byte)
        \/ decode

Spec == Init /\ [][Next]_vars

-----------------------------------------------------------------------------
(***************************************************************************)
(* Properties.                                                             *)
(***************************************************************************)
PacketType == [id: Int_, body: Seq(Byte)]

ErrorType == {"none", "VarIntTooLong", "UnexpectedEof", "NegativeLength", "FrameTooLarge",
              "CompressedBelowThreshold", "Decompression", "CompressedSizeMismatch"}

\* Type invariant.
TypeOK ==
    /\ compression_threshold \in Int_ /\ compression_threshold >= None
    /\ encoded \in Seq(PacketType) /\ decoded \in Seq(PacketType)
    /\ wire \in Seq(Byte) /\ src \in Seq(Byte)
    /\ capacity \in Nat /\ received \in Nat
    /\ error \in ErrorType

\* An encoder's stream never loses its place: however it is cut into fragments, what
\* has been decoded is what was encoded, and what is buffered and in flight is
\* exactly the encoding of the packets that remain.
FramesAligned ==
    LET n == Len(decoded)
        rest == SubSeq(encoded, n + 1, Len(encoded))
    IN  ~OtherPeer =>
            /\ error = "none"
            /\ decoded = SubSeq(encoded, 1, n)
            /\ src \o wire = FlattenSeq([i \in DOMAIN rest |-> encode(rest[i])])

\* A decoder that asks for more is waiting for something: once everything in
\* flight has arrived and decode has no whole frame left, every packet encoded
\* has come out and the buffer is empty.
NothingStranded ==
    ~OtherPeer /\ wire = <<>> /\ ~WholeFrame => decoded = encoded /\ src = <<>>

\* Memory follows the bytes received, not the bytes promised: whatever lengths
\* are declared, the buffer is never larger than twice what has arrived and one
\* speculative reserve, twice because reserve may double (decode).
MemoryTracksBytes == capacity <= 2 * (received + MAX_SPECULATIVE_RESERVE)

\* Whatever bytes arrive, a packet that comes out, inflated or not, is one the
\* encoder itself would have accepted: the length guards of decode and
\* decompress together bound it by MAX_PACKET_SIZE.
DecodedWithinLimit == \A i \in 1..Len(decoded) : EncodeAccepts(decoded[i])

\* codec.rs: MAX_PACKET_SIZE is "the largest packet body Pyrite will accept",
\* and encode checks a packet against it.  So what encode accepts, decode does.
EncoderOutputAccepted == ~OtherPeer => error = "none"
=============================================================================
