--------------------------- MODULE MCPacketCodec ---------------------------
(***************************************************************************)
(* Instances of PacketCodec for TLC: two payload bits to a byte, integers  *)
(* of seven bits, so a VarInt has up to four bytes, and packets of at most *)
(* 11 bytes, a length of two VarInt bytes (in the code three of five).     *)
(***************************************************************************)
EXTENDS PacketCodec

Constant(byte, n) == [i \in 1..n |-> byte]

\* Bodies on both sides of the thresholds and of the VarInt length steps,
\* compressible and not, up to the largest whose frame still fits.
MCPackets ==
    {[id |-> 0, body |-> <<>>], [id |-> 3, body |-> <<2, 7>>], [id |-> 3, body |-> <<2, 7, 1>>],
     [id |-> 5, body |-> <<5, 4, 3, 2>>], [id |-> 1, body |-> Constant(1, 7)],
     [id |-> -1, body |-> <<6, 1>>], [id |-> 2, body |-> <<1, 2>> \o Constant(3, 5)]}

\* One that fills MAX_PACKET_SIZE and does not compress.
LargestPacket == {[id |-> 2, body |-> <<1, 2>> \o Constant(3, 8)]}

MCThresholds == {-5, 0, 4, 11}

\* Among the frames these make up: lengths of one and two bytes, ids, every
\* data length up to one beyond MAX_PACKET_SIZE that matters, both streams.
MCPeerBytes == {0, 1, 3, 4, 5}
=============================================================================
