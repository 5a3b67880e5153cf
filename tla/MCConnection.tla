---------------------------- MODULE MCConnection ----------------------------
(***************************************************************************)
(* Instances of Connection for TLC: an unconstrained peer that may send    *)
(* any of the frames below in any order.                                   *)
(***************************************************************************)
EXTENDS Connection

PlainFrame(id, kind, arg, lead, extra) ==
    [format |-> "plain", sound |-> TRUE, dataLength |-> 0, id |-> id,
     body |-> [kind |-> kind, arg |-> arg, lead |-> lead, extra |-> extra]]

CompressedFrame(dataLength, id, kind, arg, lead) ==
    [PlainFrame(id, kind, arg, lead, FALSE)
        EXCEPT !.format = "compressed", !.dataLength = dataLength]

MCArgs == {"", "Login", "Status", "next state 4", "bob", "alice", "not valid", "payload"}

MCValidNames == {"bob", "alice"}

\* The name "bob" makes the LoginStart body begin with the VarInt 3, the id of
\* LoginAcknowledged; a handshake's body begins with the protocol version.
LoginFrames ==
    {PlainFrame(0, "Handshake", "Login", 776, FALSE),
     PlainFrame(0, "LoginStart", "bob", 3, FALSE),
     PlainFrame(0, "LoginStart", "not valid", 9, FALSE),
     PlainFrame(3, "Empty", "", NoVarInt, FALSE),
     CompressedFrame(0, 0, "LoginStart", "alice", 5),
     CompressedFrame(300, 0, "LoginStart", "bob", 3),
     CompressedFrame(0, 3, "Empty", "", NoVarInt)}

StatusFrames ==
    {PlainFrame(0, "Handshake", "Status", 776, FALSE),
     PlainFrame(0, "Empty", "", NoVarInt, FALSE),
     PlainFrame(0, "Empty", "", 7, TRUE),
     PlainFrame(1, "PingRequest", "payload", 0, FALSE),
     PlainFrame(1, "PingRequest", "payload", 0, TRUE)}

FaultyFrames ==
    {PlainFrame(0, "Handshake", "next state 4", 776, FALSE),
     PlainFrame(0, "Handshake", "Login", 776, TRUE),
     [PlainFrame(0, "Empty", "", NoVarInt, FALSE) EXCEPT !.sound = FALSE]}

AllFrames == LoginFrames \cup StatusFrames \cup FaultyFrames

\* One frame per packet, for the liveness run.
FewFrames ==
    {PlainFrame(0, "Handshake", "Login", 776, FALSE),
     PlainFrame(0, "Handshake", "Status", 776, FALSE),
     PlainFrame(0, "LoginStart", "bob", 3, FALSE),
     PlainFrame(0, "Empty", "", NoVarInt, FALSE),
     PlainFrame(1, "PingRequest", "payload", 0, FALSE),
     CompressedFrame(0, 0, "LoginStart", "alice", 5),
     CompressedFrame(0, 3, "Empty", "", NoVarInt)}
=============================================================================
