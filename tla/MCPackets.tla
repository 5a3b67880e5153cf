------------------------------ MODULE MCPackets ------------------------------
(***************************************************************************)
(* An instance of Packets for TLC: bytes of four bits, VarInts of seven    *)
(* bits in up to three bytes, one byte for a u16 and two for an i64 or a   *)
(* UUID.  As in UTF-8, bytes with a clear top bit are characters, 8 to 11  *)
(* continue one, 12, 13 and 14 begin one of two, three and four bytes.     *)
(***************************************************************************)
EXTENDS Packets, Functions

MCUtf8Width == [byte \in Byte |-> CASE byte < 8 -> 1 [] byte \in 8..11 -> 0 [] byte = 12 -> 2
                                    [] byte = 13 -> 3 [] byte = 14 -> 4 [] byte = 15 -> 0]

MCMd5(name) == LET sum == FoldFunction(+, 5, name) IN <<(7 * sum) % 16, (11 * sum) % 16>>

\* A document begins with a byte of its own and ends with its number, if any.
MCto_string(document) ==
    IF "text" \in DOMAIN document THEN <<5>> \o document.text
    ELSE <<6>> \o document.description.text \o <<document.players.max>>

MCText == <<2>>

MCConfigs == [motd: {<<>>, <<12, 8>>, <<1, 1, 1, 1, 1>>}, max_players: {4}]

Characters == {<<1>>, <<12, 8>>, <<13, 9, 8>>, <<14, 11, 8, 9>>}

\* All strings of up to two characters, and one of eight.
Strings == {<<>>} \cup Characters \cup {a \o b : a, b \in Characters} \cup {[i \in 1..8 |-> 1]}

Property(name, signature) == [name |-> name, value |-> <<2>>, signature |-> signature]

MCSamples ==
    [Handshake |-> [protocol_version: {-1, 9}, server_address: Strings, server_port: {0, 15},
                    next_state: {"Status", "Login", "Transfer"}],
     StatusRequest |-> {<<>>},
     StatusResponse |-> [json: Strings],
     PingRequest |-> [payload: {-128, -1, 0, 127}],
     PongResponse |-> [payload: {-128, -1, 0, 127}],
     LoginDisconnect |-> [reason: Strings],
     LoginStart |-> [name: Strings, uuid: {0, 255}],
     SetCompression |-> [threshold: Int_],
     LoginSuccess |->
        [profile: [uuid: {77}, username: Strings,
                   properties: {<<>>, <<Property(<<1>>, <<>>), Property(<<>>, <<<<3>>>>)>>,
                                <<Property(<<>>, <<>>), Property(<<>>, <<>>), Property(<<>>, <<>>)>>}],
         session_id: {0, 255}],
     LoginAcknowledged |-> {<<>>}]

MCInputBytes ==
    [k \in DOMAIN Packet |->
        CASE k \in {"SetCompression", "PingRequest", "PongResponse"} -> Byte
          [] k = "LoginSuccess" -> {0, 1, 2, 15}
          [] k = "Handshake" -> {0, 1, 3, 9, 12}
          [] k = "LoginStart" -> {0, 1, 2, 8, 12}
          [] OTHER -> {0, 1, 3, 4, 8, 12, 13, 14, 15}]

MCMaxBytes ==
    [k \in DOMAIN Packet |-> CASE k = "LoginSuccess" -> 9
                              [] k \in {"Handshake", "LoginStart"} -> 6
                              [] OTHER -> 5]
=============================================================================
