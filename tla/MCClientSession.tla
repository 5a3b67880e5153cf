-------------------------- MODULE MCClientSession --------------------------
(***************************************************************************)
(* An instance of ClientSession for TLC.                                   *)
(***************************************************************************)
EXTENDS ClientSession

MCArgs == NextState \cup Names \cup {"payload", ""}

MCFrames == [format: Format, sound: {TRUE}, dataLength: {0}, id: {0, 1, 3},
             body: [kind: {"Handshake", "LoginStart", "PingRequest", "Empty"},
                    arg: MCArgs,
                    lead: {0, 3, 9, 776, NoVarInt}, extra: {FALSE}]]

MCValidNames == {"bob"}
=============================================================================
