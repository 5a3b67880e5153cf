------------------------------ MODULE MCServer ------------------------------
(***************************************************************************)
(* An instance of Server for TLC: two connections for one permit, a peer   *)
(* that logs in with the frames below in any order, and options on both    *)
(* sides of every check.                                                   *)
(***************************************************************************)
EXTENDS Server

MCCommandLines ==
    [bind: {"loopback", "public"}, motd: {"fits"}, read_timeout: {0, 30},
     max_connections: {0, 1, 1001}, compression: BOOLEAN, insecure_offline_mode: BOOLEAN]

MCArgs == {"", "Login", "bob"}

MCFrame(kind, arg, lead) ==
    [format |-> "plain", sound |-> TRUE, dataLength |-> 0, id |-> 0,
     body |-> [kind |-> kind, arg |-> arg, lead |-> lead, extra |-> FALSE]]

MCFrames == {MCFrame("Handshake", "Login", 776), MCFrame("LoginStart", "bob", 3)}
=============================================================================
