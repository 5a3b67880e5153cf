------------------------------ MODULE Session ------------------------------
(***************************************************************************)
(* What a connection promises its peer, with no transport, no buffers and  *)
(* no errors: the states it moves through and the order of the packets it  *)
(* sends in each.  Connection implements it (crates/net/src/connection.rs  *)
(* and state.rs).                                                          *)
(***************************************************************************)
EXTENDS Naturals, Sequences

VARIABLES
    compress,   \* whether the server compresses, fixed at start
    phase,      \* state of the exchange, "Closed" when it is over
    log         \* names of the packets sent, in order

vars == <<compress, phase, log>>

\* A SetCompression is on the wire and its LoginSuccess is not.
Announced == log # <<>> /\ log[Len(log)] = "SetCompression"

Says(packet) == log' = Append(log, packet) /\ UNCHANGED compress

Begin == /\ phase = "Handshaking"
         /\ phase' \in {"Status", "Login"}
         /\ UNCHANGED <<compress, log>>

\* The status document is sent at most once.
AnswerStatus == phase = "Status" /\ log = <<>> /\ Says("StatusResponse") /\ UNCHANGED phase

\* The pong ends the exchange.
Pong == phase = "Status" /\ Says("PongResponse") /\ phase' = "Closed"

Announce == /\ phase = "Login" /\ compress /\ ~Announced
            /\ Says("SetCompression")
            /\ UNCHANGED phase

\* When the server compresses, every LoginSuccess directly follows the
\* announcement of it.
Accept == /\ phase = "Login" /\ Announced = compress
          /\ Says("LoginSuccess")
          /\ UNCHANGED phase

Reject == phase = "Login" /\ ~Announced /\ Says("LoginDisconnect") /\ phase' = "Closed"

Configure == /\ phase = "Login" /\ ~Announced
             /\ phase' = "Configuration"
             /\ UNCHANGED <<compress, log>>

Close == /\ phase # "Closed" /\ phase' = "Closed" /\ UNCHANGED <<compress, log>>

Init == compress \in BOOLEAN /\ phase = "Handshaking" /\ log = <<>>

Next == Begin \/ AnswerStatus \/ Pong \/ Announce \/ Accept \/ Reject \/ Configure \/ Close

Spec == Init /\ [][Next]_vars
=============================================================================
