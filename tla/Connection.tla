----------------------------- MODULE Connection -----------------------------
(***************************************************************************)
(* One client connection of the server: crates/net/src/connection.rs, its  *)
(* finite state machine (state.rs), the errors it ends with (error.rs) and *)
(* the compression mode of its PacketCodec (codec.rs).                     *)
(*                                                                         *)
(* `run` reads a frame under the read timeout, dispatches it on (state,    *)
(* packet id), and loops.  A handler suspends only while it sends, so a    *)
(* handler is one action up to its first send, and each send is one        *)
(* further action: while the task is suspended the peer may send, read,    *)
(* close or reset.  The peer is unconstrained: it may send any frame of    *)
(* Frames at any time, in either frame format, and may stop reading.       *)
(***************************************************************************)
EXTENDS Naturals, Sequences

CONSTANTS
    Frames,        \* the frames the peer may send
    Args,          \* the values of the fields the server acts on
    ValidNames,    \* user names that pass validate_username
    MaxFrames,     \* bound: frames one peer sends over the connection's life
    SendCapacity   \* frames the transport buffers until the peer reads

ASSUME BoundsAssumption == MaxFrames \in Nat /\ SendCapacity \in Nat \ {0}

VARIABLES
    config,                \* ServerConfig, fixed when the server starts
    current,               \* ConnectionState.current
    status_request_seen,   \* ConnectionState.status_request_seen
    compression,           \* PacketCodec.compression_threshold is Some
    todo,                  \* packets the running handler has yet to send
    flow,                  \* what the running handler returns after its sends
    outcome,               \* "running", or what `run` returned
    inbox,                 \* complete frames received and not yet decoded
    partial,               \* the bytes after them are part of a frame
    peer,                  \* the peer's sending side: open, eof or reset
    unread,                \* frames sent that the peer has not read
    sent,                  \* history: every frame put on the wire
    consumed               \* history: every frame taken from the inbox

serverVars == <<current, status_request_seen, compression, todo, flow, outcome, sent>>
peerVars == <<partial, peer>>
vars == <<config, serverVars, inbox, peerVars, unread, consumed>>

(***************************************************************************)
(* Packets, frames and errors.                                             *)
(***************************************************************************)
State == {"Handshaking", "Status", "Login", "Configuration", "Play"}

NextState == {"Status", "Login", "Transfer"}

\* Serverbound packet ids.
HandshakeId == 0
StatusRequestId == 0
PingRequestId == 1
LoginStartId == 0
LoginAcknowledgedId == 3

Clientbound == {"StatusResponse", "PongResponse", "LoginDisconnect",
                "SetCompression", "LoginSuccess"}

\* NetError; "Protocol" is every ProtocolError but Io.
NetError == {"Protocol", "Io", "IllegalTransition", "UnexpectedPacket",
             "DuplicateStatusRequest", "InvalidUsername", "Timeout"}

\* Fault: protocol violations are logged as noise too.
is_transport_noise_Protocol(error) == error \in {"Timeout", "Io", "Protocol"}

is_transport_noise(error) == error \in {"Timeout", "Io"}

\* The two frame layouts: with and without the data-length field that
\* compression adds.
Format == {"plain", "compressed"}

\* A frame's `sound` is false when its length fields or its deflate stream are
\* malformed; `lead` is the VarInt its body begins with (NoVarInt if it has no
\* bytes), `dataLength` the field a compressed frame begins with, `extra`
\* whether bytes follow the fields of the packet, and `arg` the field the
\* server acts on: next state, user name or ping payload ("" for none).
NoVarInt == 999

Body == [kind: {"Handshake", "LoginStart", "PingRequest", "Empty", "Misread"},
         arg: Args, lead: Nat, extra: BOOLEAN]

Frame == [format: Format, sound: BOOLEAN, dataLength: Nat, id: Nat, body: Body]

Packet == [packet: Clientbound, arg: Args]

Sent == [packet: Clientbound, arg: Args, format: Format]

ASSUME FramesAssumption == "" \in Args /\ Frames \subseteq Frame

Misread == [kind |-> "Misread", arg |-> "", lead |-> NoVarInt, extra |-> TRUE]

\* The layout the codec reads and writes now.
CodecFormat == IF compression THEN "compressed" ELSE "plain"

\* PacketCodec::decode.  A frame in the other layout is misread, not refused:
\* its first VarInt (packet id or data length) is taken for the other field.
\* Only a data length of zero is followed by a raw packet.
Decodable(f) ==
    /\ f.sound
    /\ compression /\ f.format = "plain" => f.id = 0 /\ f.body.lead # NoVarInt

DecodedId(f) == IF f.format = CodecFormat THEN f.id
                ELSE IF compression THEN f.body.lead ELSE f.dataLength

DecodedBody(f) == IF f.format = CodecFormat THEN f.body ELSE Misread

\* RawPacket::decode_as: the fields parse and nothing follows them.
decode_as(body, kind) ==
    /\ body.kind = kind
    /\ ~body.extra
    /\ kind = "Handshake" => body.arg \in NextState

validate_username(name) == name \in ValidNames

-----------------------------------------------------------------------------
(***************************************************************************)
(* The read loop.                                                          *)
(***************************************************************************)
Running == outcome = "running"

\* `run` waits in framed.next().
Reading == Running /\ todo = <<>>

\* The frame at the head of the inbox reaches `handle`, which finds the state
\* machine in `state` and the packet id `id`.
Dispatch(state, id) ==
    /\ Reading
    /\ inbox # <<>>
    /\ Decodable(Head(inbox))
    /\ current = state
    /\ DecodedId(Head(inbox)) = id
    /\ inbox' = Tail(inbox)
    /\ consumed' = Append(consumed, Head(inbox))
    /\ UNCHANGED <<config, compression, peerVars, unread, sent>>

\* Fault: the table lacks the move to Configuration.
Permitted_NoConfiguration(from, to) ==
    from = "Handshaking" /\ to \in {"Status", "Login"}

\* ConnectionState::transition.
Permitted(from, to) ==
    <<from, to>> \in {<<"Handshaking", "Status">>, <<"Handshaking", "Login">>,
                      <<"Login", "Configuration">>}

transition(to) ==
    /\ current' = IF Permitted(current, to) THEN to ELSE current
    /\ outcome' = IF Permitted(current, to) THEN outcome ELSE "IllegalTransition"
    /\ UNCHANGED <<status_request_seen, todo, flow>>

Fail(error) ==
    /\ outcome' = error
    /\ UNCHANGED <<current, status_request_seen, todo, flow>>

Reply(packets, then) ==
    /\ todo' = packets
    /\ flow' = then
    /\ UNCHANGED <<current, outcome>>

Pkt(packet, arg) == [packet |-> packet, arg |-> arg]

-----------------------------------------------------------------------------
(***************************************************************************)
(* The handlers.                                                           *)
(***************************************************************************)
handle_handshake ==
    /\ Dispatch("Handshaking", HandshakeId)
    /\ LET body == DecodedBody(Head(inbox))
       IN  \/ ~decode_as(body, "Handshake") /\ Fail("Protocol")
           \/ /\ decode_as(body, "Handshake")
              /\ transition(IF body.arg = "Status" THEN "Status" ELSE "Login")

\* Fault: mark_status_request_seen is not called.
handle_status_request_Repeats ==
    /\ Dispatch("Status", StatusRequestId)
    /\ Reply(<<Pkt("StatusResponse", "")>>, "Continue")
    /\ UNCHANGED status_request_seen

\* The body is not decoded.
handle_status_request ==
    /\ Dispatch("Status", StatusRequestId)
    /\ \/ status_request_seen /\ Fail("DuplicateStatusRequest")
       \/ /\ ~status_request_seen
          /\ status_request_seen' = TRUE
          /\ Reply(<<Pkt("StatusResponse", "")>>, "Continue")

handle_ping ==
    /\ Dispatch("Status", PingRequestId)
    /\ LET body == DecodedBody(Head(inbox))
       IN  \/ ~decode_as(body, "PingRequest") /\ Fail("Protocol")
           \/ /\ decode_as(body, "PingRequest")
              /\ Reply(<<Pkt("PongResponse", body.arg)>>, "Close")
              /\ UNCHANGED status_request_seen

\* Fault: returns once compression is switched on.
LoginReplies_NoSuccess(name) ==
    IF config.compression THEN <<Pkt("SetCompression", "")>> ELSE <<Pkt("LoginSuccess", name)>>

LoginReplies(name) ==
    IF config.compression THEN <<Pkt("SetCompression", ""), Pkt("LoginSuccess", name)>>
    ELSE <<Pkt("LoginSuccess", name)>>

handle_login_start ==
    /\ Dispatch("Login", LoginStartId)
    /\ LET body == DecodedBody(Head(inbox))
       IN  \/ ~decode_as(body, "LoginStart") /\ Fail("Protocol")
           \/ /\ decode_as(body, "LoginStart")
              /\ ~validate_username(body.arg)
              /\ Reply(<<Pkt("LoginDisconnect", "")>>, "InvalidUsername")
              /\ UNCHANGED status_request_seen
           \/ /\ decode_as(body, "LoginStart")
              /\ validate_username(body.arg)
              /\ Reply(LoginReplies(body.arg), "Continue")
              /\ UNCHANGED status_request_seen

\* Fault: the acknowledgement does not move the state machine.
handle_login_acknowledged_Stays ==
    /\ Dispatch("Login", LoginAcknowledgedId)
    /\ UNCHANGED <<current, outcome, status_request_seen, todo, flow>>

\* Neither the body nor the fact that a LoginSuccess was sent is looked at.
handle_login_acknowledged ==
    /\ Dispatch("Login", LoginAcknowledgedId)
    /\ transition("Configuration")

\* The (state, id) pairs `handle` has an arm for.
Handled == {<<"Handshaking", HandshakeId>>, <<"Status", StatusRequestId>>,
            <<"Status", PingRequestId>>, <<"Login", LoginStartId>>,
            <<"Login", LoginAcknowledgedId>>}

UnexpectedPacket ==
    /\ inbox # <<>>
    /\ <<current, DecodedId(Head(inbox))>> \notin Handled
    /\ Dispatch(current, DecodedId(Head(inbox)))
    /\ Fail("UnexpectedPacket")

DecodeError ==
    /\ Reading
    /\ inbox # <<>>
    /\ ~Decodable(Head(inbox))
    /\ inbox' = Tail(inbox)
    /\ consumed' = Append(consumed, Head(inbox))
    /\ Fail("Protocol")
    /\ UNCHANGED <<config, compression, peerVars, unread, sent>>

-----------------------------------------------------------------------------
(***************************************************************************)
(* Sending.  `send` encodes under the codec's present format and suspends  *)
(* until the transport has taken the frame; no timeout bounds it.  The     *)
(* codec is switched right after SetCompression was sent.                  *)
(***************************************************************************)
\* Fault: the pong does not close the connection.
AfterSends_PongContinues ==
    IF flow = "InvalidUsername" THEN "InvalidUsername" ELSE "running"

\* Fault: a refused name does not close the connection.
AfterSends_RefusedContinues ==
    IF flow = "Close" THEN "Ok" ELSE "running"

AfterSends == CASE flow = "Continue" -> "running"
                [] flow = "Close" -> "Ok"
                [] flow = "InvalidUsername" -> "InvalidUsername"

\* The status document is the one packet whose size the configuration decides.
Encodable(packet) == packet.packet = "StatusResponse" => config.statusFits

\* Fault: set_compression is called before SetCompression is sent.
SentUnder_SwitchFirst(packet, format) ==
    [packet |-> packet.packet, arg |-> packet.arg,
     format |-> IF packet.packet = "SetCompression" THEN "compressed" ELSE format]

SentUnder(packet, format) ==
    [packet |-> packet.packet, arg |-> packet.arg, format |-> format]

TransportTakes == unread < SendCapacity

Send ==
    /\ Running /\ todo # <<>>
    /\ Encodable(Head(todo))
    /\ peer # "reset"
    /\ TransportTakes
    /\ sent' = Append(sent, SentUnder(Head(todo), CodecFormat))
    /\ unread' = unread + 1
    /\ compression' = (compression \/ Head(todo).packet = "SetCompression")
    /\ todo' = Tail(todo)
    /\ outcome' = IF Tail(todo) = <<>> THEN AfterSends ELSE outcome
    /\ UNCHANGED <<config, current, status_request_seen, flow, inbox, peerVars, consumed>>

\* The `?` after a send: FrameTooLarge from the encoder, or a dead transport.
SendFails ==
    /\ Running /\ todo # <<>>
    /\ ~Encodable(Head(todo)) \/ peer = "reset"
    /\ outcome' = IF Encodable(Head(todo)) THEN "Io" ELSE "Protocol"
    /\ todo' = <<>>
    /\ UNCHANGED <<config, current, status_request_seen, compression, flow, sent,
                   inbox, peerVars, unread, consumed>>

-----------------------------------------------------------------------------
(***************************************************************************)
(* The other ends of framed.next(): the read timeout, a clean close and a  *)
(* transport error.  A close in the middle of a frame is an Io error.      *)
(***************************************************************************)
ReadEnds(result) ==
    /\ Reading
    /\ outcome' = result
    /\ UNCHANGED <<config, current, status_request_seen, compression, todo, flow,
                   sent, inbox, peerVars, unread, consumed>>

\* Fault: a started frame stops the clock.
ReadTimeout_NotInFrame ==
    inbox = <<>> /\ ~partial /\ peer = "open" /\ ReadEnds("Timeout")

ReadTimeout == inbox = <<>> /\ peer = "open" /\ ReadEnds("Timeout")

ReadEof == /\ inbox = <<>> /\ peer = "eof"
           /\ ReadEnds(IF partial THEN "Io" ELSE "Ok")

\* Frames still in the inbox may be lost with the connection.
ReadError == peer = "reset" /\ ReadEnds("Io")

-----------------------------------------------------------------------------
(***************************************************************************)
(* The peer and the transport.  What the peer sends once the task has      *)
(* ended reaches nothing; what it was sent it may still read.              *)
(***************************************************************************)
PeerSend(f) ==
    /\ Running /\ peer = "open"
    /\ Len(consumed) + Len(inbox) < MaxFrames
    /\ inbox' = Append(inbox, f)
    /\ partial' = FALSE
    /\ UNCHANGED <<config, serverVars, peer, unread, consumed>>

PeerSendPart ==
    /\ Running /\ peer = "open" /\ ~partial
    /\ partial' = TRUE
    /\ UNCHANGED <<config, serverVars, inbox, peer, unread, consumed>>

PeerStops(how) ==
    /\ Running
    /\ <<peer, how>> \in {<<"open", "eof">>, <<"open", "reset">>, <<"eof", "reset">>}
    /\ peer' = how
    /\ UNCHANGED <<config, serverVars, inbox, partial, unread, consumed>>

PeerRead ==
    /\ peer # "reset" /\ unread > 0
    /\ unread' = unread - 1
    /\ UNCHANGED <<config, serverVars, inbox, peerVars, consumed>>

-----------------------------------------------------------------------------
Init ==
    /\ config \in [compression: BOOLEAN, statusFits: BOOLEAN]
    /\ current = "Handshaking"
    /\ status_request_seen = FALSE
    /\ compression = FALSE
    /\ todo = <<>>
    /\ flow = "Continue"
    /\ outcome = "running"
    /\ inbox = <<>>
    /\ partial = FALSE
    /\ peer = "open"
    /\ unread = 0
    /\ sent = <<>>
    /\ consumed = <<>>

Handle ==
    \/ handle_handshake
    \/ handle_status_request
    \/ handle_ping
    \/ handle_login_start
    \/ handle_login_acknowledged
    \/ UnexpectedPacket
    \/ DecodeError

ServerNext ==
    \/ Handle
    \/ Send
    \/ SendFails
    \/ ReadTimeout
    \/ ReadEof
    \/ ReadError

PeerNext ==
    \/ \E f \in Frames : PeerSend(f)
    \/ PeerSendPart
    \/ \E how \in {"eof", "reset"} : PeerStops(how)
    \/ PeerRead

Next == ServerNext \/ PeerNext

Spec == Init /\ [][Next]_vars

\* The runtime polls a task whose frame, send or timer is ready; nothing makes
\* the peer do anything.
FairSpec == Spec /\ WF_vars(ServerNext)

-----------------------------------------------------------------------------
(***************************************************************************)
(* Properties.                                                             *)
(***************************************************************************)

\* Type invariant.
TypeOK ==
    /\ config \in [compression: BOOLEAN, statusFits: BOOLEAN]
    /\ current \in State
    /\ status_request_seen \in BOOLEAN
    /\ compression \in BOOLEAN
    /\ todo \in Seq(Packet)
    /\ flow \in {"Continue", "Close", "InvalidUsername"}
    /\ outcome \in NetError \cup {"running", "Ok"}
    /\ inbox \in Seq(Frames)
    /\ partial \in BOOLEAN
    /\ peer \in {"open", "eof", "reset"}
    /\ unread \in 0..SendCapacity
    /\ sent \in Seq(Sent)
    /\ consumed \in Seq(Frames)

\* The format of a frame on the wire is decided by one point of the stream:
\* the first SetCompression.  Every frame up to and including it is plain and
\* every later one compressed, so a peer that switches when it has read it
\* reads them all (handle_login_start sends, then calls set_compression).
SwitchPoint ==
    \A i \in 1..Len(sent) :
        sent[i].format = "compressed" <=>
            \E j \in 1..(i - 1) : sent[j].packet = "SetCompression"

\* A plain frame was taken after a LoginStart.  If that switched the codec, the
\* peer had not yet read the announcement, or never switched.
PlainAfterStart ==
    \E i, j \in DOMAIN consumed :
        j < i /\ consumed[j].body.kind = "LoginStart" /\ consumed[i].format = "plain"

\* A frame in the old layout is misread, and the misreading can move the state
\* machine, but it never earns an answer: once such a frame was taken the peer
\* is sent nothing more, whatever follows it (decode, handle).
MisreadSilences == [][compression /\ PlainAfterStart => sent' = sent]_vars

\* The dispatch table of `handle` never asks the state machine for a move that
\* `transition` refuses, whatever the peer sends.
TransitionsAgree == outcome # "IllegalTransition"

\* A PongResponse or LoginDisconnect is the last thing the peer is sent, and
\* it is on the wire only once `run` has returned: after it no frame in the
\* inbox is dispatched.
LastWord ==
    \A i \in 1..Len(sent) :
        sent[i].packet \in {"PongResponse", "LoginDisconnect"} =>
            i = Len(sent) /\ outcome \in {"Ok", "InvalidUsername"}

\* A connection is closed as transport noise only when the transport is the
\* reason: the peer was silent with nothing left to decode, or it hung up.
\* What a frame says never makes it noise (is_transport_noise, run_connection).
NoiseIsTransport ==
    is_transport_noise(outcome) =>
        peer # "open" \/ (inbox = <<>> /\ todo = <<>>)

\* The identities the server confirms are the names the peer asked for, in
\* that order and none skipped; the last LoginStart may still be unanswered.
IdentitiesInOrder ==
    LET IsSuccess(p) == p.packet = "LoginSuccess"
        IsStart(f) == f.body.kind = "LoginStart"
        confirmed == SelectSeq(sent, IsSuccess)
        asked == SelectSeq(consumed, IsStart)
    IN  /\ Len(confirmed) <= Len(asked)
        /\ \A i \in 1..Len(confirmed) : confirmed[i].arg = asked[i].body.arg

\* The connection implements the exchange that Session specifies.
S == INSTANCE Session WITH
        compress <- config.compression,
        phase <- IF Running THEN current ELSE "Closed",
        log <- [i \in DOMAIN sent |-> sent[i].packet]

SessionSpec == S!Spec

(***************************************************************************)
(* What the repository's comments say and the code does not do.            *)
(***************************************************************************)

\* login.rs: LoginAcknowledged is "the client's acknowledgement of
\* LoginSuccess"; state.rs: Login moves to Configuration "once the client
\* acknowledges login".  So there is a LoginSuccess to acknowledge.
ConfigurationAfterLogin ==
    current = "Configuration" => \E i \in 1..Len(sent) : sent[i].packet = "LoginSuccess"

\* config.rs: read_timeout is "How long a connection may sit idle before it is
\* dropped", so every connection comes to an end, as soon as its peer has sent
\* all it will send.
ConnectionEnds == <>~Running
=============================================================================
