--------------------------- MODULE ClientSession ---------------------------
(***************************************************************************)
(* A Connection and a client that follows the protocol, the one the tests  *)
(* crates/net/tests/login.rs and server_list_ping.rs play: it introduces   *)
(* itself, asks for the status or logs in, changes its frame format when   *)
(* it has READ SetCompression, and acknowledges LoginSuccess.  It does not *)
(* wait where the protocol does not make it wait, and may leave any time.  *)
(***************************************************************************)
EXTENDS Connection

VARIABLES
    goal,      \* the next state it asks for in its handshake
    name,      \* the name it logs in with
    stage,     \* how far it has come
    cformat    \* the frame format it writes and expects to read

clientVars == <<goal, name, stage, cformat>>
allVars == <<vars, clientVars>>

Names == {"bob", "not valid"}

Stage == {"start", "greeted", "asked", "pinged", "ponged", "waiting",
          "succeeded", "rejected", "acknowledged", "confused"}

\* The frame it sends; its body's first VarInt is the length of the name.
ClientFrame(format, id, kind, arg) ==
    [format |-> format, sound |-> TRUE, dataLength |-> 0, id |-> id,
     body |-> [kind |-> kind, arg |-> arg, extra |-> FALSE,
               lead |-> CASE kind = "Handshake" -> 776
                          [] kind = "LoginStart" -> IF arg = "bob" THEN 3 ELSE 9
                          [] kind = "PingRequest" -> 0
                          [] kind = "Empty" -> NoVarInt]]

ASSUME ClientAssumption ==
    \A format \in Format :
        /\ \A next \in NextState : ClientFrame(format, HandshakeId, "Handshake", next) \in Frames
        /\ \A who \in Names : ClientFrame(format, LoginStartId, "LoginStart", who) \in Frames
        /\ \A id \in {StatusRequestId, LoginAcknowledgedId} :
               ClientFrame(format, id, "Empty", "") \in Frames
        /\ ClientFrame(format, PingRequestId, "PingRequest", "payload") \in Frames

Sends(from, to, id, kind, arg) ==
    /\ stage \in from
    /\ stage' = to
    /\ PeerSend(ClientFrame(cformat, id, kind, arg))
    /\ UNCHANGED <<goal, name, cformat>>

ClientHandshake == Sends({"start"}, "greeted", HandshakeId, "Handshake", goal)

ClientStatusRequest ==
    goal = "Status" /\ Sends({"greeted"}, "asked", StatusRequestId, "Empty", "")

\* The status request may be skipped, and its answer need not be awaited.
ClientPing ==
    goal = "Status" /\ Sends({"greeted", "asked"}, "pinged", PingRequestId, "PingRequest", "payload")

ClientLoginStart ==
    goal # "Status" /\ Sends({"greeted"}, "waiting", LoginStartId, "LoginStart", name)

ClientAcknowledge ==
    Sends({"succeeded"}, "acknowledged", LoginAcknowledgedId, "Empty", "")

\* It reads the next frame the server sent.
ClientRead ==
    /\ PeerRead
    /\ LET p == sent[Len(sent) - unread + 1]
       IN  /\ stage' = IF p.format # cformat THEN "confused"
                       ELSE CASE p.packet = "LoginSuccess" -> "succeeded"
                              [] p.packet = "LoginDisconnect" -> "rejected"
                              [] p.packet = "PongResponse" -> "ponged"
                              [] OTHER -> stage
           /\ cformat' = IF p.packet = "SetCompression" THEN "compressed" ELSE cformat
    /\ UNCHANGED <<goal, name>>

ClientLeaves == \E how \in {"eof", "reset"} : PeerStops(how) /\ UNCHANGED clientVars

ClientDelays == PeerSendPart /\ UNCHANGED clientVars

ClientActs ==
    \/ ClientHandshake
    \/ ClientStatusRequest
    \/ ClientPing
    \/ ClientLoginStart
    \/ ClientAcknowledge
    \/ ClientRead

ServerActs == ServerNext /\ UNCHANGED clientVars

SessionInit ==
    /\ Init
    /\ goal \in NextState
    /\ name \in Names
    /\ stage = "start"
    /\ cformat = "plain"

SessionNext == ServerActs \/ ClientActs \/ ClientLeaves \/ ClientDelays

ClientSpec == SessionInit /\ [][SessionNext]_allVars

\* Both programs keep running; only the client's leaving is left to chance.
FairSession ==
    /\ ClientSpec
    /\ WF_allVars(ServerActs)
    /\ WF_allVars(ClientActs)

-----------------------------------------------------------------------------
(***************************************************************************)
(* Properties.                                                             *)
(***************************************************************************)

\* Type invariant.
SessionTypeOK ==
    /\ TypeOK
    /\ goal \in NextState
    /\ name \in Names
    /\ stage \in Stage
    /\ cformat \in Format

\* Client and codec agree on the frame format at every frame, in both
\* directions: the client never reads a frame laid out otherwise than it
\* expects, and the codec never meets one in its own inbox
\* (handle_login_start's order of send and set_compression).
FormatsAgree ==
    /\ stage # "confused"
    /\ todo = <<>> /\ inbox # <<>> => Head(inbox).format = CodecFormat

\* A client that follows the protocol is never closed with a warning, however
\* it pipelines, dawdles or leaves; the two exceptions are a name the server
\* refuses and a status document it cannot encode.
ConformingNotBlamed ==
    \/ outcome \in {"running", "Ok"}
    \/ is_transport_noise(outcome)
    \/ outcome = "InvalidUsername" /\ name \notin ValidNames
    \/ outcome = "Protocol" /\ goal = "Status" /\ ~config.statusFits

\* Once the client has acknowledged and the server has caught up, both are in
\* Configuration, under the name the client gave.
BothConfigured ==
    stage = "acknowledged" /\ Reading /\ inbox = <<>> =>
        current = "Configuration" /\ sent[Len(sent)].arg = name

\* Every exchange comes to its end: a login is confirmed and acknowledged, a
\* bad name is answered with LoginDisconnect, a ping with its pong.  The only
\* excuses are that the client leaves, that it lets the read timeout pass when
\* the next frame is its to send, or that the status cannot be encoded.
ExchangeCompletes ==
    <>(\/ stage = "acknowledged" /\ current = "Configuration"
       \/ stage \in {"rejected", "ponged"}
       \/ peer # "open"
       \/ outcome = "Timeout" /\ stage \in {"start", "greeted", "asked", "succeeded"}
       \/ outcome = "Protocol" /\ ~config.statusFits)
=============================================================================
