------------------------ MODULE ClientSessionProofs ------------------------
(***************************************************************************)
(* Proofs about a connection and a client that follows the protocol, for   *)
(* any frames, any valid names and any capacity of the transport.          *)
(***************************************************************************)
EXTENDS ClientSession, ConnectionProofs

-----------------------------------------------------------------------------
(***************************************************************************)
(* The inductive invariant.  How far the server has come with what the     *)
(* client has sent is one of eight positions; each fixes the inbox, what   *)
(* is still to be sent and what has been sent, up to the client's stage.   *)
(***************************************************************************)
H == ClientFrame("plain", HandshakeId, "Handshake", goal)
Q == ClientFrame("plain", StatusRequestId, "Empty", "")
P == ClientFrame("plain", PingRequestId, "PingRequest", "payload")
L == ClientFrame("plain", LoginStartId, "LoginStart", name)
K == ClientFrame(CodecFormat, LoginAcknowledgedId, "Empty", "")

Out(packet, arg, format) == [packet |-> packet, arg |-> arg, format |-> format]
Status == Out("StatusResponse", "", "plain")
Announcement == Out("SetCompression", "", "plain")
Success == Out("LoginSuccess", name, CodecFormat)

\* Nothing has been sent.
Fresh == sent = <<>> /\ todo = <<>> /\ ~status_request_seen

AtHandshake ==
    /\ current = "Handshaking" /\ Fresh
    /\ \/ stage = "start" /\ inbox = <<>>
       \/ stage = "greeted" /\ inbox = <<H>>
       \/ stage = "asked" /\ inbox = <<H, Q>> /\ goal = "Status"
       \/ stage = "pinged" /\ inbox = <<H, P>> /\ goal = "Status"
       \/ stage = "pinged" /\ inbox = <<H, Q, P>> /\ goal = "Status"
       \/ stage = "waiting" /\ inbox = <<H, L>> /\ goal # "Status"

AtRequest ==
    /\ current = "Status" /\ goal = "Status" /\ Fresh
    /\ \/ stage = "greeted" /\ inbox = <<>>
       \/ stage = "asked" /\ inbox = <<Q>>
       \/ stage = "pinged" /\ inbox = <<P>>
       \/ stage = "pinged" /\ inbox = <<Q, P>>

AtLogin ==
    /\ current = "Login" /\ goal # "Status" /\ Fresh
    /\ \/ stage = "greeted" /\ inbox = <<>>
       \/ stage = "waiting" /\ inbox = <<L>>

AtPing ==
    /\ current = "Status" /\ goal = "Status" /\ flow = "Continue" /\ status_request_seen
    /\ \/ todo = <<Pkt("StatusResponse", "")>> /\ sent = <<>>
       \/ todo = <<>> /\ sent = <<Status>>
    /\ \/ stage = "asked" /\ inbox = <<>>
       \/ stage = "pinged" /\ inbox = <<P>>

AtPong ==
    /\ current = "Status" /\ goal = "Status" /\ flow = "Close"
    /\ todo = <<Pkt("PongResponse", "payload")>>
    /\ sent = <<>> \/ sent = <<Status>>
    /\ stage = "pinged" /\ inbox = <<>>

AtRejection ==
    /\ current = "Login" /\ goal # "Status" /\ flow = "InvalidUsername"
    /\ name \notin ValidNames
    /\ todo = <<Pkt("LoginDisconnect", "")>> /\ sent = <<>>
    /\ stage = "waiting" /\ inbox = <<>>

AtReply ==
    /\ current = "Login" /\ goal # "Status" /\ flow = "Continue"
    /\ stage = "waiting" /\ inbox = <<>>
    /\ \/ todo = <<Pkt("SetCompression", ""), Pkt("LoginSuccess", name)>>
          /\ sent = <<>> /\ config.compression
       \/ todo = <<Pkt("LoginSuccess", name)>>
          /\ sent = (IF config.compression THEN <<Announcement>> ELSE <<>>)

LoggedIn == sent = IF config.compression THEN <<Announcement, Success>> ELSE <<Success>>

AtAcknowledgement ==
    /\ current = "Login" /\ goal # "Status" /\ todo = <<>> /\ LoggedIn
    /\ \/ stage = "waiting" /\ inbox = <<>> /\ unread > 0
       \/ stage = "succeeded" /\ inbox = <<>> /\ unread = 0
       \/ stage = "acknowledged" /\ inbox = <<K>> /\ unread = 0

AtConfiguration ==
    /\ current = "Configuration" /\ todo = <<>> /\ LoggedIn
    /\ stage = "acknowledged" /\ inbox = <<>> /\ unread = 0

Position == \/ AtHandshake \/ AtRequest \/ AtLogin \/ AtPing \/ AtPong \/ AtRejection
            \/ AtReply \/ AtAcknowledgement \/ AtConfiguration

\* SetCompression comes first or not at all, and what follows it is compressed.
Switched == sent # <<>> /\ sent[1].packet = "SetCompression"

WireAgrees ==
    /\ compression = Switched
    /\ unread <= Len(sent)
    /\ \A i \in 1..Len(sent) : /\ sent[i].format = "compressed" <=> Switched /\ i > 1
                               /\ sent[i].packet = "SetCompression" => i = 1
    /\ cformat = IF Switched /\ unread < Len(sent) THEN "compressed" ELSE "plain"
    /\ \A i \in 1..Len(inbox) : inbox[i].format = CodecFormat
    /\ stage # "confused"

SessionInv ==
    /\ SessionTypeOK
    /\ WireAgrees
    /\ Running => Position
    /\ ConformingNotBlamed

-----------------------------------------------------------------------------
(***************************************************************************)
(* Facts the steps below share.                                            *)
(***************************************************************************)
IsFrame(f, format, id, kind, arg) ==
    /\ f.format = format /\ f.sound /\ f.id = id
    /\ f.body.kind = kind /\ f.body.arg = arg /\ ~f.body.extra

\* What the client's frames carry.
LEMMA ClientFrames ==
    /\ IsFrame(H, "plain", 0, "Handshake", goal)
    /\ IsFrame(Q, "plain", 0, "Empty", "")
    /\ IsFrame(P, "plain", 1, "PingRequest", "payload")
    /\ IsFrame(L, "plain", 0, "LoginStart", name)
    /\ IsFrame(K, CodecFormat, 3, "Empty", "")
BY DEF H, Q, P, L, K, IsFrame, ClientFrame, HandshakeId, StatusRequestId, PingRequestId,
       LoginStartId, LoginAcknowledgedId

\* A sequence of two elements is determined by them.
LEMMA Pair ==
    ASSUME NEW X, NEW s \in Seq(X), Len(s) = 2
    PROVE  s = <<s[1], s[2]>>
<1>1. s[1] \in X /\ s[2] \in X
  BY ElementOfSeq
<1> DEFINE t == <<s[1], s[2]>>
<1>2. t \in Seq(X) /\ Len(t) = 2 /\ \A i \in 1..2 : s[i] = t[i]
  BY <1>1
<1> HIDE DEF t
<1>3. s = t
  BY <1>2, SeqEqual
<1> QED
  BY <1>3 DEF t

\* The same for three.
LEMMA Triple ==
    ASSUME NEW X, NEW s \in Seq(X), Len(s) = 3
    PROVE  s = <<s[1], s[2], s[3]>>
<1>1. s[1] \in X /\ s[2] \in X /\ s[3] \in X
  BY ElementOfSeq
<1> DEFINE t == <<s[1], s[2], s[3]>>
<1>2. t \in Seq(X) /\ Len(t) = 3 /\ \A i \in 1..3 : s[i] = t[i]
  BY <1>1
<1> HIDE DEF t
<1>3. s = t
  BY <1>2, SeqEqual
<1> QED
  BY <1>3 DEF t

\* Appending to a pair makes a triple.
LEMMA AppendThird ==
    ASSUME NEW a, NEW b, NEW c
    PROVE  Append(<<a, b>>, c) = <<a, b, c>>
<1> DEFINE X == {a, b, c}
<1>1. <<a, b>> \in Seq(X) /\ c \in X
  OBVIOUS
<1>2. Len(<<a, b>>) = 2 /\ <<a, b>>[1] = a /\ <<a, b>>[2] = b
  OBVIOUS
<1> HIDE DEF X
<1>3. /\ Append(<<a, b>>, c) \in Seq(X) /\ Len(Append(<<a, b>>, c)) = 3
      /\ Append(<<a, b>>, c)[1] = a /\ Append(<<a, b>>, c)[2] = b
      /\ Append(<<a, b>>, c)[3] = c
  BY <1>1, <1>2, AppendProperties
<1> QED
  BY <1>3, Triple

\* Short sequences, as the inbox, `todo` and `sent` are.
LEMMA ShortSequences ==
    ASSUME NEW a, NEW b, NEW c
    PROVE  /\ Head(<<a>>) = a /\ Tail(<<a>>) = <<>> /\ <<a>> # <<>> /\ Len(<<a>>) = 1
           /\ Head(<<a, b>>) = a /\ Tail(<<a, b>>) = <<b>> /\ <<a, b>> # <<>>
           /\ Len(<<a, b>>) = 2
           /\ Head(<<a, b, c>>) = a /\ Tail(<<a, b, c>>) = <<b, c>> /\ <<a, b, c>> # <<>>
           /\ Append(<<>>, a) = <<a>> /\ Append(<<a>>, b) = <<a, b>>
<1> DEFINE X == {a, b, c}
<1>1. <<a>> \in Seq(X) /\ <<a, b>> \in Seq(X) /\ b \in X /\ c \in X
  OBVIOUS
<1>2. Len(<<a>>) = 1 /\ Len(<<a, b>>) = 2 /\ <<a>>[1] = a /\ <<a, b>>[1] = a /\ <<a, b>>[2] = b
  OBVIOUS
<1> HIDE DEF X
<1>3. Append(<<a>>, b) = <<a, b>>
  <2>1. /\ Append(<<a>>, b) \in Seq(X) /\ Len(Append(<<a>>, b)) = 2
        /\ Append(<<a>>, b)[1] = a /\ Append(<<a>>, b)[2] = b
    BY <1>1, <1>2, AppendProperties
  <2> QED
    BY <2>1, Pair
<1>4. Append(<<>>, a) = <<a>> /\ Head(<<a>>) = a /\ Tail(<<a>>) = <<>> /\ <<a>> # <<>>
  OBVIOUS
<1>5. Head(<<a, b>>) = a /\ Tail(<<a, b>>) = <<b>> /\ <<a, b>> # <<>>
  OBVIOUS
<1>6. Head(<<a, b, c>>) = a /\ Tail(<<a, b, c>>) = <<b, c>> /\ <<a, b, c>> # <<>>
  OBVIOUS
<1> QED
  BY <1>2, <1>3, <1>4, <1>5, <1>6

\* A frame in the codec's own format is decoded as what it is.
LEMMA Understood ==
    ASSUME NEW f, f.format = CodecFormat, f.sound
    PROVE  Decodable(f) /\ DecodedId(f) = f.id /\ DecodedBody(f) = f.body
BY DEF Decodable, DecodedId, DecodedBody, CodecFormat

\* What every arm of `handle` does.
LEMMA HandleTakes ==
    ASSUME Handle
    PROVE  /\ Reading /\ inbox # <<>> /\ inbox' = Tail(inbox)
           /\ UNCHANGED <<config, compression, unread, sent>>
BY DEF Handle, handle_handshake, handle_status_request, handle_ping, handle_login_start,
       handle_login_acknowledged, UnexpectedPacket, DecodeError, Dispatch

\* A frame that is decoded and has an arm reaches that arm.
LEMMA Dispatched ==
    ASSUME Handle, Decodable(Head(inbox)),
           NEW id, DecodedId(Head(inbox)) = id, <<current, id>> \in Handled
    PROVE  \/ current = "Handshaking" /\ id = 0 /\ handle_handshake
           \/ current = "Status" /\ id = 0 /\ handle_status_request
           \/ current = "Status" /\ id = 1 /\ handle_ping
           \/ current = "Login" /\ id = 0 /\ handle_login_start
           \/ current = "Login" /\ id = 3 /\ handle_login_acknowledged
<1>1. ~UnexpectedPacket /\ ~DecodeError
  BY DEF UnexpectedPacket, DecodeError
<1>2. handle_handshake => Dispatch("Handshaking", 0)
  BY DEF handle_handshake, HandshakeId
<1>3. handle_status_request => Dispatch("Status", 0)
  BY DEF handle_status_request, StatusRequestId
<1>4. handle_ping => Dispatch("Status", 1)
  BY DEF handle_ping, PingRequestId
<1>5. handle_login_start => Dispatch("Login", 0)
  BY DEF handle_login_start, LoginStartId
<1>6. handle_login_acknowledged => Dispatch("Login", 3)
  BY DEF handle_login_acknowledged, LoginAcknowledgedId
<1>7. \A state, n : Dispatch(state, n) => current = state /\ id = n
  BY DEF Dispatch
<1> QED
  BY <1>1, <1>2, <1>3, <1>4, <1>5, <1>6, <1>7 DEF Handle

\* The client's handshake moves the server to the state it asks for.
LEMMA HandleHandshake ==
    ASSUME Handle, current = "Handshaking", Head(inbox) = H, CodecFormat = "plain",
           goal \in NextState
    PROVE  /\ current' = IF goal = "Status" THEN "Status" ELSE "Login"
           /\ UNCHANGED <<outcome, status_request_seen, todo, flow>>
<1> DEFINE f == Head(inbox)
<1>1. IsFrame(f, "plain", 0, "Handshake", goal)
  BY ClientFrames
<1>2. Decodable(f) /\ DecodedId(f) = 0 /\ DecodedBody(f) = f.body
  BY <1>1, Understood DEF IsFrame
<1>3. decode_as(f.body, "Handshake") /\ f.body.arg = goal
  BY <1>1 DEF IsFrame, decode_as
<1>4. <<current, 0>> \in Handled
  BY DEF Handled, HandshakeId
<1>5. handle_handshake
  BY <1>2, <1>4, Dispatched
<1> QED
  BY <1>2, <1>3, <1>5 DEF handle_handshake, transition, Permitted

\* Its status request is answered.
LEMMA HandleStatusRequest ==
    ASSUME Handle, current = "Status", Head(inbox) = Q, CodecFormat = "plain",
           ~status_request_seen
    PROVE  /\ status_request_seen' = TRUE
           /\ Reply(<<Pkt("StatusResponse", "")>>, "Continue")
<1> DEFINE f == Head(inbox)
<1>1. IsFrame(f, "plain", 0, "Empty", "")
  BY ClientFrames
<1>2. Decodable(f) /\ DecodedId(f) = 0
  BY <1>1, Understood DEF IsFrame
<1>3. <<current, 0>> \in Handled
  BY DEF Handled, StatusRequestId
<1>4. handle_status_request
  BY <1>2, <1>3, Dispatched
<1> QED
  BY <1>4 DEF handle_status_request

\* Its ping is answered, and the connection then closed.
LEMMA HandlePing ==
    ASSUME Handle, current = "Status", Head(inbox) = P, CodecFormat = "plain"
    PROVE  /\ Reply(<<Pkt("PongResponse", "payload")>>, "Close")
           /\ UNCHANGED status_request_seen
<1> DEFINE f == Head(inbox)
<1>1. IsFrame(f, "plain", 1, "PingRequest", "payload")
  BY ClientFrames
<1>2. Decodable(f) /\ DecodedId(f) = 1 /\ DecodedBody(f) = f.body
  BY <1>1, Understood DEF IsFrame
<1>3. decode_as(f.body, "PingRequest") /\ f.body.arg = "payload"
  BY <1>1 DEF IsFrame, decode_as
<1>4. <<current, 1>> \in Handled
  BY DEF Handled, PingRequestId
<1>5. handle_ping
  BY <1>2, <1>4, Dispatched
<1> QED
  BY <1>2, <1>3, <1>5 DEF handle_ping

\* Its LoginStart is answered with what its name deserves.
LEMMA HandleLoginStart ==
    ASSUME Handle, current = "Login", Head(inbox) = L, CodecFormat = "plain"
    PROVE  /\ IF name \in ValidNames THEN Reply(LoginReplies(name), "Continue")
              ELSE Reply(<<Pkt("LoginDisconnect", "")>>, "InvalidUsername")
           /\ UNCHANGED status_request_seen
<1> DEFINE f == Head(inbox)
<1>1. IsFrame(f, "plain", 0, "LoginStart", name)
  BY ClientFrames
<1>2. Decodable(f) /\ DecodedId(f) = 0 /\ DecodedBody(f) = f.body
  BY <1>1, Understood DEF IsFrame
<1>3. decode_as(f.body, "LoginStart") /\ f.body.arg = name
  BY <1>1 DEF IsFrame, decode_as
<1>4. <<current, 0>> \in Handled
  BY DEF Handled, LoginStartId
<1>5. handle_login_start
  BY <1>2, <1>4, Dispatched
<1> QED
  BY <1>2, <1>3, <1>5 DEF handle_login_start, validate_username

\* Its acknowledgement moves the server to Configuration.
LEMMA HandleAcknowledged ==
    ASSUME Handle, current = "Login", Head(inbox) = K
    PROVE  /\ current' = "Configuration"
           /\ UNCHANGED <<outcome, status_request_seen, todo, flow>>
<1> DEFINE f == Head(inbox)
<1>1. IsFrame(f, CodecFormat, 3, "Empty", "")
  BY ClientFrames
<1>2. Decodable(f) /\ DecodedId(f) = 3
  BY <1>1, Understood DEF IsFrame
<1>3. <<current, 3>> \in Handled
  BY DEF Handled, LoginAcknowledgedId
<1>4. handle_login_acknowledged
  BY <1>2, <1>3, Dispatched
<1> QED
  BY <1>4 DEF handle_login_acknowledged, transition, Permitted

\* The session's steps are steps of a connection, and the client does not
\* change its mind.
LEMMA SessionSteps ==
    ASSUME SessionTypeOK, SessionNext
    PROVE  Next /\ UNCHANGED <<goal, name>>
<1>1. CASE ServerActs
  BY <1>1 DEF ServerActs, Next, clientVars
<1>2. ASSUME NEW from, NEW to, NEW id, NEW kind, NEW arg, Sends(from, to, id, kind, arg),
             ClientFrame(cformat, id, kind, arg) \in Frames
      PROVE  Next /\ UNCHANGED <<goal, name>>
  BY <1>2 DEF Sends, Next, PeerNext
<1>3. cformat \in Format /\ goal \in NextState /\ name \in Names
  BY DEF SessionTypeOK
<1>4. CASE ClientHandshake
  BY <1>2, <1>3, <1>4, ClientAssumption DEF ClientHandshake
<1>5. CASE ClientStatusRequest
  BY <1>2, <1>3, <1>5, ClientAssumption DEF ClientStatusRequest
<1>6. CASE ClientPing
  BY <1>2, <1>3, <1>6, ClientAssumption DEF ClientPing
<1>7. CASE ClientLoginStart
  BY <1>2, <1>3, <1>7, ClientAssumption DEF ClientLoginStart
<1>8. CASE ClientAcknowledge
  BY <1>2, <1>3, <1>8, ClientAssumption DEF ClientAcknowledge
<1>9. CASE ClientRead
  BY <1>9 DEF ClientRead, Next, PeerNext
<1>10. CASE ClientLeaves
  BY <1>10 DEF ClientLeaves, Next, PeerNext, clientVars
<1>11. CASE ClientDelays
  BY <1>11 DEF ClientDelays, Next, PeerNext, clientVars
<1> QED
  BY <1>1, <1>4, <1>5, <1>6, <1>7, <1>8, <1>9, <1>10, <1>11 DEF SessionNext, ClientActs

\* Every step keeps the state well typed.
LEMMA SessionTypes ==
    ASSUME SessionTypeOK, SessionNext
    PROVE  SessionTypeOK'
<1>1. TypeOK' /\ UNCHANGED <<goal, name>>
  BY SessionSteps, TypeNext DEF SessionTypeOK
<1>2. stage' \in Stage /\ cformat' \in Format
  BY DEF SessionTypeOK, SessionNext, ServerActs, ClientActs, ClientHandshake,
         ClientStatusRequest, ClientPing, ClientLoginStart, ClientAcknowledge, Sends,
         ClientRead, ClientLeaves, ClientDelays, clientVars, Stage, Format
<1> QED
  BY <1>1, <1>2 DEF SessionTypeOK

\* Frames are compressed only once SetCompression is on the wire.
LEMMA PlainAtFirst ==
    ASSUME WireAgrees, sent = <<>> \/ sent = <<Status>>
    PROVE  CodecFormat = "plain" /\ cformat = "plain" /\ ~Switched /\ ~compression
<1>1. <<Status>>[1] = Status /\ Status.packet = "StatusResponse"
  BY DEF Status, Out
<1>2. ~Switched
  BY <1>1 DEF Switched
<1> QED
  BY <1>2 DEF WireAgrees, CodecFormat

-----------------------------------------------------------------------------
(***************************************************************************)
(* The steps.                                                              *)
(***************************************************************************)

\* A handler moves the server on by one position.
LEMMA HandleInv ==
    ASSUME SessionInv, Handle, UNCHANGED clientVars
    PROVE  WireAgrees' /\ Position' /\ UNCHANGED <<outcome, config>>
<1>1. UNCHANGED <<goal, name, stage, cformat>>
  BY DEF clientVars
<1>2. /\ Position /\ Running /\ todo = <<>> /\ inbox # <<>> /\ inbox' = Tail(inbox)
      /\ UNCHANGED <<config, compression, unread, sent>>
  BY HandleTakes DEF SessionInv, Reading
<1>3. UNCHANGED <<H, Q, P, L, K, Success, CodecFormat, LoggedIn>>
  BY <1>1, <1>2 DEF H, Q, P, L, K, Success, CodecFormat, LoggedIn
<1>4. WireAgrees'
  <2>1. inbox \in Seq(Frames)
    BY DEF SessionInv, SessionTypeOK, TypeOK
  <2>2. Len(inbox') = Len(inbox) - 1 /\ \A i \in 1..Len(inbox') : inbox'[i] = inbox[i + 1]
    BY <1>2, <2>1, HeadTailProperties
  <2>3. \A i \in 1..Len(inbox') : inbox'[i].format = CodecFormat
    BY <2>1, <2>2 DEF SessionInv, WireAgrees
  <2> QED
    BY <1>1, <1>2, <1>3, <2>3 DEF SessionInv, WireAgrees, Switched
<1>5. goal \in NextState /\ WireAgrees
  BY DEF SessionInv, SessionTypeOK
<1>6. CASE AtHandshake
  <2>1. Head(inbox) = H
    BY <1>2, <1>6, ShortSequences DEF AtHandshake
  <2>2. CodecFormat = "plain"
    BY <1>5, <1>6, PlainAtFirst DEF AtHandshake, Fresh
  <2>3. /\ current' = IF goal = "Status" THEN "Status" ELSE "Login"
        /\ UNCHANGED <<outcome, status_request_seen, todo, flow>>
    BY <1>5, <1>6, <2>1, <2>2, HandleHandshake DEF AtHandshake
  <2>4. Fresh'
    BY <1>2, <1>6, <2>3 DEF AtHandshake, Fresh
  <2>5. \/ stage = "greeted" /\ Tail(inbox) = <<>>
        \/ stage = "asked" /\ Tail(inbox) = <<Q>> /\ goal = "Status"
        \/ stage = "pinged" /\ Tail(inbox) = <<P>> /\ goal = "Status"
        \/ stage = "pinged" /\ Tail(inbox) = <<Q, P>> /\ goal = "Status"
        \/ stage = "waiting" /\ Tail(inbox) = <<L>> /\ goal # "Status"
    <3>1. /\ Tail(<<H>>) = <<>> /\ Tail(<<H, Q>>) = <<Q>> /\ Tail(<<H, P>>) = <<P>>
          /\ Tail(<<H, Q, P>>) = <<Q, P>> /\ Tail(<<H, L>>) = <<L>>
      BY ShortSequences
    <3> QED
      BY <1>2, <1>6, <3>1 DEF AtHandshake
  <2>6. AtRequest' \/ AtLogin'
    BY <1>1, <1>2, <1>3, <2>3, <2>4, <2>5 DEF AtRequest, AtLogin
  <2> QED
    BY <1>2, <1>4, <2>3, <2>6 DEF Position
<1>7. CASE AtRequest
  <2>1. CodecFormat = "plain"
    BY <1>5, <1>7, PlainAtFirst DEF AtRequest, Fresh
  <2>2. CASE Head(inbox) = Q
    <3>1. status_request_seen' = TRUE /\ Reply(<<Pkt("StatusResponse", "")>>, "Continue")
      BY <1>7, <2>1, <2>2, HandleStatusRequest DEF AtRequest, Fresh
    <3>2. P # Q
      BY ClientFrames DEF IsFrame
    <3>3. \/ stage = "asked" /\ Tail(inbox) = <<>>
          \/ stage = "pinged" /\ Tail(inbox) = <<P>>
      <4>1. Tail(<<Q>>) = <<>> /\ Tail(<<Q, P>>) = <<P>> /\ Head(<<P>>) = P
        BY ShortSequences
      <4> QED
        BY <1>2, <1>7, <2>2, <3>2, <4>1 DEF AtRequest
    <3>4. AtPing'
      BY <1>1, <1>2, <1>3, <1>7, <3>1, <3>3 DEF AtRequest, AtPing, Fresh, Reply
    <3> QED
      BY <1>2, <1>4, <3>1, <3>4 DEF Position, Reply
  <2>3. CASE Head(inbox) = P
    <3>1. Reply(<<Pkt("PongResponse", "payload")>>, "Close")
      BY <1>7, <2>1, <2>3, HandlePing DEF AtRequest
    <3>2. P # Q
      BY ClientFrames DEF IsFrame
    <3>3. stage = "pinged" /\ Tail(inbox) = <<>>
      BY <1>2, <1>7, <2>3, <3>2, ShortSequences DEF AtRequest
    <3>4. AtPong'
      BY <1>1, <1>2, <1>7, <3>1, <3>3 DEF AtRequest, AtPong, Fresh, Reply
    <3> QED
      BY <1>2, <1>4, <3>1, <3>4 DEF Position, Reply
  <2> QED
    BY <1>2, <1>7, <2>2, <2>3, ShortSequences DEF AtRequest
<1>8. CASE AtLogin
  <2>1. CodecFormat = "plain"
    BY <1>5, <1>8, PlainAtFirst DEF AtLogin, Fresh
  <2>2. Head(inbox) = L /\ Tail(inbox) = <<>> /\ stage = "waiting"
    BY <1>2, <1>8, ShortSequences DEF AtLogin
  <2>3. IF name \in ValidNames THEN Reply(LoginReplies(name), "Continue")
        ELSE Reply(<<Pkt("LoginDisconnect", "")>>, "InvalidUsername")
    BY <1>8, <2>1, <2>2, HandleLoginStart DEF AtLogin
  <2>4. AtReply' \/ AtRejection'
    BY <1>1, <1>2, <1>8, <2>2, <2>3
    DEF AtLogin, AtReply, AtRejection, Fresh, Reply, LoginReplies
  <2> QED
    BY <1>2, <1>4, <2>3, <2>4 DEF Position, Reply
<1>9. CASE AtPing
  <2>1. sent = <<Status>> /\ inbox = <<P>> /\ stage = "pinged"
    BY <1>2, <1>9, ShortSequences DEF AtPing
  <2>2. CodecFormat = "plain" /\ Head(inbox) = P /\ Tail(inbox) = <<>>
    BY <1>5, <2>1, PlainAtFirst, ShortSequences
  <2>3. Reply(<<Pkt("PongResponse", "payload")>>, "Close")
    BY <1>9, <2>2, HandlePing DEF AtPing
  <2>4. Status' = Status
    BY DEF Status
  <2>5. AtPong'
    BY <1>1, <1>2, <1>9, <2>1, <2>2, <2>3, <2>4 DEF AtPing, AtPong, Reply
  <2> QED
    BY <1>2, <1>4, <2>3, <2>5 DEF Position, Reply
<1>10. CASE AtAcknowledgement
  <2>1. inbox = <<K>> /\ stage = "acknowledged" /\ unread = 0
    BY <1>2, <1>10 DEF AtAcknowledgement
  <2>2. Head(inbox) = K /\ Tail(inbox) = <<>>
    BY <2>1, ShortSequences
  <2>3. current' = "Configuration" /\ UNCHANGED <<outcome, status_request_seen, todo, flow>>
    BY <1>10, <2>2, HandleAcknowledged DEF AtAcknowledgement
  <2>4. AtConfiguration'
    BY <1>1, <1>2, <1>3, <1>10, <2>1, <2>2, <2>3 DEF AtAcknowledgement, AtConfiguration
  <2> QED
    BY <1>2, <1>4, <2>3, <2>4 DEF Position
<1>11. ~AtPong /\ ~AtRejection /\ ~AtReply /\ ~AtConfiguration
  BY <1>2, ShortSequences DEF AtPong, AtRejection, AtReply, AtConfiguration
<1> QED
  BY <1>2, <1>6, <1>7, <1>8, <1>9, <1>10, <1>11 DEF Position

\* A send leaves both ends agreed on the format, since SetCompression is sent
\* first and with no frame waiting in the inbox.
LEMMA SendWire ==
    ASSUME SessionTypeOK, WireAgrees, Send, UNCHANGED clientVars,
           Head(todo).packet = "SetCompression" => sent = <<>> /\ inbox = <<>>
    PROVE  WireAgrees'
<1> DEFINE n == Len(sent)
<1>1. /\ n \in Nat /\ Len(sent') = n + 1 /\ \A i \in 1..n : sent'[i] = sent[i]
      /\ sent'[n + 1].packet = Head(todo).packet /\ sent'[n + 1].format = CodecFormat
      /\ sent' # <<>>
  BY SendEffect DEF SessionTypeOK
<1>2. /\ unread' = unread + 1 /\ inbox' = inbox
      /\ compression' = (compression \/ Head(todo).packet = "SetCompression")
  BY DEF Send
<1>3. UNCHANGED <<stage, cformat>>
  BY DEF clientVars
<1>4. /\ compression = Switched /\ unread <= n /\ unread \in Nat /\ stage # "confused"
      /\ \A i \in 1..n : /\ sent[i].format = "compressed" <=> Switched /\ i > 1
                         /\ sent[i].packet = "SetCompression" => i = 1
      /\ cformat = IF Switched /\ unread < n THEN "compressed" ELSE "plain"
      /\ \A i \in 1..Len(inbox) : inbox[i].format = CodecFormat
      /\ compression \in BOOLEAN
  BY BoundsAssumption DEF WireAgrees, SessionTypeOK, TypeOK
<1>5. sent = <<>> <=> n = 0
  BY EmptySeq DEF SessionTypeOK, TypeOK
<1> HIDE DEF n
<1>6. CASE n = 0
  <2>1. ~Switched /\ CodecFormat = "plain" /\ unread = 0
    <3>1. ~Switched
      BY <1>5, <1>6 DEF Switched
    <3>2. CodecFormat = "plain"
      BY <1>4, <3>1 DEF CodecFormat
    <3>3. unread = 0
      BY <1>4, <1>6
    <3> QED
      BY <3>1, <3>2, <3>3
  <2>2. Switched' <=> Head(todo).packet = "SetCompression"
    BY <1>1, <1>6 DEF Switched
  <2>3. compression' = Switched'
    BY <1>2, <1>4, <2>1, <2>2
  <2>4. \A i \in 1..Len(inbox') : inbox'[i].format = CodecFormat'
    <3>1. CASE Head(todo).packet = "SetCompression"
      <4>1. Len(inbox') = 0
        BY <1>2, <3>1, EmptySeq
      <4> QED
        BY <4>1
    <3>2. CASE Head(todo).packet # "SetCompression"
      BY <1>2, <1>4, <2>1, <2>2, <2>3, <3>2 DEF CodecFormat
    <3> QED
      BY <3>1, <3>2
  <2>5. \A i \in 1..Len(sent') : /\ sent'[i].format = "compressed" <=> Switched' /\ i > 1
                                 /\ sent'[i].packet = "SetCompression" => i = 1
    BY <1>1, <1>6, <2>1
  <2>6. cformat' = IF Switched' /\ unread' < Len(sent') THEN "compressed" ELSE "plain"
    BY <1>1, <1>2, <1>3, <1>4, <1>6, <2>1
  <2> QED
    BY <1>1, <1>2, <1>3, <1>4, <1>6, <2>1, <2>3, <2>4, <2>5, <2>6 DEF WireAgrees
<1>7. CASE n # 0
  <2>1. Head(todo).packet # "SetCompression"
    BY <1>5, <1>7
  <2>2. Switched' = Switched
    <3>1. sent'[1] = sent[1]
      BY <1>1, <1>7
    <3> QED
      BY <1>1, <1>5, <1>7, <3>1 DEF Switched
  <2>3. compression' = compression /\ CodecFormat' = CodecFormat
    BY <1>2, <1>4, <2>1 DEF CodecFormat
  <2>4. \A i \in 1..Len(sent') : /\ sent'[i].format = "compressed" <=> Switched' /\ i > 1
                                 /\ sent'[i].packet = "SetCompression" => i = 1
    <3>1. CodecFormat = "compressed" <=> Switched
      BY <1>4 DEF CodecFormat
    <3> QED
      BY <1>1, <1>4, <1>7, <2>1, <2>2, <3>1
  <2>5. cformat' = IF Switched' /\ unread' < Len(sent') THEN "compressed" ELSE "plain"
    BY <1>1, <1>2, <1>3, <1>4, <2>2
  <2>6. unread' <= Len(sent')
    BY <1>1, <1>2, <1>4
  <2> QED
    BY <1>2, <1>3, <1>4, <2>2, <2>3, <2>4, <2>5, <2>6 DEF WireAgrees
<1> QED
  BY <1>6, <1>7

\* A send ends the position's `todo` or moves on to its next packet.
LEMMA SendInv ==
    ASSUME SessionInv, Send, UNCHANGED clientVars
    PROVE  WireAgrees' /\ (Running' => Position') /\ ConformingNotBlamed'
<1>1. UNCHANGED <<goal, name, stage, cformat>>
  BY DEF clientVars
<1>2. /\ Position /\ Running /\ todo # <<>>
      /\ sent' = Append(sent, SentUnder(Head(todo), CodecFormat))
      /\ unread' = unread + 1 /\ todo' = Tail(todo)
      /\ compression' = (compression \/ Head(todo).packet = "SetCompression")
      /\ outcome' = IF Tail(todo) = <<>> THEN AfterSends ELSE outcome
      /\ UNCHANGED <<config, current, status_request_seen, flow, inbox>>
  BY DEF SessionInv, Send
<1>3. UNCHANGED <<H, Q, P, L, Status, Announcement>>
  BY <1>1 DEF H, Q, P, L, Status, Announcement
<1>4. SessionTypeOK /\ WireAgrees
  BY DEF SessionInv
<1>5. \A p, a, format : /\ Pkt(p, a).packet = p /\ Pkt(p, a).arg = a
                        /\ SentUnder(Pkt(p, a), format) = Out(p, a, format)
  BY DEF Pkt, SentUnder, Out
<1>6. CASE AtPing
  <2>1. /\ Head(todo) = Pkt("StatusResponse", "") /\ Tail(todo) = <<>> /\ sent = <<>>
    BY <1>2, <1>6, ShortSequences DEF AtPing
  <2>2. CodecFormat = "plain"
    BY <1>4, <2>1, PlainAtFirst
  <2>3. sent' = <<Status>> /\ todo' = <<>> /\ outcome' = "running"
    <3>1. SentUnder(Head(todo), CodecFormat) = Status
      BY <1>5, <2>1, <2>2 DEF Status
    <3>2. Append(<<>>, Status) = <<Status>>
      BY ShortSequences
    <3>3. outcome' = "running"
      BY <1>2, <1>6, <2>1 DEF AtPing, AfterSends
    <3> QED
      BY <1>2, <2>1, <3>1, <3>2, <3>3
  <2>4. WireAgrees'
    <3>1. Head(todo).packet = "StatusResponse"
      BY <1>5, <2>1, Zenon
    <3>2. Head(todo).packet # "SetCompression"
      BY <3>1
    <3> QED
      BY <1>4, <3>2, SendWire
  <2>5. AtPing'
    BY <1>1, <1>2, <1>3, <1>6, <2>3 DEF AtPing
  <2> QED
    BY <2>3, <2>4, <2>5 DEF Position, ConformingNotBlamed
<1>7. CASE AtPong
  <2>1. Head(todo) = Pkt("PongResponse", "payload") /\ Tail(todo) = <<>>
    BY <1>7, ShortSequences DEF AtPong
  <2>2. outcome' = "Ok"
    BY <1>2, <1>7, <2>1 DEF AtPong, AfterSends
  <2>3. WireAgrees'
    <3>1. Head(todo).packet # "SetCompression"
      BY <2>1 DEF Pkt
    <3> QED
      BY <1>4, <3>1, SendWire
  <2> QED
    BY <2>2, <2>3 DEF Running, ConformingNotBlamed
<1>8. CASE AtRejection
  <2>1. Head(todo) = Pkt("LoginDisconnect", "") /\ Tail(todo) = <<>>
    BY <1>8, ShortSequences DEF AtRejection
  <2>2. outcome' = "InvalidUsername"
    BY <1>2, <1>8, <2>1 DEF AtRejection, AfterSends
  <2>3. WireAgrees'
    <3>1. Head(todo).packet = "LoginDisconnect"
      BY <1>5, <2>1, Zenon
    <3>2. Head(todo).packet # "SetCompression"
      BY <3>1
    <3> QED
      BY <1>4, <3>2, SendWire
  <2> QED
    BY <1>1, <1>8, <2>2, <2>3 DEF AtRejection, Running, ConformingNotBlamed
<1>9. CASE AtReply
  <2>1. CASE /\ todo = <<Pkt("SetCompression", ""), Pkt("LoginSuccess", name)>>
             /\ sent = <<>> /\ config.compression
    <3>1. Head(todo) = Pkt("SetCompression", "") /\ Tail(todo) = <<Pkt("LoginSuccess", name)>>
      <4> DEFINE a == Pkt("SetCompression", "")
                 b == Pkt("LoginSuccess", name)
      <4>1. Head(<<a, b>>) = a /\ Tail(<<a, b>>) = <<b>>
        BY ShortSequences
      <4> QED
        BY <2>1, <4>1
    <3>2. CodecFormat = "plain"
      BY <1>4, <2>1, PlainAtFirst
    <3>3. sent' = <<Announcement>>
      <4>1. SentUnder(Head(todo), CodecFormat) = Announcement
        BY <1>5, <3>1, <3>2 DEF Announcement
      <4>2. Append(<<>>, Announcement) = <<Announcement>>
        BY ShortSequences
      <4> QED
        BY <1>2, <2>1, <4>1, <4>2
    <3>4. outcome' = "running"
      BY <1>2, <3>1, ShortSequences DEF Running
    <3>5. WireAgrees'
      BY <1>4, <1>9, <2>1, SendWire DEF AtReply
    <3>6. AtReply'
      BY <1>1, <1>2, <1>3, <1>9, <2>1, <3>1, <3>3 DEF AtReply
    <3> QED
      BY <3>4, <3>5, <3>6 DEF Position, ConformingNotBlamed
  <2>2. CASE /\ todo = <<Pkt("LoginSuccess", name)>>
             /\ sent = (IF config.compression THEN <<Announcement>> ELSE <<>>)
    <3>1. Head(todo) = Pkt("LoginSuccess", name) /\ Tail(todo) = <<>>
      BY <2>2, ShortSequences
    <3>2. UNCHANGED <<CodecFormat, Success>>
      <4>1. Head(todo).packet # "SetCompression"
        BY <3>1 DEF Pkt
      <4>2. compression' = compression
        BY <1>2, <1>4, <4>1 DEF SessionTypeOK, TypeOK
      <4> QED
        BY <1>1, <4>2 DEF CodecFormat, Success
    <3>3. sent' = Append(sent, Success)
      BY <1>2, <1>5, <3>1 DEF Success
    <3>4. LoggedIn'
      BY <1>2, <1>3, <2>2, <3>2, <3>3, ShortSequences DEF LoggedIn
    <3>5. outcome' = "running"
      BY <1>2, <1>9, <3>1 DEF AtReply, AfterSends
    <3>6. WireAgrees'
      <4>1. Head(todo).packet # "SetCompression"
        BY <3>1 DEF Pkt
      <4> QED
        BY <1>4, <4>1, SendWire
    <3>7. unread' > 0
      BY <1>2, <1>4, BoundsAssumption DEF SessionTypeOK, TypeOK
    <3>8. AtAcknowledgement'
      BY <1>1, <1>2, <1>9, <3>1, <3>4, <3>7 DEF AtReply, AtAcknowledgement
    <3> QED
      BY <3>5, <3>6, <3>8 DEF Position, ConformingNotBlamed
  <2> QED
    BY <1>9, <2>1, <2>2 DEF AtReply
<1>10. ~AtHandshake /\ ~AtRequest /\ ~AtLogin /\ ~AtAcknowledgement /\ ~AtConfiguration
  BY <1>2 DEF AtHandshake, AtRequest, AtLogin, AtAcknowledgement, AtConfiguration, Fresh
<1> QED
  BY <1>2, <1>6, <1>7, <1>8, <1>9, <1>10 DEF Position

\* When the exchange ends on the server's side it is the transport's doing, or
\* a status document that cannot be encoded.
LEMMA EndInv ==
    ASSUME SessionInv, SendFails \/ ReadTimeout \/ ReadEof \/ ReadError, UNCHANGED clientVars
    PROVE  WireAgrees' /\ ~Running' /\ ConformingNotBlamed'
<1>1. UNCHANGED <<goal, name, stage, cformat, config, compression, sent, inbox, unread>>
  BY DEF clientVars, SendFails, ReadTimeout, ReadEof, ReadError, ReadEnds
<1>2. WireAgrees'
  BY <1>1 DEF SessionInv, WireAgrees, Switched, CodecFormat
<1>3. CASE SendFails /\ ~Encodable(Head(todo))
  <2>1. Position /\ todo # <<>> /\ outcome' = "Protocol"
    BY <1>3 DEF SendFails, SessionInv
  <2>2. Head(todo).packet = "StatusResponse" /\ ~config.statusFits
    BY <1>3 DEF Encodable
  <2>3. goal = "Status"
    <3>1. CASE AtRejection
      <4>1. \A p, a : Head(<<Pkt(p, a)>>).packet = p
        BY ShortSequences DEF Pkt
      <4>2. Head(todo).packet = "LoginDisconnect"
        BY <3>1, <4>1, Zenon DEF AtRejection
      <4> QED
        BY <2>2, <4>2
    <3>2. CASE AtReply
      <4> DEFINE a == Pkt("SetCompression", "")
                 b == Pkt("LoginSuccess", name)
      <4>1. Head(<<a, b>>) = a /\ Head(<<b>>) = b
        BY ShortSequences
      <4>2. a.packet # "StatusResponse" /\ b.packet # "StatusResponse"
        BY DEF Pkt
      <4> HIDE DEF a, b
      <4>3. todo = <<a, b>> \/ todo = <<b>>
        BY <3>2 DEF AtReply, a, b
      <4> QED
        BY <2>2, <4>1, <4>2, <4>3
    <3> QED
      BY <2>1, <3>1, <3>2 DEF Position, AtHandshake, AtRequest, AtLogin, AtPing, AtPong,
         AtAcknowledgement, AtConfiguration, Fresh
  <2> QED
    BY <1>1, <1>2, <2>1, <2>2, <2>3 DEF ConformingNotBlamed, Running
<1>4. CASE (SendFails /\ Encodable(Head(todo))) \/ ReadTimeout \/ ReadEof \/ ReadError
  <2>1. outcome' \in {"Io", "Timeout", "Ok"}
    BY <1>4 DEF SendFails, ReadTimeout, ReadEof, ReadError, ReadEnds
  <2> QED
    BY <1>2, <2>1 DEF ConformingNotBlamed, Running, is_transport_noise
<1> QED
  BY <1>3, <1>4

\* A frame in the codec's format that joins the inbox leaves both ends agreed.
LEMMA AppendWire ==
    ASSUME SessionInv, NEW from, NEW to, NEW id, NEW kind, NEW arg,
           Sends(from, to, id, kind, arg), cformat = CodecFormat, to # "confused"
    PROVE  WireAgrees'
<1> DEFINE f == ClientFrame(cformat, id, kind, arg)
           n == Len(inbox)
<1>1. /\ inbox' = Append(inbox, f) /\ stage' = to
      /\ UNCHANGED <<cformat, compression, sent, unread>>
  BY DEF Sends, PeerSend, serverVars
<1>2. f.format = CodecFormat /\ inbox \in Seq(Frames)
  BY DEF ClientFrame, SessionInv, SessionTypeOK, TypeOK
<1> HIDE DEF f
<1>3. /\ n \in Nat /\ Len(inbox') = n + 1 /\ inbox'[n + 1] = f
      /\ \A i \in 1..n : inbox'[i] = inbox[i]
  BY <1>1, <1>2
<1>4. \A i \in 1..n : inbox[i].format = CodecFormat
  BY DEF SessionInv, WireAgrees
<1>5. \A i \in 1..Len(inbox') : inbox'[i].format = CodecFormat
  BY <1>2, <1>3, <1>4
<1> QED
  BY <1>1, <1>5 DEF SessionInv, WireAgrees, Switched, CodecFormat

\* What the client sends the position allows for.
LEMMA ClientSendInv ==
    ASSUME SessionInv,
           ClientHandshake \/ ClientStatusRequest \/ ClientPing \/ ClientLoginStart
               \/ ClientAcknowledge
    PROVE  WireAgrees' /\ Position' /\ UNCHANGED <<outcome, config>>
<1>1. ASSUME NEW from, NEW to, NEW id, NEW kind, NEW arg, Sends(from, to, id, kind, arg)
      PROVE  /\ stage \in from /\ stage' = to /\ Running
             /\ inbox' = Append(inbox, ClientFrame(cformat, id, kind, arg))
             /\ UNCHANGED <<goal, name, cformat, config, current, status_request_seen,
                            compression, todo, flow, outcome, sent, unread>>
             /\ UNCHANGED <<H, Q, P, L, K, Success, CodecFormat, LoggedIn, Fresh>>
  <2>1. /\ stage \in from /\ stage' = to /\ Running
        /\ inbox' = Append(inbox, ClientFrame(cformat, id, kind, arg))
        /\ UNCHANGED <<goal, name, cformat, config, current, status_request_seen,
                       compression, todo, flow, outcome, sent, unread>>
    BY <1>1 DEF Sends, PeerSend, serverVars
  <2>2. UNCHANGED <<H, Q, P, L, K, Success, CodecFormat, LoggedIn, Fresh>>
    BY <2>1 DEF H, Q, P, L, K, Success, CodecFormat, LoggedIn, Fresh
  <2> QED
    BY <2>1, <2>2
<1>2. WireAgrees /\ (Running => Position)
  BY DEF SessionInv
<1>3. /\ AtHandshake \/ AtRequest \/ AtLogin => sent = <<>>
      /\ AtPing => sent = <<>> \/ sent = <<Status>>
  BY DEF AtHandshake, AtRequest, AtLogin, AtPing, Fresh
<1>4. AtHandshake \/ AtRequest \/ AtLogin \/ AtPing => cformat = "plain" /\ CodecFormat = "plain"
  BY <1>2, <1>3, PlainAtFirst
<1>5. CASE ClientHandshake
  <2>1. Sends({"start"}, "greeted", HandshakeId, "Handshake", goal)
    BY <1>5 DEF ClientHandshake
  <2>2. Running /\ stage = "start" /\ stage' = "greeted"
    BY <1>1, <2>1
  <2>3. AtHandshake /\ inbox = <<>>
    BY <1>2, <2>2
    DEF Position, AtHandshake, AtRequest, AtLogin, AtPing, AtPong, AtRejection, AtReply,
        AtAcknowledgement, AtConfiguration
  <2>4. inbox' = Append(<<>>, H)
    BY <1>1, <1>4, <2>1, <2>3 DEF H
  <2>5. inbox' = <<H>>
    BY <2>4, ShortSequences
  <2>6. AtHandshake'
    BY <1>1, <2>1, <2>2, <2>3, <2>5 DEF AtHandshake
  <2> QED
    BY <1>1, <1>4, <2>1, <2>3, <2>6, AppendWire DEF Position
<1>6. CASE ClientLoginStart
  <2>1. Sends({"greeted"}, "waiting", LoginStartId, "LoginStart", name) /\ goal # "Status"
    BY <1>6 DEF ClientLoginStart
  <2>2. Running /\ stage = "greeted" /\ stage' = "waiting"
    BY <1>1, <2>1
  <2>3. (AtHandshake /\ inbox = <<H>>) \/ (AtLogin /\ inbox = <<>>)
    BY <1>2, <2>1, <2>2
    DEF Position, AtHandshake, AtRequest, AtLogin, AtPing, AtPong, AtRejection, AtReply,
        AtAcknowledgement, AtConfiguration
  <2>4. inbox' = Append(inbox, L)
    BY <1>1, <1>4, <2>1, <2>3 DEF L
  <2>5. Append(<<>>, L) = <<L>> /\ Append(<<H>>, L) = <<H, L>>
    BY ShortSequences
  <2>6. AtHandshake' \/ AtLogin'
    BY <1>1, <2>1, <2>2, <2>3, <2>4, <2>5 DEF AtHandshake, AtLogin
  <2> QED
    BY <1>1, <1>4, <2>1, <2>3, <2>6, AppendWire DEF Position
<1>7. CASE ClientStatusRequest
  <2>1. Sends({"greeted"}, "asked", StatusRequestId, "Empty", "") /\ goal = "Status"
    BY <1>7, Zenon DEF ClientStatusRequest
  <2>2. PICK kind, arg : /\ Sends({"greeted"}, "asked", StatusRequestId, kind, arg)
                         /\ ClientFrame("plain", StatusRequestId, kind, arg) = Q
                         /\ goal = "Status"
    BY <2>1, Zenon DEF Q
  <2>3. Running /\ stage = "greeted" /\ stage' = "asked" /\ goal = "Status"
    BY <1>1, <2>2
  <2>4. (AtHandshake /\ inbox = <<H>>) \/ (AtRequest /\ inbox = <<>>)
    BY <1>2, <2>3
    DEF Position, AtHandshake, AtRequest, AtLogin, AtPing, AtPong, AtRejection, AtReply,
        AtAcknowledgement, AtConfiguration
  <2>5. inbox' = Append(inbox, Q)
    BY <1>1, <1>4, <2>2, <2>4
  <2>6. Append(<<>>, Q) = <<Q>> /\ Append(<<H>>, Q) = <<H, Q>>
    BY ShortSequences
  <2>7. AtHandshake' \/ AtRequest'
    BY <1>1, <2>2, <2>3, <2>4, <2>5, <2>6 DEF AtHandshake, AtRequest
  <2> QED
    BY <1>1, <1>4, <2>2, <2>4, <2>7, AppendWire DEF Position
<1>8. CASE ClientPing
  <2>1. /\ Sends({"greeted", "asked"}, "pinged", PingRequestId, "PingRequest", "payload")
        /\ goal = "Status"
    BY <1>8 DEF ClientPing
  <2>2. Running /\ stage \in {"greeted", "asked"} /\ stage' = "pinged"
    BY <1>1, <2>1
  <2>3. \/ AtHandshake /\ inbox = <<H>>
        \/ AtHandshake /\ inbox = <<H, Q>>
        \/ AtRequest /\ inbox = <<>>
        \/ AtRequest /\ inbox = <<Q>>
        \/ AtPing /\ inbox = <<>>
    BY <1>2, <2>1, <2>2
    DEF Position, AtHandshake, AtRequest, AtLogin, AtPing, AtPong, AtRejection, AtReply,
        AtAcknowledgement, AtConfiguration
  <2>4. inbox' = Append(inbox, P)
    BY <1>1, <1>4, <2>1, <2>3 DEF P
  <2>5. Append(<<H>>, P) = <<H, P>> /\ Append(<<H, Q>>, P) = <<H, Q, P>>
    <3>1. Append(<<H>>, P) = <<H, P>>
      BY ShortSequences
    <3>2. Append(<<H, Q>>, P) = <<H, Q, P>>
      BY AppendThird
    <3> QED
      BY <3>1, <3>2
  <2>6. Append(<<>>, P) = <<P>> /\ Append(<<Q>>, P) = <<Q, P>>
    BY ShortSequences
  <2>7. CASE AtHandshake
    <3>1. AtHandshake'
      BY <1>1, <2>1, <2>2, <2>3, <2>4, <2>5, <2>6, <2>7 DEF AtHandshake, AtRequest, AtPing
    <3> QED
      BY <1>1, <1>4, <2>1, <2>7, <3>1, AppendWire DEF Position
  <2>8. CASE AtRequest
    <3>1. AtRequest'
      BY <1>1, <2>1, <2>2, <2>3, <2>4, <2>6, <2>8 DEF AtHandshake, AtRequest, AtPing, Fresh
    <3> QED
      BY <1>1, <1>4, <2>1, <2>8, <3>1, AppendWire DEF Position
  <2>9. CASE AtPing /\ inbox = <<>>
    <3>1. AtPing'
      BY <1>1, <2>1, <2>2, <2>4, <2>6, <2>9 DEF AtPing, Status
    <3> QED
      BY <1>1, <1>4, <2>1, <2>9, <3>1, AppendWire DEF Position
  <2> QED
    BY <2>3, <2>7, <2>8, <2>9
<1>9. CASE ClientAcknowledge
  <2>1. PICK kind, arg :
           /\ Sends({"succeeded"}, "acknowledged", LoginAcknowledgedId, kind, arg)
           /\ ClientFrame(CodecFormat, LoginAcknowledgedId, kind, arg) = K
    BY <1>9, Zenon DEF ClientAcknowledge, K
  <2>2. Running /\ stage = "succeeded" /\ stage' = "acknowledged"
    BY <1>1, <2>1
  <2>3. AtAcknowledgement /\ inbox = <<>> /\ unread = 0
    BY <1>2, <2>2
    DEF Position, AtHandshake, AtRequest, AtLogin, AtPing, AtPong, AtRejection, AtReply,
        AtAcknowledgement, AtConfiguration
  <2>4. cformat = CodecFormat
    <3>1. sent # <<>> /\ Len(sent) > 0
      BY <2>3, ShortSequences DEF AtAcknowledgement, LoggedIn
    <3> QED
      BY <1>2, <2>3, <3>1 DEF WireAgrees, CodecFormat
  <2>5. inbox' = <<K>>
    BY <1>1, <2>1, <2>3, <2>4, ShortSequences
  <2>6. AtAcknowledgement'
    BY <1>1, <2>1, <2>2, <2>3, <2>5 DEF AtAcknowledgement
  <2> QED
    BY <1>1, <2>1, <2>4, <2>6, AppendWire DEF Position
<1> QED
  BY <1>5, <1>6, <1>7, <1>8, <1>9

\* A client that reads finds the format it expects, and learns of the login
\* only from the frame that ends it.
LEMMA ClientReadInv ==
    ASSUME SessionInv, ClientRead
    PROVE  WireAgrees' /\ (Running => Position') /\ UNCHANGED <<outcome, config>>
<1> DEFINE n == Len(sent)
           k == n - unread + 1
<1>1. /\ unread > 0 /\ unread' = unread - 1
      /\ UNCHANGED <<goal, name, config, current, status_request_seen, compression, todo,
                     flow, outcome, sent, inbox>>
  BY DEF ClientRead, PeerRead, serverVars
<1>2. /\ cformat' = IF sent[k].packet = "SetCompression" THEN "compressed" ELSE cformat
      /\ sent[k].format = cformat =>
            stage' = CASE sent[k].packet = "LoginSuccess" -> "succeeded"
                       [] sent[k].packet = "LoginDisconnect" -> "rejected"
                       [] sent[k].packet = "PongResponse" -> "ponged"
                       [] OTHER -> stage
  BY DEF ClientRead
<1>3. /\ compression = Switched /\ unread <= n /\ stage # "confused"
      /\ \A i \in 1..n : /\ sent[i].format = "compressed" <=> Switched /\ i > 1
                         /\ sent[i].packet = "SetCompression" => i = 1
      /\ cformat = IF Switched /\ unread < n THEN "compressed" ELSE "plain"
      /\ \A i \in 1..Len(inbox) : inbox[i].format = CodecFormat
  BY DEF SessionInv, WireAgrees
<1>4. unread \in Nat /\ n \in Nat /\ sent \in Seq(Sent)
  BY BoundsAssumption DEF SessionInv, SessionTypeOK, TypeOK
<1>5. k \in 1..n
  BY <1>1, <1>3, <1>4
<1>6. sent[k].format \in {"plain", "compressed"}
  <2>1. sent[k] \in Sent
    BY <1>4, <1>5, ElementOfSeq
  <2> QED
    BY <2>1 DEF Sent, Format
<1>7. unread < n <=> k > 1
  BY <1>4
<1> HIDE DEF k
<1>8. sent[k].format = cformat
  BY <1>3, <1>5, <1>6, <1>7
<1>9. stage' # "confused"
  BY <1>2, <1>3, <1>8
<1>10. UNCHANGED <<Switched, CodecFormat>>
  BY <1>1 DEF Switched, CodecFormat
<1>11. cformat' = IF Switched /\ unread' < n THEN "compressed" ELSE "plain"
  <2>1. CASE sent[k].packet = "SetCompression"
    <3>1. k = 1 /\ n >= 1
      BY <1>3, <1>4, <1>5, <2>1
    <3>2. Switched
      BY <1>4, <2>1, <3>1, EmptySeq DEF Switched
    <3>3. unread' < n
      BY <1>1, <1>3, <1>4
    <3> QED
      BY <1>2, <2>1, <3>2, <3>3
  <2>2. CASE sent[k].packet # "SetCompression"
    <3>1. Switched => k # 1
      BY <2>2 DEF Switched
    <3>2. Switched => unread < n
      BY <1>4, <1>5, <1>7, <3>1
    <3>3. unread' < n
      BY <1>1, <1>3, <1>4
    <3> QED
      BY <1>2, <1>3, <2>2, <3>2, <3>3
  <2> QED
    BY <2>1, <2>2
<1>12. WireAgrees'
  <2>1. unread' <= n
    BY <1>1, <1>3, <1>4
  <2> QED
    BY <1>1, <1>3, <1>9, <1>10, <1>11, <2>1 DEF WireAgrees
<1>13. ASSUME Running PROVE Position'
  <2>1. Position
    BY <1>13 DEF SessionInv
  <2>2. UNCHANGED <<H, Q, P, L, K, Status, Announcement, Success, LoggedIn>>
    BY <1>1, <1>10 DEF H, Q, P, L, K, Status, Announcement, Success, LoggedIn
  <2>3. sent # <<>>
    BY <1>1, <1>3, <1>4, EmptySeq
  <2>4. /\ Status.packet = "StatusResponse" /\ Announcement.packet = "SetCompression"
        /\ Success.packet = "LoginSuccess"
    BY DEF Status, Announcement, Success, Out
  <2>5. \A x, y : /\ Len(<<x>>) = 1 /\ <<x>>[1] = x /\ Len(<<x, y>>) = 2
                  /\ <<x, y>>[1] = x /\ <<x, y>>[2] = y
    OBVIOUS
  <2>6. CASE AtPing
    <3>1. sent = <<Status>>
      BY <2>3, <2>6 DEF AtPing
    <3>2. sent[k] = Status
      BY <1>5, <2>5, <3>1
    <3>3. stage' = stage
      BY <1>2, <1>8, <2>4, <3>2
    <3>4. AtPing'
      BY <1>1, <2>2, <2>6, <3>3 DEF AtPing
    <3> QED
      BY <3>4 DEF Position
  <2>7. CASE AtPong
    <3>1. sent = <<Status>>
      BY <2>3, <2>7 DEF AtPong
    <3>2. sent[k] = Status
      BY <1>5, <2>5, <3>1
    <3>3. stage' = stage
      BY <1>2, <1>8, <2>4, <3>2
    <3>4. AtPong'
      BY <1>1, <2>2, <2>7, <3>3 DEF AtPong
    <3> QED
      BY <3>4 DEF Position
  <2>8. CASE AtReply
    <3>1. sent = <<Announcement>>
      BY <2>3, <2>8 DEF AtReply
    <3>2. sent[k] = Announcement
      BY <1>5, <2>5, <3>1
    <3>3. stage' = stage
      BY <1>2, <1>8, <2>4, <3>2
    <3>4. AtReply'
      BY <1>1, <2>2, <2>8, <3>3 DEF AtReply
    <3> QED
      BY <3>4 DEF Position
  <2>9. CASE AtAcknowledgement
    <3>1. stage = "waiting" /\ inbox = <<>>
      BY <1>1, <2>9 DEF AtAcknowledgement
    <3>2. sent = <<Announcement, Success>> \/ sent = <<Success>>
      BY <2>9 DEF AtAcknowledgement, LoggedIn
    <3>3. \/ sent[k] = Announcement /\ unread = 2
          \/ sent[k] = Success /\ unread = 1
      <4>1. CASE sent = <<Success>>
        BY <1>1, <1>4, <1>5, <2>5, <4>1 DEF k
      <4>2. CASE sent = <<Announcement, Success>>
        <5>1. n = 2 /\ sent[1] = Announcement /\ sent[2] = Success
          BY <2>5, <4>2
        <5>2. (k = 1 /\ unread = 2) \/ (k = 2 /\ unread = 1)
          BY <1>1, <1>4, <1>5, <5>1 DEF k
        <5> QED
          BY <5>1, <5>2
      <4> QED
        BY <3>2, <4>1, <4>2
    <3>4. CASE sent[k] = Announcement /\ unread = 2
      <4>1. stage' = stage /\ unread' > 0
        BY <1>1, <1>2, <1>8, <2>4, <3>4
      <4>2. AtAcknowledgement'
        BY <1>1, <2>2, <2>9, <3>1, <4>1 DEF AtAcknowledgement
      <4> QED
        BY <4>2 DEF Position
    <3>5. CASE sent[k] = Success /\ unread = 1
      <4>1. stage' = "succeeded" /\ unread' = 0
        BY <1>1, <1>2, <1>8, <2>4, <3>5
      <4>2. AtAcknowledgement'
        BY <1>1, <2>2, <2>9, <3>1, <4>1 DEF AtAcknowledgement
      <4> QED
        BY <4>2 DEF Position
    <3> QED
      BY <3>3, <3>4, <3>5
  <2>10. ~AtHandshake /\ ~AtRequest /\ ~AtLogin /\ ~AtRejection /\ ~AtConfiguration
    <3>1. AtHandshake \/ AtRequest \/ AtLogin => sent = <<>>
      BY DEF AtHandshake, AtRequest, AtLogin, Fresh
    <3>2. (AtRejection => sent = <<>>) /\ (AtConfiguration => unread = 0)
      BY DEF AtRejection, AtConfiguration
    <3> QED
      BY <1>1, <2>3, <3>1, <3>2
  <2> QED
    BY <2>1, <2>6, <2>7, <2>8, <2>9, <2>10 DEF Position
<1> QED
  BY <1>1, <1>12, <1>13

-----------------------------------------------------------------------------
(***************************************************************************)
(* The results.                                                            *)
(***************************************************************************)

\* The session starts in the first position.
LEMMA SessionInvInit == SessionInit => SessionInv
<1> SUFFICES ASSUME SessionInit PROVE SessionInv
  OBVIOUS
<1>1. SessionTypeOK
  BY TypeInit DEF SessionInit, SessionTypeOK, Stage, Format
<1>2. /\ compression = FALSE /\ sent = <<>> /\ inbox = <<>> /\ unread = 0 /\ stage = "start"
      /\ cformat = "plain" /\ outcome = "running" /\ todo = <<>> /\ current = "Handshaking"
      /\ status_request_seen = FALSE
  BY DEF SessionInit, Init
<1>3. WireAgrees
  <2>1. Len(sent) = 0 /\ Len(inbox) = 0 /\ ~Switched
    BY <1>2 DEF Switched
  <2>2. \A i \in 1..0 : FALSE
    OBVIOUS
  <2>3. compression = Switched
    BY <1>2 DEF Switched
  <2>4. /\ \A i \in 1..Len(sent) : FALSE
        /\ \A i \in 1..Len(inbox) : FALSE
        /\ unread <= Len(sent)
    BY <1>2, <2>1, <2>2
  <2> QED
    BY <1>2, <2>1, <2>3, <2>4 DEF WireAgrees
<1>4. AtHandshake
  BY <1>2 DEF AtHandshake, Fresh
<1> QED
  BY <1>1, <1>2, <1>3, <1>4 DEF SessionInv, Position, ConformingNotBlamed

\* Every step of the server or the client preserves the invariant.
LEMMA SessionInvNext == SessionInv /\ [SessionNext]_allVars => SessionInv'
<1> SUFFICES ASSUME SessionInv, [SessionNext]_allVars PROVE SessionInv'
  OBVIOUS
<1>0. ASSUME UNCHANGED <<config, serverVars, inbox, unread, clientVars>>
      PROVE  /\ WireAgrees' = WireAgrees /\ Running' = Running
             /\ Position => Position'
             /\ ConformingNotBlamed'
  <2>1. (WireAgrees' = WireAgrees) /\ (Running' = Running)
    BY <1>0 DEF serverVars, clientVars, WireAgrees, Switched, CodecFormat, Running
  <2>2. Position => Position'
    BY <1>0
    DEF serverVars, clientVars, CodecFormat, Position, AtHandshake, AtRequest, AtLogin,
        AtPing, AtPong, AtRejection, AtReply, AtAcknowledgement, AtConfiguration, Fresh,
        LoggedIn, H, Q, P, L, K, Status, Announcement, Success
  <2>3. ConformingNotBlamed'
    BY <1>0 DEF serverVars, clientVars, SessionInv, ConformingNotBlamed
  <2> QED
    BY <2>1, <2>2, <2>3
<1>1. CASE UNCHANGED allVars
  <2>1. UNCHANGED <<config, serverVars, inbox, unread, clientVars>>
    BY <1>1 DEF allVars, vars
  <2>2. SessionTypeOK'
    <3>1. TypeOK'
      BY <1>1, TypeNext DEF allVars, SessionInv, SessionTypeOK
    <3> QED
      BY <2>1, <3>1 DEF clientVars, SessionInv, SessionTypeOK
  <2> QED
    BY <1>0, <2>1, <2>2 DEF SessionInv
<1>2. CASE SessionNext
  <2>1. SessionTypeOK' /\ UNCHANGED <<goal, name>>
    BY <1>2, SessionSteps, SessionTypes DEF SessionInv
  <2>2. ASSUME UNCHANGED <<outcome, config>> PROVE ConformingNotBlamed'
    BY <2>1, <2>2 DEF SessionInv, ConformingNotBlamed
  <2>3. CASE Handle /\ UNCHANGED clientVars
    BY <2>1, <2>2, <2>3, HandleInv DEF SessionInv
  <2>4. CASE Send /\ UNCHANGED clientVars
    BY <2>1, <2>4, SendInv DEF SessionInv
  <2>5. CASE (SendFails \/ ReadTimeout \/ ReadEof \/ ReadError) /\ UNCHANGED clientVars
    BY <2>1, <2>5, EndInv DEF SessionInv
  <2>6. CASE \/ ClientHandshake \/ ClientStatusRequest \/ ClientPing \/ ClientLoginStart
             \/ ClientAcknowledge
    BY <2>1, <2>2, <2>6, ClientSendInv DEF SessionInv
  <2>7. CASE ClientRead
    BY <2>1, <2>2, <2>7, ClientReadInv DEF SessionInv, Running
  <2>8. CASE ClientLeaves \/ ClientDelays
    <3>1. UNCHANGED <<config, serverVars, inbox, unread, clientVars>>
      BY <2>8 DEF ClientLeaves, ClientDelays, PeerStops, PeerSendPart
    <3> QED
      BY <1>0, <2>1, <3>1 DEF SessionInv
  <2> QED
    BY <1>2, <2>3, <2>4, <2>5, <2>6, <2>7, <2>8
    DEF SessionNext, ServerActs, ServerNext, ClientActs
<1> QED
  BY <1>1, <1>2

\* The positions describe every reachable state of the session.
THEOREM SessionInductive == ClientSpec => []SessionInv
BY SessionInvInit, SessionInvNext, PTL DEF ClientSpec

\* Client and codec agree on the frame format at every frame, whatever the
\* client pipelines and however slowly it reads (handle_login_start).
THEOREM FormatsAlwaysAgree == ClientSpec => []FormatsAgree
<1>1. SessionInv => FormatsAgree
  <2> SUFFICES ASSUME SessionInv, inbox # <<>> PROVE Head(inbox).format = CodecFormat
    BY DEF SessionInv, WireAgrees, FormatsAgree
  <2>1. inbox \in Seq(Frames)
    BY DEF SessionInv, SessionTypeOK, TypeOK
  <2>2. 1 \in 1..Len(inbox) /\ Head(inbox) = inbox[1]
    BY <2>1, EmptySeq
  <2> QED
    BY <2>2 DEF SessionInv, WireAgrees
<1> QED
  BY <1>1, SessionInductive, PTL

\* No client that follows the protocol is closed with a warning, but for a
\* refused name or a status that cannot be encoded (Connection::run).
THEOREM ConformingAreNotBlamed == ClientSpec => []ConformingNotBlamed
<1>1. SessionInv => ConformingNotBlamed
  BY DEF SessionInv
<1> QED
  BY <1>1, SessionInductive, PTL

\* Once the acknowledgement is handled both ends are in Configuration, under
\* the client's name (handle_login_start, handle_login_acknowledged).
THEOREM BothReachConfiguration == ClientSpec => []BothConfigured
<1>1. SessionInv => BothConfigured
  <2> SUFFICES ASSUME SessionInv, stage = "acknowledged", Reading, inbox = <<>>
               PROVE  current = "Configuration" /\ sent[Len(sent)].arg = name
    BY DEF BothConfigured
  <2>1. AtConfiguration
    BY ShortSequences
    DEF SessionInv, Reading, Position, AtHandshake, AtRequest, AtLogin, AtPing, AtPong,
        AtRejection, AtReply, AtAcknowledgement
  <2>2. sent = <<Announcement, Success>> \/ sent = <<Success>>
    BY <2>1 DEF AtConfiguration, LoggedIn
  <2>3. \A x, y : /\ Len(<<x>>) = 1 /\ <<x>>[1] = x /\ Len(<<x, y>>) = 2 /\ <<x, y>>[2] = y
    OBVIOUS
  <2>4. Success.arg = name
    BY DEF Success, Out
  <2> QED
    BY <2>1, <2>2, <2>3, <2>4 DEF AtConfiguration
<1> QED
  BY <1>1, SessionInductive, PTL
=============================================================================
