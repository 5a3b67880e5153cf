-------------------------- MODULE ConnectionProofs --------------------------
(***************************************************************************)
(* Proofs about one connection, for any set of frames the peer may send,   *)
(* any set of valid names, any number of frames and any capacity of the    *)
(* transport.                                                              *)
(***************************************************************************)
EXTENDS Connection, SequenceTheorems, TLAPS

-----------------------------------------------------------------------------
(***************************************************************************)
(* Type correctness.                                                       *)
(***************************************************************************)

\* A fresh connection is well typed.
LEMMA TypeInit == Init => TypeOK
<1> SUFFICES ASSUME Init PROVE TypeOK
  OBVIOUS
<1>1. unread \in 0..SendCapacity
  BY BoundsAssumption DEF Init
<1>2. todo \in Seq(Packet) /\ inbox \in Seq(Frames) /\ sent \in Seq(Sent) /\ consumed \in Seq(Frames)
  BY EmptySeq DEF Init
<1>3. status_request_seen \in BOOLEAN /\ compression \in BOOLEAN /\ partial \in BOOLEAN
  BY DEF Init
<1> QED
  BY <1>1, <1>2, <1>3 DEF Init, TypeOK, State, NetError

\* The frame that is dispatched leaves the inbox for the history, and the
\* handler acts on one of Args.
LEMMA TakeFrame ==
    ASSUME TypeOK, inbox # <<>>
    PROVE  /\ Head(inbox) \in Frames
           /\ Tail(inbox) \in Seq(Frames)
           /\ Append(consumed, Head(inbox)) \in Seq(Frames)
           /\ DecodedBody(Head(inbox)).arg \in Args
<1>1. inbox \in Seq(Frames) /\ consumed \in Seq(Frames)
  BY DEF TypeOK
<1>2. Head(inbox) \in Frames /\ Tail(inbox) \in Seq(Frames)
  BY <1>1, HeadTailProperties
<1>3. Append(consumed, Head(inbox)) \in Seq(Frames)
  BY <1>1, <1>2, AppendProperties
<1>4. Head(inbox) \in Frame
  BY <1>2, FramesAssumption
<1>5. DecodedBody(Head(inbox)).arg \in Args
  <2>1. Head(inbox).body \in Body /\ Misread.arg \in Args
    BY <1>4, FramesAssumption DEF Misread, Frame
  <2>2. Head(inbox).body.arg \in Args
    BY <2>1 DEF Body
  <2> QED
    BY <2>1, <2>2 DEF DecodedBody
<1> QED
  BY <1>2, <1>3, <1>5

\* The answers of the handlers are sequences of packets.
LEMMA RepliesTyped ==
    ASSUME NEW arg \in Args
    PROVE  /\ <<Pkt("StatusResponse", "")>> \in Seq(Packet)
           /\ <<Pkt("PongResponse", arg)>> \in Seq(Packet)
           /\ <<Pkt("LoginDisconnect", "")>> \in Seq(Packet)
           /\ LoginReplies(arg) \in Seq(Packet)
<1>1. ASSUME NEW p \in Clientbound, NEW a \in Args PROVE Pkt(p, a) \in Packet
  BY <1>1 DEF Pkt, Packet
<1>2. /\ Pkt("StatusResponse", "") \in Packet /\ Pkt("PongResponse", arg) \in Packet
      /\ Pkt("LoginDisconnect", "") \in Packet /\ Pkt("SetCompression", "") \in Packet
      /\ Pkt("LoginSuccess", arg) \in Packet
  BY <1>1, FramesAssumption DEF Clientbound
<1>3. \A p, q \in Packet : <<p>> \in Seq(Packet) /\ <<p, q>> \in Seq(Packet)
  OBVIOUS
<1> QED
  BY <1>2, <1>3 DEF LoginReplies

\* Every step keeps the state well typed.
LEMMA TypeNext == TypeOK /\ [Next]_vars => TypeOK'
<1> SUFFICES ASSUME TypeOK, [Next]_vars PROVE TypeOK'
  OBVIOUS
<1>1. ASSUME NEW state, NEW id, Dispatch(state, id)
      PROVE  /\ inbox # <<>> /\ Head(inbox) \in Frames
             /\ inbox' \in Seq(Frames) /\ consumed' \in Seq(Frames)
             /\ DecodedBody(Head(inbox)).arg \in Args
             /\ UNCHANGED <<config, compression, peerVars, unread, sent>>
  BY <1>1, TakeFrame DEF Dispatch
<1>2. ASSUME NEW to \in State, transition(to)
      PROVE  /\ current' \in State /\ outcome' \in NetError \cup {"running", "Ok"}
             /\ UNCHANGED <<status_request_seen, todo, flow>>
  BY <1>2 DEF transition, TypeOK, NetError
<1>3. ASSUME NEW error \in NetError, Fail(error)
      PROVE  /\ outcome' \in NetError \cup {"running", "Ok"}
             /\ UNCHANGED <<current, status_request_seen, todo, flow>>
  BY <1>3 DEF Fail
<1>4. CASE handle_handshake
  BY <1>1, <1>2, <1>3, <1>4 DEF handle_handshake, TypeOK, peerVars, State, NetError
<1>5. CASE handle_status_request
  BY <1>1, <1>3, <1>5, RepliesTyped
  DEF handle_status_request, Reply, TypeOK, peerVars, NetError
<1>6. CASE handle_ping
  BY <1>1, <1>3, <1>6, RepliesTyped DEF handle_ping, Reply, TypeOK, peerVars, NetError
<1>7. CASE handle_login_start
  BY <1>1, <1>3, <1>7, RepliesTyped DEF handle_login_start, Reply, TypeOK, peerVars, NetError
<1>8. CASE handle_login_acknowledged
  BY <1>1, <1>2, <1>8 DEF handle_login_acknowledged, TypeOK, peerVars, State
<1>9. CASE UnexpectedPacket
  BY <1>1, <1>3, <1>9 DEF UnexpectedPacket, TypeOK, peerVars, NetError
<1>10. CASE DecodeError
  BY <1>3, <1>10, TakeFrame DEF DecodeError, TypeOK, peerVars, NetError
<1>11. CASE Send
  <2>1. Head(todo) \in Packet /\ Tail(todo) \in Seq(Packet)
    BY <1>11, HeadTailProperties DEF Send, TypeOK
  <2>2. SentUnder(Head(todo), CodecFormat) \in Sent
    BY <2>1 DEF SentUnder, CodecFormat, Sent, Packet, Format
  <2>3. sent' \in Seq(Sent)
    BY <1>11, <2>2, AppendProperties DEF Send, TypeOK
  <2>4. unread' \in 0..SendCapacity
    BY <1>11, BoundsAssumption DEF Send, TransportTakes, TypeOK
  <2>5. compression' \in BOOLEAN
    BY <1>11 DEF Send
  <2>6. outcome' \in NetError \cup {"running", "Ok"}
    BY <1>11 DEF Send, AfterSends, TypeOK, NetError
  <2> QED
    BY <1>11, <2>1, <2>3, <2>4, <2>5, <2>6 DEF Send, TypeOK, peerVars
<1>12. CASE SendFails
  BY <1>12, EmptySeq DEF SendFails, TypeOK, peerVars, NetError
<1>13. CASE ReadTimeout \/ ReadEof \/ ReadError
  BY <1>13 DEF ReadTimeout, ReadEof, ReadError, ReadEnds, TypeOK, peerVars, NetError
<1>14. ASSUME NEW f \in Frames, PeerSend(f) PROVE TypeOK'
  BY <1>14, AppendProperties DEF PeerSend, TypeOK, serverVars
<1>15. CASE PeerSendPart \/ (\E how \in {"eof", "reset"} : PeerStops(how))
  BY <1>15 DEF PeerSendPart, PeerStops, TypeOK, serverVars
<1>16. CASE PeerRead
  BY <1>16, BoundsAssumption DEF PeerRead, TypeOK, serverVars, peerVars
<1>17. CASE UNCHANGED vars
  BY <1>17 DEF vars, TypeOK, serverVars, peerVars
<1> QED
  BY <1>4, <1>5, <1>6, <1>7, <1>8, <1>9, <1>10, <1>11, <1>12, <1>13, <1>14, <1>15, <1>16, <1>17
  DEF Next, ServerNext, PeerNext, Handle

-----------------------------------------------------------------------------
(***************************************************************************)
(* The inductive invariant.  Each property of the wire depends on what a   *)
(* suspended handler is still going to send and in which state, so the     *)
(* invariant says which sequences of sends are possible at all, and what   *)
(* has been sent before each.                                              *)
(***************************************************************************)
Said(packet) == \E i \in 1..Len(sent) : sent[i].packet = packet

\* A SetCompression is the last packet sent.
Announced == sent # <<>> /\ sent[Len(sent)].packet = "SetCompression"

AnsweringStatus ==
    /\ current = "Status" /\ flow = "Continue" /\ status_request_seen /\ sent = <<>>
    /\ todo = <<Pkt("StatusResponse", "")>>

AnsweringPing ==
    /\ current = "Status" /\ flow = "Close"
    /\ \E arg \in Args : todo = <<Pkt("PongResponse", arg)>>

RejectingName ==
    /\ current = "Login" /\ flow = "InvalidUsername" /\ ~Announced
    /\ todo = <<Pkt("LoginDisconnect", "")>>

AnnouncingCompression ==
    /\ current = "Login" /\ flow = "Continue" /\ config.compression /\ ~Announced
    /\ \E arg \in Args : todo = <<Pkt("SetCompression", ""), Pkt("LoginSuccess", arg)>>

AcceptingLogin ==
    /\ current = "Login" /\ flow = "Continue" /\ (Announced <=> config.compression)
    /\ \E arg \in Args : todo = <<Pkt("LoginSuccess", arg)>>

Waiting == todo = <<>> /\ ~Announced

Active ==
    \/ Waiting
    \/ AnsweringStatus
    \/ AnsweringPing
    \/ RejectingName
    \/ AnnouncingCompression
    \/ AcceptingLogin

NothingSaidYet ==
    /\ current = "Handshaking" => ~status_request_seen
    /\ current \in {"Handshaking", "Status"} /\ ~status_request_seen => sent = <<>>

IndInv ==
    /\ TypeOK
    /\ TransitionsAgree
    /\ NoiseIsTransport
    /\ SwitchPoint
    /\ LastWord
    /\ compression <=> Said("SetCompression")
    /\ Running => Active /\ NothingSaidYet

\* A fresh connection has said nothing.
LEMMA IndInit == Init => IndInv
<1> SUFFICES ASSUME Init PROVE IndInv
  OBVIOUS
<1>1. Len(sent) = 0 /\ sent = <<>>
  BY DEF Init
<1> QED
  BY <1>1, TypeInit
  DEF Init, IndInv, TransitionsAgree, NoiseIsTransport, is_transport_noise, SwitchPoint, LastWord,
      Said, Running, Active, Waiting, Announced, NothingSaidYet

\* What one send does to the history and to the packets still to be sent.
LEMMA SendEffect ==
    ASSUME TypeOK, Send
    PROVE  /\ Len(sent) \in Nat /\ Len(sent') = Len(sent) + 1
           /\ \A i \in 1..Len(sent) : sent'[i] = sent[i]
           /\ sent'[Len(sent) + 1].packet = Head(todo).packet
           /\ sent'[Len(sent) + 1].format = CodecFormat
           /\ sent' # <<>>
<1>1. todo \in Seq(Packet) /\ todo # <<>> /\ sent \in Seq(Sent)
  BY DEF TypeOK, Send
<1>2. Head(todo) \in Packet
  BY <1>1, HeadTailProperties
<1>3. SentUnder(Head(todo), CodecFormat) \in Sent
  BY <1>2 DEF SentUnder, CodecFormat, Sent, Packet, Format
<1>4. sent' = Append(sent, SentUnder(Head(todo), CodecFormat))
  BY DEF Send
<1>5. Len(sent) \in Nat
  BY <1>1, LenProperties
<1> QED
  BY <1>1, <1>3, <1>4, <1>5, AppendProperties DEF SentUnder

\* While the task waits for a frame the last exchange is complete.
LEMMA ReadingIsWaiting == IndInv /\ Reading => Waiting /\ NothingSaidYet
  BY DEF IndInv, Reading, Active, Waiting, AnsweringStatus, AnsweringPing, RejectingName,
         AnnouncingCompression, AcceptingLogin

\* A step that sends nothing leaves every fact about the history as it was; if
\* the connection was running, no last word has been said.
LEMMA Silent ==
    ASSUME IndInv, UNCHANGED <<sent, compression>>, Running \/ UNCHANGED outcome
    PROVE  SwitchPoint' /\ (compression' <=> Said("SetCompression")') /\ LastWord'
<1>1. SwitchPoint' /\ (compression' <=> Said("SetCompression")')
  BY DEF IndInv, SwitchPoint, Said
<1>2. LastWord'
  BY DEF IndInv, LastWord, Running
<1> QED
  BY <1>1, <1>2

\* The handlers, up to their first send.
LEMMA IndHandle ==
    ASSUME IndInv, TypeOK', Handle
    PROVE  IndInv'
<1>1. Running /\ Waiting /\ NothingSaidYet /\ UNCHANGED <<sent, compression, config>>
  BY ReadingIsWaiting
  DEF Handle, handle_handshake, handle_status_request, handle_ping, handle_login_start,
      handle_login_acknowledged, UnexpectedPacket, DecodeError, Dispatch, Reading
<1>2. SwitchPoint' /\ (compression' <=> Said("SetCompression")') /\ LastWord'
  BY <1>1, Silent
<1>3. (Announced' <=> Announced) /\ ~Announced
  BY <1>1 DEF Announced, Waiting
<1>4. ASSUME NEW error \in {"Protocol", "DuplicateStatusRequest", "UnexpectedPacket"}, Fail(error)
      PROVE  IndInv'
  BY <1>2, <1>4
  DEF Fail, IndInv, TransitionsAgree, NoiseIsTransport, is_transport_noise, Running
<1>5. ASSUME UNCHANGED outcome, Active', NothingSaidYet' PROVE IndInv'
  BY <1>1, <1>2, <1>5
  DEF IndInv, TransitionsAgree, NoiseIsTransport, is_transport_noise, Running
<1>6. CASE handle_handshake
  <2>1. current = "Handshaking"
    BY <1>6 DEF handle_handshake, Dispatch
  <2>2. CASE Fail("Protocol")
    BY <1>4, <2>2
  <2>3. ASSUME NEW to \in {"Status", "Login"}, transition(to) PROVE IndInv'
    <3>1. UNCHANGED <<outcome, todo, status_request_seen>> /\ current' = to
      BY <2>1, <2>3 DEF transition, Permitted
    <3>2. Active' /\ NothingSaidYet'
      BY <1>1, <1>3, <2>1, <3>1 DEF Active, Waiting, NothingSaidYet
    <3> QED
      BY <1>5, <3>1, <3>2
  <2> QED
    BY <1>6, <2>2, <2>3 DEF handle_handshake
<1>7. CASE handle_status_request
  <2>1. CASE Fail("DuplicateStatusRequest")
    BY <1>4, <2>1
  <2>2. CASE /\ ~status_request_seen
             /\ status_request_seen' = TRUE
             /\ Reply(<<Pkt("StatusResponse", "")>>, "Continue")
    <3>1. current = "Status" /\ current' = "Status"
      BY <1>7, <2>2 DEF handle_status_request, Dispatch, Reply
    <3>2. AnsweringStatus' /\ NothingSaidYet'
      BY <1>1, <2>2, <3>1 DEF Reply, AnsweringStatus, NothingSaidYet, Pkt
    <3> QED
      BY <1>5, <2>2, <3>2 DEF Active, Reply
  <2> QED
    BY <1>7, <2>1, <2>2 DEF handle_status_request
<1>8. CASE handle_ping
  <2> DEFINE arg == DecodedBody(Head(inbox)).arg
  <2>1. CASE Fail("Protocol")
    BY <1>4, <2>1
  <2>2. CASE Reply(<<Pkt("PongResponse", arg)>>, "Close") /\ UNCHANGED status_request_seen
    <3>1. current = "Status" /\ current' = "Status" /\ arg \in Args
      BY <1>8, <2>2, TakeFrame DEF handle_ping, Dispatch, Reply, IndInv
    <3>2. AnsweringPing' /\ NothingSaidYet'
      BY <1>1, <2>2, <3>1 DEF Reply, AnsweringPing, NothingSaidYet, Pkt
    <3> QED
      BY <1>5, <2>2, <3>2 DEF Active, Reply
  <2> QED
    BY <1>8, <2>1, <2>2 DEF handle_ping
<1>9. CASE handle_login_start
  <2> DEFINE arg == DecodedBody(Head(inbox)).arg
  <2>1. current = "Login" /\ arg \in Args
    BY <1>9, TakeFrame DEF handle_login_start, Dispatch, IndInv
  <2>2. CASE Fail("Protocol")
    BY <1>4, <2>2
  <2>3. ASSUME NEW packets, NEW then, Reply(packets, then), UNCHANGED status_request_seen
        PROVE  current' = "Login" /\ UNCHANGED outcome /\ NothingSaidYet'
    BY <1>1, <2>1, <2>3 DEF Reply, NothingSaidYet
  <2>4. CASE Reply(<<Pkt("LoginDisconnect", "")>>, "InvalidUsername") /\ UNCHANGED status_request_seen
    <3>1. RejectingName'
      BY <1>3, <2>3, <2>4 DEF Reply, RejectingName, Pkt
    <3> QED
      BY <1>5, <2>3, <2>4, <3>1 DEF Active
  <2>5. CASE Reply(LoginReplies(arg), "Continue") /\ UNCHANGED status_request_seen
    <3>1. CASE config.compression
      <4>1. AnnouncingCompression'
        BY <1>1, <1>3, <2>1, <2>3, <2>5, <3>1 DEF Reply, LoginReplies, AnnouncingCompression, Pkt
      <4> QED
        BY <1>5, <2>3, <2>5, <4>1 DEF Active
    <3>2. CASE ~config.compression
      <4>1. AcceptingLogin'
        BY <1>1, <1>3, <2>1, <2>3, <2>5, <3>2 DEF Reply, LoginReplies, AcceptingLogin, Pkt
      <4> QED
        BY <1>5, <2>3, <2>5, <4>1 DEF Active
    <3> QED
      BY <3>1, <3>2
  <2> QED
    BY <1>9, <2>2, <2>4, <2>5 DEF handle_login_start
<1>10. CASE handle_login_acknowledged
  <2>1. UNCHANGED <<outcome, todo>> /\ current' = "Configuration"
    BY <1>10 DEF handle_login_acknowledged, Dispatch, transition, Permitted
  <2>2. Active' /\ NothingSaidYet'
    BY <1>1, <1>3, <2>1 DEF Active, Waiting, NothingSaidYet
  <2> QED
    BY <1>5, <2>1, <2>2
<1>11. CASE UnexpectedPacket \/ DecodeError
  BY <1>4, <1>11 DEF UnexpectedPacket, DecodeError
<1> QED
  BY <1>6, <1>7, <1>8, <1>9, <1>10, <1>11 DEF Handle

\* A send in each of the situations that Active allows: what is sent, what is
\* left, and whether the connection goes on.
LEMMA SendCases ==
    ASSUME IndInv, Send
    PROVE  /\ Running
           /\ \/ /\ AnsweringStatus /\ Head(todo).packet = "StatusResponse"
                 /\ todo' = <<>> /\ outcome' = "running"
              \/ /\ AnsweringPing /\ Head(todo).packet = "PongResponse"
                 /\ todo' = <<>> /\ outcome' = "Ok"
              \/ /\ RejectingName /\ Head(todo).packet = "LoginDisconnect"
                 /\ todo' = <<>> /\ outcome' = "InvalidUsername"
              \/ /\ AnnouncingCompression /\ Head(todo).packet = "SetCompression"
                 /\ \E arg \in Args : todo' = <<Pkt("LoginSuccess", arg)>>
                 /\ outcome' = "running"
              \/ /\ AcceptingLogin /\ Head(todo).packet = "LoginSuccess"
                 /\ todo' = <<>> /\ outcome' = "running"
<1>1. Running /\ todo # <<>> /\ Active
  BY DEF Send, IndInv
<1>2. ASSUME NEW p, todo = <<p>>
      PROVE  Head(todo) = p /\ todo' = <<>> /\ outcome' = AfterSends
  BY <1>2 DEF Send
<1>3. ASSUME NEW p, NEW q, todo = <<p, q>>
      PROVE  Head(todo) = p /\ todo' = <<q>> /\ outcome' = outcome
  BY <1>3 DEF Send
<1>4. \A packet, arg : Pkt(packet, arg).packet = packet
  BY DEF Pkt
<1>5. CASE AnsweringStatus
  BY <1>1, <1>2, <1>4, <1>5 DEF AnsweringStatus, AfterSends
<1>6. CASE AnsweringPing
  BY <1>1, <1>2, <1>4, <1>6 DEF AnsweringPing, AfterSends
<1>7. CASE RejectingName
  BY <1>1, <1>2, <1>4, <1>7 DEF RejectingName, AfterSends
<1>8. CASE AnnouncingCompression
  <2>1. PICK arg \in Args : todo = <<Pkt("SetCompression", ""), Pkt("LoginSuccess", arg)>>
    BY <1>8 DEF AnnouncingCompression
  <2>2. Head(todo).packet = "SetCompression" /\ todo' = <<Pkt("LoginSuccess", arg)>>
    BY <1>3, <1>4, <2>1
  <2>3. outcome' = "running"
    BY <1>1, <1>3, <2>1 DEF Running
  <2> QED
    BY <1>1, <1>8, <2>2, <2>3
<1>9. CASE AcceptingLogin
  BY <1>1, <1>2, <1>4, <1>9 DEF AcceptingLogin, AfterSends
<1> QED
  BY <1>1, <1>5, <1>6, <1>7, <1>8, <1>9 DEF Active, Waiting

\* A send preserves the invariant.
LEMMA IndSend ==
    ASSUME IndInv, TypeOK', Send
    PROVE  IndInv'
<1> DEFINE n == Len(sent)
<1>1. TypeOK
  BY DEF IndInv
<1>2. /\ n \in Nat /\ Len(sent') = n + 1 /\ sent' # <<>>
      /\ \A i \in 1..n : sent'[i] = sent[i]
      /\ sent'[n + 1].packet = Head(todo).packet /\ sent'[n + 1].format = CodecFormat
  BY <1>1, SendEffect
<1>3. /\ compression' = (compression \/ Head(todo).packet = "SetCompression")
      /\ UNCHANGED <<config, current, status_request_seen, flow, inbox, peer>>
  BY DEF Send, peerVars
<1> HIDE DEF n
<1>4. compression' <=> Said("SetCompression")'
  <2>1. compression <=> \E i \in 1..n : sent[i].packet = "SetCompression"
    BY DEF IndInv, Said, n
  <2>2. Said("SetCompression")' <=> \E i \in 1..(n + 1) : sent'[i].packet = "SetCompression"
    BY <1>2 DEF Said
  <2>3. (\E i \in 1..(n + 1) : sent'[i].packet = "SetCompression")
          <=> (\E i \in 1..n : sent[i].packet = "SetCompression") \/ Head(todo).packet = "SetCompression"
    BY <1>2
  <2> QED
    BY <1>3, <2>1, <2>2, <2>3
<1>5. SwitchPoint'
  <2>1. ASSUME NEW i \in 1..(n + 1)
        PROVE  sent'[i].format = "compressed" <=>
                   \E j \in 1..(i - 1) : sent'[j].packet = "SetCompression"
    <3>1. CASE i \in 1..n
      <4>1. \A j \in 1..(i - 1) : sent'[j] = sent[j]
        BY <1>2, <3>1
      <4>2. sent[i].format = "compressed" <=> \E j \in 1..(i - 1) : sent[j].packet = "SetCompression"
        BY <3>1 DEF IndInv, SwitchPoint, n
      <4> QED
        BY <1>2, <3>1, <4>1, <4>2
    <3>2. CASE i = n + 1
      <4>1. compression <=> \E j \in 1..n : sent[j].packet = "SetCompression"
        BY DEF IndInv, Said, n
      <4>2. sent'[i].format = "compressed" <=> compression
        BY <1>2, <3>2 DEF CodecFormat
      <4>3. i - 1 = n
        BY <1>2, <3>2
      <4> QED
        BY <1>2, <4>1, <4>2, <4>3
    <3> QED
      BY <1>2, <3>1, <3>2
  <2> QED
    BY <1>2, <2>1 DEF SwitchPoint
<1>6. LastWord'
  <2>1. \A i \in 1..n : sent[i].packet \notin {"PongResponse", "LoginDisconnect"}
    BY SendCases DEF IndInv, LastWord, Running, n
  <2>2. Head(todo).packet \in {"PongResponse", "LoginDisconnect"} => outcome' \in {"Ok", "InvalidUsername"}
    BY SendCases
  <2>3. ASSUME NEW i \in 1..(n + 1), sent'[i].packet \in {"PongResponse", "LoginDisconnect"}
        PROVE  i = n + 1 /\ outcome' \in {"Ok", "InvalidUsername"}
    BY <1>2, <2>1, <2>2, <2>3
  <2> QED
    BY <1>2, <2>3 DEF LastWord
<1>7. TransitionsAgree' /\ NoiseIsTransport'
  BY SendCases DEF TransitionsAgree, NoiseIsTransport, is_transport_noise
<1>8. Announced' <=> Head(todo).packet = "SetCompression"
  BY <1>2 DEF Announced
<1>9. Running' => Active' /\ NothingSaidYet'
  <2>1. CASE AnsweringStatus /\ Head(todo).packet = "StatusResponse" /\ todo' = <<>>
    BY <1>3, <1>8, <2>1 DEF AnsweringStatus, Active, Waiting, NothingSaidYet
  <2>2. CASE AnnouncingCompression /\ Head(todo).packet = "SetCompression"
             /\ \E arg \in Args : todo' = <<Pkt("LoginSuccess", arg)>>
    <3>1. AcceptingLogin'
      BY <1>3, <1>8, <2>2 DEF AnnouncingCompression, AcceptingLogin, Pkt
    <3> QED
      BY <1>3, <2>2, <3>1 DEF AnnouncingCompression, Active, NothingSaidYet
  <2>3. CASE AcceptingLogin /\ Head(todo).packet = "LoginSuccess" /\ todo' = <<>>
    BY <1>3, <1>8, <2>3 DEF AcceptingLogin, Active, Waiting, NothingSaidYet
  <2> QED
    BY SendCases, <2>1, <2>2, <2>3 DEF Running
<1> QED
  BY <1>4, <1>5, <1>6, <1>7, <1>9 DEF IndInv

\* Every other step: the reads that end the connection, a failed send, and
\* what the peer does.
LEMMA IndNext == IndInv /\ [Next]_vars => IndInv'
<1> SUFFICES ASSUME IndInv, [Next]_vars PROVE IndInv'
  OBVIOUS
<1>1. TypeOK'
  BY TypeNext DEF IndInv
<1>2. ASSUME UNCHANGED <<sent, compression>>, Running, outcome' # "running",
             outcome' # "IllegalTransition", NoiseIsTransport'
      PROVE  IndInv'
  BY <1>1, <1>2, Silent DEF IndInv, TransitionsAgree, Running
<1>3. ASSUME UNCHANGED <<config, serverVars>>, NoiseIsTransport' PROVE IndInv'
  <2>1. SwitchPoint' /\ (compression' <=> Said("SetCompression")') /\ LastWord'
    BY <1>3, Silent DEF serverVars
  <2> QED
    BY <1>1, <1>3, <2>1
    DEF serverVars, IndInv, TransitionsAgree, Running, Active, Waiting, AnsweringStatus,
        AnsweringPing, RejectingName, AnnouncingCompression, AcceptingLogin, Announced,
        NothingSaidYet
<1>4. CASE Handle
  BY <1>1, <1>4, IndHandle
<1>5. CASE Send
  BY <1>1, <1>5, IndSend
<1>6. CASE SendFails
  <2>1. UNCHANGED <<sent, compression, peer>> /\ Running /\ outcome' \in {"Io", "Protocol"}
        /\ (outcome' = "Io" => peer = "reset")
    BY <1>6 DEF SendFails, peerVars
  <2>2. NoiseIsTransport'
    BY <2>1 DEF NoiseIsTransport, is_transport_noise
  <2> QED
    BY <1>2, <2>1, <2>2
<1>7. CASE ReadTimeout \/ ReadEof \/ ReadError
  <2>1. UNCHANGED <<sent, compression, peer, inbox, todo>> /\ Running
        /\ outcome' \in {"Io", "Timeout", "Ok"} /\ todo = <<>> /\ (peer = "open" => inbox = <<>>)
    BY <1>7 DEF ReadTimeout, ReadEof, ReadError, ReadEnds, Reading, peerVars
  <2>2. NoiseIsTransport'
    BY <2>1 DEF NoiseIsTransport
  <2> QED
    BY <1>2, <2>1, <2>2
<1>8. CASE PeerNext
  <2>1. UNCHANGED <<config, serverVars>>
    BY <1>8 DEF PeerNext, PeerSend, PeerSendPart, PeerStops, PeerRead
  <2>2. NoiseIsTransport'
    <3>1. UNCHANGED <<outcome, todo>>
      BY <2>1 DEF serverVars
    <3>2. \/ Running
          \/ UNCHANGED <<inbox, peer>>
      BY <1>8 DEF PeerNext, PeerSend, PeerSendPart, PeerStops, PeerRead, peerVars
    <3> QED
      BY <3>1, <3>2 DEF IndInv, NoiseIsTransport, is_transport_noise, Running
  <2> QED
    BY <1>3, <2>1, <2>2
<1>9. CASE UNCHANGED vars
  <2>1. UNCHANGED <<config, serverVars>> /\ NoiseIsTransport'
    BY <1>9 DEF vars, serverVars, peerVars, IndInv, NoiseIsTransport
  <2> QED
    BY <1>3, <2>1
<1> QED
  BY <1>4, <1>5, <1>6, <1>7, <1>8, <1>9 DEF Next, ServerNext

-----------------------------------------------------------------------------
(***************************************************************************)
(* The theorems.                                                           *)
(***************************************************************************)

\* Every reachable state satisfies the invariant.
THEOREM Inductive == Spec => []IndInv
  BY IndInit, IndNext, PTL DEF Spec

\* Every variable keeps its type, whatever the peer sends; in particular no
\* more frames are on the wire than the transport holds.
THEOREM TypeCorrect == Spec => []TypeOK
<1>1. IndInv => TypeOK
  BY DEF IndInv
<1> QED
  BY Inductive, <1>1, PTL

\* The frames up to and including the first SetCompression are plain and all
\* later ones compressed (handle_login_start, set_compression).
THEOREM SwitchIsWhereAnnounced == Spec => []SwitchPoint
<1>1. IndInv => SwitchPoint
  BY DEF IndInv
<1> QED
  BY Inductive, <1>1, PTL

\* `handle` never asks for a transition that ConnectionState refuses.
THEOREM NoIllegalTransition == Spec => []TransitionsAgree
<1>1. IndInv => TransitionsAgree
  BY DEF IndInv
<1> QED
  BY Inductive, <1>1, PTL

\* A pong and a refusal of the name are the last packet of their connection.
THEOREM NothingAfterLastWord == Spec => []LastWord
<1>1. IndInv => LastWord
  BY DEF IndInv
<1> QED
  BY Inductive, <1>1, PTL

\* Only the transport makes a connection end as noise (run_connection).
THEOREM NoiseIsJustified == Spec => []NoiseIsTransport
<1>1. IndInv => NoiseIsTransport
  BY DEF IndInv
<1> QED
  BY Inductive, <1>1, PTL

-----------------------------------------------------------------------------
(***************************************************************************)
(* Frames in the old layout.  What the history says of them matters only   *)
(* once the codec is switched, so the invariant also says that until then  *)
(* a connection that will be switched has taken no LoginStart but the one  *)
(* it is answering.                                                        *)
(***************************************************************************)
StartTaken == \E j \in DOMAIN consumed : consumed[j].body.kind = "LoginStart"

LayoutInv ==
    /\ Running /\ current = "Handshaking" => consumed = <<>>
    /\ compression => current \in {"Login", "Configuration"}
    /\ Running /\ current = "Login" /\ config.compression /\ ~compression =>
          ~PlainAfterStart /\ (todo = <<>> => ~StartTaken)
    /\ compression /\ PlainAfterStart => todo = <<>> /\ (~Running \/ current = "Configuration")

\* A handler takes one frame, which comes last in the history.
LEMMA TakesOne ==
    ASSUME TypeOK, Handle
    PROVE  /\ Reading /\ UNCHANGED <<config, compression, sent>>
           /\ PlainAfterStart' => PlainAfterStart \/ (StartTaken /\ Head(inbox).format = "plain")
           /\ StartTaken' => StartTaken \/ Head(inbox).body.kind = "LoginStart"
           /\ consumed = <<>> => ~StartTaken
<1> DEFINE n == Len(consumed)
<1>1. /\ Reading /\ inbox # <<>> /\ UNCHANGED <<config, compression, sent>>
      /\ consumed' = Append(consumed, Head(inbox))
  BY DEF Handle, handle_handshake, handle_status_request, handle_ping, handle_login_start,
         handle_login_acknowledged, UnexpectedPacket, DecodeError, Dispatch
<1>2. consumed \in Seq(Frames) /\ Head(inbox) \in Frames /\ n \in Nat /\ DOMAIN consumed = 1..n
  BY <1>1, TakeFrame, LenProperties DEF TypeOK
<1>3. /\ DOMAIN consumed' = 1..(n + 1)
      /\ \A i \in 1..n : consumed'[i] = consumed[i]
      /\ consumed'[n + 1] = Head(inbox)
  BY <1>1, <1>2, AppendProperties
<1> HIDE DEF n
<1>4. PlainAfterStart' => PlainAfterStart \/ (StartTaken /\ Head(inbox).format = "plain")
  <2> SUFFICES ASSUME NEW i \in 1..(n + 1), NEW j \in 1..(n + 1), j < i,
                      consumed'[j].body.kind = "LoginStart", consumed'[i].format = "plain"
               PROVE  PlainAfterStart \/ (StartTaken /\ Head(inbox).format = "plain")
    BY <1>3 DEF PlainAfterStart
  <2>1. j \in 1..n /\ consumed[j].body.kind = "LoginStart"
    BY <1>2, <1>3
  <2>2. CASE i \in 1..n
    BY <1>2, <1>3, <2>1, <2>2 DEF PlainAfterStart
  <2>3. CASE i = n + 1
    BY <1>2, <1>3, <2>1, <2>3 DEF StartTaken
  <2> QED
    BY <1>2, <2>2, <2>3
<1>5. StartTaken' => StartTaken \/ Head(inbox).body.kind = "LoginStart"
  <2> SUFFICES ASSUME NEW j \in 1..(n + 1), consumed'[j].body.kind = "LoginStart"
               PROVE  StartTaken \/ Head(inbox).body.kind = "LoginStart"
    BY <1>3 DEF StartTaken
  <2>1. CASE j \in 1..n
    BY <1>2, <1>3, <2>1 DEF StartTaken
  <2>2. CASE j = n + 1
    BY <1>3, <2>2
  <2> QED
    BY <1>2, <2>1, <2>2
<1> QED
  BY <1>1, <1>4, <1>5 DEF StartTaken

\* What a handler makes of a frame: an error, or one of four moves, for the last
\* two of which the body must have been read in its own layout.
LEMMA HandleEffect ==
    ASSUME Handle
    PROVE  \/ outcome' # "running" /\ UNCHANGED <<current, todo>>
           \/ /\ current = "Handshaking" /\ current' \in {"Status", "Login"} /\ UNCHANGED todo
              /\ Head(inbox).body.kind = "Handshake"
           \/ current = "Status" /\ current' = "Status"
           \/ current = "Login" /\ current' = "Configuration" /\ UNCHANGED todo
           \/ /\ current = "Login" /\ current' = "Login" /\ todo' # <<>>
              /\ Head(inbox).format = CodecFormat
<1>1. \A kind : decode_as(DecodedBody(Head(inbox)), kind) /\ kind # "Misread" =>
          Head(inbox).format = CodecFormat /\ Head(inbox).body.kind = kind
  BY DEF decode_as, DecodedBody, Misread
<1>2. CASE handle_handshake
  BY <1>1, <1>2 DEF handle_handshake, Dispatch, Fail, transition, Permitted
<1>3. CASE handle_status_request \/ handle_ping
  BY <1>3 DEF handle_status_request, handle_ping, Dispatch, Fail, Reply
<1>4. CASE handle_login_start
  <2>1. \A arg : LoginReplies(arg) # <<>> /\ <<Pkt("LoginDisconnect", "")>> # <<>>
    BY DEF LoginReplies
  <2> QED
    BY <1>1, <1>4, <2>1 DEF handle_login_start, Dispatch, Fail, Reply
<1>5. CASE handle_login_acknowledged
  BY <1>5 DEF handle_login_acknowledged, Dispatch, transition, Permitted
<1>6. CASE UnexpectedPacket \/ DecodeError
  BY <1>6 DEF UnexpectedPacket, DecodeError, Fail
<1> QED
  BY <1>2, <1>3, <1>4, <1>5, <1>6 DEF Handle

\* Once the announcement is out, the codec compresses.
LEMMA SaidAnnounced == IndInv /\ Announced => compression
<1> SUFFICES ASSUME IndInv, Announced PROVE compression
  OBVIOUS
<1>1. sent \in Seq(Sent) /\ sent # <<>>
  BY DEF IndInv, TypeOK, Announced
<1>2. Len(sent) \in 1..Len(sent)
  BY <1>1, LenProperties, EmptySeq
<1> QED
  BY <1>2 DEF IndInv, Announced, Said

\* A fresh connection has taken no frame.
LEMMA LayoutInit == Init => LayoutInv
  BY DEF Init, LayoutInv, PlainAfterStart, StartTaken

\* A handler, a send, the ends of a connection and the peer preserve it.
LEMMA LayoutNext == IndInv /\ LayoutInv /\ [Next]_vars => LayoutInv'
<1> SUFFICES ASSUME IndInv, LayoutInv, [Next]_vars PROVE LayoutInv'
  OBVIOUS
<1>1. CASE Handle
  <2>1. TypeOK
    BY DEF IndInv
  <2>2. /\ Running /\ todo = <<>> /\ UNCHANGED <<config, compression, sent>>
        /\ PlainAfterStart' => PlainAfterStart \/ (StartTaken /\ Head(inbox).format = "plain")
        /\ StartTaken' => StartTaken \/ Head(inbox).body.kind = "LoginStart"
        /\ consumed = <<>> => ~StartTaken /\ ~PlainAfterStart
    BY <1>1, <2>1, TakesOne DEF Reading, PlainAfterStart, StartTaken
  <2>3. \/ outcome' # "running" /\ UNCHANGED <<current, todo>>
        \/ /\ current = "Handshaking" /\ current' \in {"Status", "Login"} /\ UNCHANGED todo
           /\ Head(inbox).body.kind = "Handshake"
        \/ current = "Status" /\ current' = "Status"
        \/ current = "Login" /\ current' = "Configuration" /\ UNCHANGED todo
        \/ /\ current = "Login" /\ current' = "Login" /\ todo' # <<>>
           /\ Head(inbox).format = CodecFormat
    BY <1>1, HandleEffect
  <2> QED
    BY <2>2, <2>3 DEF LayoutInv, Running, CodecFormat
<1>2. CASE Send
  <2>1. /\ UNCHANGED <<config, current, consumed>> /\ todo # <<>> /\ Running
        /\ compression' = (compression \/ Head(todo).packet = "SetCompression")
    BY <1>2 DEF Send
  <2>2. \/ Head(todo).packet # "SetCompression" /\ current # "Login"
        \/ Head(todo).packet # "SetCompression" /\ outcome' # "running"
        \/ Head(todo).packet # "SetCompression" /\ AcceptingLogin
        \/ AnnouncingCompression /\ \E arg \in Args : todo' = <<Pkt("LoginSuccess", arg)>>
    BY <1>2, SendCases DEF AnsweringStatus
  <2>3. AcceptingLogin => ~config.compression \/ compression
    BY SaidAnnounced DEF AcceptingLogin
  <2>4. \A p : <<p>> # <<>>
    OBVIOUS
  <2>5. UNCHANGED <<PlainAfterStart, StartTaken>>
    BY <2>1 DEF PlainAfterStart, StartTaken
  <2> QED
    BY <2>1, <2>2, <2>3, <2>4, <2>5 DEF LayoutInv, Running, AnnouncingCompression
<1>3. CASE SendFails \/ ReadTimeout \/ ReadEof \/ ReadError
  <2>1. /\ UNCHANGED <<config, current, consumed, compression>>
        /\ todo' = <<>> /\ outcome' # "running"
    BY <1>3 DEF SendFails, ReadTimeout, ReadEof, ReadError, ReadEnds, Reading
  <2>2. UNCHANGED PlainAfterStart
    BY <2>1 DEF PlainAfterStart
  <2> QED
    BY <2>1, <2>2 DEF LayoutInv, Running
<1>4. CASE PeerNext \/ UNCHANGED vars
  <2>1. UNCHANGED <<config, current, consumed, compression, todo, outcome>>
    BY <1>4 DEF PeerNext, PeerSend, PeerSendPart, PeerStops, PeerRead, vars, serverVars, peerVars
  <2>2. UNCHANGED <<PlainAfterStart, StartTaken>>
    BY <2>1 DEF PlainAfterStart, StartTaken
  <2> QED
    BY <2>1, <2>2 DEF LayoutInv, Running
<1> QED
  BY <1>1, <1>2, <1>3, <1>4 DEF Next, ServerNext

\* A peer that sends a frame in the layout of before the switch, however late
\* it learns of it, is sent nothing more (decode, handle).
THEOREM MisreadIsSilenced == Spec => MisreadSilences
<1>1. Spec => []LayoutInv
  BY LayoutInit, LayoutNext, Inductive, PTL DEF Spec
<1>2. ASSUME LayoutInv, [Next]_vars
      PROVE  [compression /\ PlainAfterStart => sent' = sent]_vars
  <2>1. CASE Send
    BY <1>2, <2>1 DEF Send, LayoutInv
  <2>2. CASE Handle
    BY <2>2 DEF Handle, handle_handshake, handle_status_request, handle_ping, handle_login_start,
                handle_login_acknowledged, UnexpectedPacket, DecodeError, Dispatch
  <2>3. CASE SendFails \/ ReadTimeout \/ ReadEof \/ ReadError \/ PeerNext \/ UNCHANGED vars
    BY <2>3 DEF SendFails, ReadTimeout, ReadEof, ReadError, ReadEnds, PeerNext, PeerSend,
                PeerSendPart, PeerStops, PeerRead, serverVars, vars
  <2> QED
    BY <1>2, <2>1, <2>2, <2>3 DEF Next, ServerNext
<1> QED
  BY <1>1, <1>2, PTL DEF Spec, MisreadSilences

-----------------------------------------------------------------------------
(***************************************************************************)
(* The connection implements Session.                                      *)
(***************************************************************************)
Log == [i \in DOMAIN sent |-> sent[i].packet]

\* The abstract log ends with the announcement exactly when the wire does.
LEMMA LogAnnounced ==
    ASSUME TypeOK
    PROVE  /\ Log \in Seq(Clientbound) /\ Len(Log) = Len(sent)
           /\ Log = <<>> <=> sent = <<>>
           /\ S!Announced <=> Announced
<1>1. sent \in Seq(Sent) /\ Len(sent) \in Nat /\ DOMAIN sent = 1..Len(sent)
  BY LenProperties DEF TypeOK
<1>2. \A i \in 1..Len(sent) : sent[i].packet \in Clientbound
  <2>1. \A i \in 1..Len(sent) : sent[i] \in Sent
    BY <1>1, ElementOfSeq
  <2> QED
    BY <2>1 DEF Sent
<1>3. Log \in [1..Len(sent) -> Clientbound]
  BY <1>1, <1>2 DEF Log
<1>4. Log \in Seq(Clientbound) /\ Len(Log) = Len(sent)
  BY <1>1, <1>3
<1>5. Log = <<>> <=> sent = <<>>
  BY <1>1, <1>4, EmptySeq
<1>6. sent # <<>> => Log[Len(Log)] = sent[Len(sent)].packet
  BY <1>1, <1>4 DEF Log
<1> QED
  BY <1>4, <1>5, <1>6 DEF S!Announced, Announced, Log

\* A send appends the packet's name to the abstract log.
LEMMA LogAppends ==
    ASSUME TypeOK, TypeOK', Send, NEW packet, packet = Head(todo).packet
    PROVE  S!Says(packet)
<1> DEFINE n == Len(sent)
<1>1. /\ n \in Nat /\ Len(sent') = n + 1
      /\ \A i \in 1..n : sent'[i] = sent[i]
      /\ sent'[n + 1].packet = Head(todo).packet
  BY SendEffect
<1>2. DOMAIN sent = 1..n /\ DOMAIN sent' = 1..(n + 1)
  BY <1>1, LenProperties DEF TypeOK
<1>3. Log' = [i \in 1..(n + 1) |-> sent'[i].packet]
  BY <1>2 DEF Log
<1>4. Append(Log, Head(todo).packet)
        = [i \in 1..(n + 1) |-> IF i \in 1..n THEN sent[i].packet ELSE Head(todo).packet]
  <2>1. Log \in Seq(Clientbound) /\ Len(Log) = n
    BY LogAnnounced
  <2>2. Append(Log, Head(todo).packet)
          = [i \in 1..(n + 1) |-> IF i \in 1..n THEN Log[i] ELSE Head(todo).packet]
    BY <1>1, <2>1
  <2> QED
    BY <1>2, <2>2 DEF Log
<1> HIDE DEF n
<1>5. Log' = Append(Log, Head(todo).packet)
  <2>1. \A i \in 1..(n + 1) :
          sent'[i].packet = IF i \in 1..n THEN sent[i].packet ELSE Head(todo).packet
    BY <1>1
  <2> QED
    BY <1>3, <1>4, <2>1
<1>6. UNCHANGED config
  BY DEF Send
<1> QED
  BY <1>5, <1>6 DEF S!Says, Log

\* Every step of a connection is a step of Session or changes nothing there:
\* the packets are sent in the order, and in the states, that it allows
\* (connection.rs and state.rs).
THEOREM ImplementsSession == Spec => SessionSpec
<1>1. Init => S!Init
  <2> SUFFICES ASSUME Init PROVE S!Init
    OBVIOUS
  <2>1. Log = <<>>
    BY TypeInit, LogAnnounced DEF Init
  <2> QED
    BY <2>1 DEF Init, S!Init, Running, Log
<1>2. IndInv /\ IndInv' /\ [Next]_vars => [S!Next]_(S!vars)
  <2> SUFFICES ASSUME IndInv, IndInv', [Next]_vars PROVE [S!Next]_(S!vars)
    OBVIOUS
  <2>1. TypeOK /\ TypeOK'
    BY DEF IndInv
  <2>2. ASSUME UNCHANGED <<config, sent, outcome, current>> PROVE UNCHANGED S!vars
    BY <2>2 DEF S!vars, Running
  <2>3. ASSUME UNCHANGED <<config, sent>>, Running, ~Running' PROVE S!Close
    <3>1. current # "Closed"
      BY <2>1 DEF TypeOK, State
    <3> QED
      BY <2>3, <3>1 DEF S!Close
  <2>4. CASE Handle
    <3>1. Running /\ UNCHANGED <<config, sent>> /\ ~Announced
      BY <2>4, ReadingIsWaiting
      DEF Handle, handle_handshake, handle_status_request, handle_ping, handle_login_start,
          handle_login_acknowledged, UnexpectedPacket, DecodeError, Dispatch, Reading, Waiting
    <3>2. \/ UNCHANGED <<outcome, current>>
          \/ ~Running'
          \/ Running' /\ current = "Handshaking" /\ current' \in {"Status", "Login"}
          \/ Running' /\ current = "Login" /\ current' = "Configuration"
      BY <2>4, <3>1
      DEF Handle, handle_handshake, handle_status_request, handle_ping, handle_login_start,
          handle_login_acknowledged, UnexpectedPacket, DecodeError, Dispatch, transition,
          Permitted, Fail, Reply, Running
    <3>3. CASE Running' /\ current = "Handshaking" /\ current' \in {"Status", "Login"}
      BY <3>1, <3>3 DEF S!Next, S!Begin
    <3>4. CASE Running' /\ current = "Login" /\ current' = "Configuration"
      <4>1. ~S!Announced
        BY <2>1, <3>1, LogAnnounced
      <4> QED
        BY <3>1, <3>4, <4>1 DEF S!Next, S!Configure
    <3> QED
      BY <2>2, <2>3, <3>1, <3>2, <3>3, <3>4 DEF S!Next
  <2>5. CASE Send
    <3>1. Running /\ UNCHANGED <<config, current>>
      BY <2>5 DEF Send
    <3>2. (Log = <<>> <=> sent = <<>>) /\ (S!Announced <=> Announced)
      BY <2>1, LogAnnounced
    <3>3. CASE AnsweringStatus /\ Head(todo).packet = "StatusResponse" /\ outcome' = "running"
      <4>1. S!Says("StatusResponse")
        BY <2>1, <2>5, <3>3, LogAppends
      <4> QED
        BY <3>1, <3>2, <3>3, <4>1 DEF AnsweringStatus, S!Next, S!AnswerStatus, Running, Log
    <3>4. CASE AnsweringPing /\ Head(todo).packet = "PongResponse" /\ outcome' = "Ok"
      <4>1. S!Says("PongResponse")
        BY <2>1, <2>5, <3>4, LogAppends
      <4> QED
        BY <3>1, <3>4, <4>1 DEF AnsweringPing, S!Next, S!Pong, Running
    <3>5. CASE RejectingName /\ Head(todo).packet = "LoginDisconnect" /\ outcome' = "InvalidUsername"
      <4>1. S!Says("LoginDisconnect")
        BY <2>1, <2>5, <3>5, LogAppends
      <4> QED
        BY <3>1, <3>2, <3>5, <4>1 DEF RejectingName, S!Next, S!Reject, Running
    <3>6. CASE AnnouncingCompression /\ Head(todo).packet = "SetCompression" /\ outcome' = "running"
      <4>1. S!Says("SetCompression")
        BY <2>1, <2>5, <3>6, LogAppends
      <4> QED
        BY <3>1, <3>2, <3>6, <4>1 DEF AnnouncingCompression, S!Next, S!Announce, Running
    <3>7. CASE AcceptingLogin /\ Head(todo).packet = "LoginSuccess" /\ outcome' = "running"
      <4>1. S!Says("LoginSuccess")
        BY <2>1, <2>5, <3>7, LogAppends
      <4>2. S!Announced = config.compression
        BY <2>1, <3>2, <3>7 DEF AcceptingLogin, TypeOK, S!Announced
      <4> QED
        BY <3>1, <4>2, <3>7, <4>1 DEF AcceptingLogin, S!Next, S!Accept, Running
    <3> QED
      BY <2>5, SendCases, <3>3, <3>4, <3>5, <3>6, <3>7
  <2>6. CASE SendFails \/ ReadTimeout \/ ReadEof \/ ReadError
    <3>1. UNCHANGED <<config, sent>> /\ Running /\ ~Running'
      BY <2>6 DEF SendFails, ReadTimeout, ReadEof, ReadError, ReadEnds, Reading, Running
    <3> QED
      BY <2>3, <3>1 DEF S!Next
  <2>7. CASE PeerNext \/ UNCHANGED vars
    <3>1. UNCHANGED <<config, sent, outcome, current>>
      BY <2>7 DEF PeerNext, PeerSend, PeerSendPart, PeerStops, PeerRead, serverVars, vars
    <3> QED
      BY <2>2, <3>1
  <2> QED
    BY <2>4, <2>5, <2>6, <2>7 DEF Next, ServerNext
<1> QED
  BY <1>1, <1>2, Inductive, PTL DEF Spec, SessionSpec, S!Spec
=============================================================================
